SPECIFICATION LabSpec
CONSTANTS
  NoDiagnosis = NoDiagnosis
  NoFault = NoDiagnosis
  NoResult = NoResult
  ActionSteps <- BgpActionSteps
  TerminalSteps <- BgpTerminalSteps
  StartStep <- BgpStartStep
  TerminalDiagnosis <- BgpTerminalDiagnosis
  Transitions <- BgpTransitions
  Tool <- BgpTool
  Device <- BgpDevice
  Cost <- BgpCost
  Version = "0.2.0"
  Outcomes <- BgpOutcomes
  Diagnoses <- BgpDiagnoses
  Results <- BgpResults
  Evaluates <- BgpEvaluates
  Evaluate <- BgpEvaluate
  Incidents <- MCIncidents
  CanonicalIncidents <- MCCanonicalIncidents
  Policies <- MCPolicies
  InitialExperiences <- MCExperiences
  Latencies <- MCLatencies
  MaxSteps = 12
  MaxRuns = 1
  FailingSteps <- MCFailingSteps
  MaxChanges = 2
INVARIANT ScenarioIsFound
CHECK_DEADLOCK FALSE
