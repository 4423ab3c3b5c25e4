SPECIFICATION SuiteSpec
CONSTANTS
  NoDiagnosis = NoDiagnosis
  NoFault = NoDiagnosis
  NoResult = NoResult
  ActionSteps <- BgpActionSteps
  TerminalSteps <- BgpTerminalSteps
  StartStep <- BgpStartStep
  TerminalDiagnosis <- BgpTerminalDiagnosis
  Transitions <- BgpTransitions
  Tool <- BgpTool
  Device <- BgpDevice
  Cost <- BgpCost
  Version = "0.2.0"
  Outcomes <- BgpOutcomes
  Diagnoses <- BgpDiagnoses
  Results <- BgpResults
  Evaluates <- BgpEvaluates
  Evaluate <- BgpEvaluate
  Incidents <- MCIncidents
  CanonicalIncidents <- MCIncidents
  Policies <- MCPolicies
  InitialExperiences <- MCExperiences
  Latencies <- MCLatencies
  MaxSteps = 12
  MaxRuns = 8
  Removals <- MCRemovals
INVARIANTS
  SuiteDiagnoses
  LearningPays
CHECK_DEADLOCK FALSE
