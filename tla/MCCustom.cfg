SPECIFICATION FairSpec
CONSTANTS
  NoDiagnosis = NoDiagnosis
  NoResult = NoResult
  ActionSteps <- MCActionSteps
  TerminalSteps <- MCTerminalSteps
  StartStep = "a"
  TerminalDiagnosis <- MCTerminalDiagnosis
  Transitions <- MCTransitions
  Tool <- MCTool
  Device <- MCDevice
  Cost <- MCCost
  Version = "1"
  Outcomes <- MCOutcomes
  Diagnoses <- MCDiagnoses
  Results <- MCResults
  Evaluates <- MCEvaluates
  Evaluate <- MCEvaluate
  Incidents <- MCIncidents
  Policies <- MCPolicies
  InitialExperiences <- MCExperiences
  MaxSteps = 3
  MaxRuns = 2
INVARIANTS
  RecordMatchesRun
  HistoryIsSound
PROPERTIES
  InvestigationEnds
  ImplementsInvestigation
CHECK_DEADLOCK FALSE
