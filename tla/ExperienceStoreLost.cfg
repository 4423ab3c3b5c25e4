SPECIFICATION Spec
CONSTANTS
  NoDiagnosis = NoDiagnosis
  Absent = Absent
  Torn = Torn
  Processes = {p1, p2}
  Incidents = {"i1", "i2"}
  StepNames = {"s1"}
  MaxSteps = 2
  MaxRuns = 2
INVARIANTS
  SavedIsNeverLost
CHECK_DEADLOCK FALSE
