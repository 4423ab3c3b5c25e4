SPECIFICATION Spec
CONSTANTS
  NoDiagnosis = NoDiagnosis
  Absent = Absent
  Torn = Torn
  Processes = {p1, p2}
  Incidents = {"i1", "i2"}
  StepNames = {"s1"}
  MaxSteps = 2
  MaxRuns = 3
INVARIANTS
  TypeOK
  LoadedHistoryIsSound
  SavedIsKept
  ReportsAreBacked
  AllExecutedIsRecorded
PROPERTIES
  DamageIsNotErased
CHECK_DEADLOCK FALSE
