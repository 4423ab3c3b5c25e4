SPECIFICATION Spec
CONSTANTS
  Branches = 6
  MaxRounds = 12
  Initial <- MCInitial
  Keys <- MCKeys
  Lists <- MCLists
  Train = {1, 3, 6}
  Objective <- ReplayObjective
  OnlineObjective <- RolloutObjective
  Accurate <- DiagnosesAll
  Window = 2
  Limit = 3
INVARIANTS
  TypeOK
  BestTopsLeaderboard
  ElitesClimb
  ReplayPredictsOnline
  OptimumDiagnoses
CHECK_DEADLOCK FALSE
