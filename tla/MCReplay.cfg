SPECIFICATION Spec
CONSTANTS
  Branches = 6
  MaxRounds = 12
  Policies <- MCPolicies
INVARIANTS
  TypeOK
  BudgetKept
  RoundsPartition
  LooksInOrder
  ReplayIsHonest
  ReplayReproduces
  SafeButExpensive
CHECK_DEADLOCK FALSE
