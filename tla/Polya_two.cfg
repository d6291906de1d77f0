SPECIFICATION FairSpec
CONSTANTS
  Workers = 2
  Problems = 2
  Kinds = {"trivial", "miner"}
INVARIANTS
  TypeOK
  IdleIsStopped
  PostsLiveProblem
  ReadsFindAResult
  EndsWithAllSolved
PROPERTIES
  StatesFollow
  AssignedStops
CHECK_DEADLOCK FALSE
