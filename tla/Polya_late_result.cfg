SPECIFICATION Spec
CONSTANTS
  Workers = 2
  Problems = 2
  Kinds = {"miner"}
PROPERTIES
  ResultsMatch
CHECK_DEADLOCK FALSE
