SPECIFICATION FairSpec
CONSTANTS
  Workers = 2
  Problems = 2
  Kinds = {"trivial"}
PROPERTIES
  AllGetSolved
CHECK_DEADLOCK FALSE
