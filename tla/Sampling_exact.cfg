SPECIFICATION SelectionSpec
CONSTANTS
  Half = 16
  WeightLists <- Lists
  Budget = 2
INVARIANTS
  ExactProportions
  PathsAgree
  OverflowIsReal
CHECK_DEADLOCK FALSE
