SPECIFICATION AnalysisSpec
CONSTANTS
  Rule <- FourRules
  Production <- FiveProductions
  Packages <- SmallPackages
INVARIANTS
  LeastClosedSet
  ComponentsAreMutual
  VerdictIsRight
PROPERTY
  Ends
CHECK_DEADLOCK FALSE
