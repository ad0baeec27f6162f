SPECIFICATION Spec
CONSTANTS
  Authored <- SomePackages
  Inputs <- InputNames
  Width <- TwoScalars
  Requests <- SomeRequests
  Formatted <- SomeTexts
INVARIANTS
  OutcomesForeseen
  AnalysesAreSound
  Accounting
  ProvenanceExact
  ReturnsDerivation
PROPERTY
  Terminates
CHECK_DEADLOCK FALSE
