CONSTANTS
  Identifiers <- Lexemes
  Numbers = {"0", "2"}
  MaxExpressionDepth = 1
  Sources <- MCSources
SPECIFICATION Spec
INVARIANTS
  ReadsBack
  FaultsAreIndependent
PROPERTY Advances
