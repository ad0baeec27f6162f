SPECIFICATION Spec
CONSTANTS
  None = None
  NoIndex = 999
  Grammars <- MCGrammars
  LimitChoices <- MCLimitChoices
  Substitutes <- MCSubstitutes
  Hard <- MCHard
  DepthCap = 3
  TextSize <- MCTextSize
  NotUtf8 = {"bad"}
  LongestText = 4
  KnownWarnings = {"W_RECURSION_RISK"}
INVARIANTS RoundTrip DamageCaught
CHECK_DEADLOCK FALSE
