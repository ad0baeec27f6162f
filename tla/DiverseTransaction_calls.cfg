SPECIFICATION Spec
CONSTANTS
  r = r
  p = p
  q = q
  chorus = chorus
  echo = echo
  uu = uu
  vv = vv
  e = e
  f = f
  Idle = Idle
  Production = {p, q}
  Order <- ProductionOrder
  ExactText = {uu, vv}
  Normal <- NormalForm
  Fragment = {e, f}
  Edges <- EdgeForm
  TextBytes <- NormalBytes
  FragmentBytes <- EdgeBytes
  Text = {chorus, echo}
  ExactCapacity = 1
  ExactByteCapacity = 1
  EdgeCapacity = 1
  EdgeByteCapacity = 9
  Session = {s1, s2}
  s1 = s1
  s2 = s2
  Grammar = {g}
  g = g
  h = h
  Rule = {r}
  Exempt = {}
  Attempts = 2
  Gap = 2
  Horizon = 3
  MaxSelections = 2
  MaxReturned = 2
INVARIANTS
  OnlyReturnedOutputRemembered
  HardGap
  LeastRepeatedReturned
PROPERTY ImplementsAtomic
CHECK_DEADLOCK FALSE
