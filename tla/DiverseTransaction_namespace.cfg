SPECIFICATION Spec
CONSTANTS
  r = r
  p = p
  q = q
  chorus = chorus
  echo = echo
  uu = uu
  vv = vv
  e = e
  f = f
  Idle = Idle
  Production = {p, q}
  Order <- ProductionOrder
  ExactText = {uu, vv}
  Normal <- NormalForm
  Fragment = {e, f}
  Edges <- EdgeForm
  TextBytes <- NormalBytes
  FragmentBytes <- EdgeBytes
  Text = {echo}
  ExactCapacity = 1
  ExactByteCapacity = 9
  EdgeCapacity = 1
  EdgeByteCapacity = 9
  Session = {s1}
  s1 = s1
  s2 = s2
  Grammar = {g, h}
  g = g
  h = h
  Rule = {r}
  Exempt = {}
  Attempts = 2
  Gap = 1
  Horizon = 4
  MaxSelections = 1
  MaxReturned = 2
INVARIANT CooldownNamespaced
CHECK_DEADLOCK FALSE
