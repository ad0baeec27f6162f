CONSTANTS
  Names = {"a", "b"}
  Malformed = "malformed"
  Wrappers = {w1, w2}
  MaxObjects = 5
  MaxEdits = 3
SPECIFICATION Spec
CHECK_DEADLOCK FALSE
INVARIANTS
  NoDangling
  OneOwner
PROPERTY CallContract
