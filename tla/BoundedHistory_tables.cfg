SPECIFICATION HistorySpec
CONSTANTS
  k1 = k1
  k2 = k2
  k3 = k3
  k4 = k4
  k5 = k5
  Key = {k1, k2, k3, k4, k5}
  Hash <- CollidingHash
  Empty = Empty
  Tomb = Tomb
  None = None
  InitialSlots = 4
  MaxLive = 9
  MaxCount = 9
  MaxSlots = 64
  Fragment = {k1, k2, k3, k4, k5}
  Bytes <- FragmentBytes
  Capacity = 3
  ByteCapacity = 5
  Phrases <- SomePhrases
  MaxPushes = 5
INVARIANTS
  ProbeFinds
  CountersExact
  HistoryIsWindow
  NeverStuck
PROPERTIES
  ImplementsBag
  PushesEnd
CHECK_DEADLOCK FALSE
