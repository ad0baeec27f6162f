SPECIFICATION RootsSpec
CONSTANTS
  Never = Never
  Absent = Absent
  Store = {st1, st2}
  Snapshot = {sn1}
  Root = {d1, d2, d3, d4}
  Output = {o1, o2}
  Budget = 1
  Delta = {0, Never}
  MaxRevision = 2
INVARIANTS
  CountsOwners
PROPERTY
  ImplementsDomain
