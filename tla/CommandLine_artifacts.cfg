SPECIFICATION CommandSpec
CONSTANTS
  File <- FourFiles
  RootFile = 1
  Trees <- SmallTrees
  MayVanish = {3}
  Process = {1, 2}
  Pid = {11, 12}
  Pieces = 2
  Compiler = 1
INVARIANTS
  LoadIsRight
  TargetIsWhole
PROPERTY
  Ends
CHECK_DEADLOCK FALSE
