-------------------------- MODULE MCCommandLine ----------------------------
(* Four files with up to two imports each: diamonds, circles, a file that
   imports itself or one file twice, two files with one identity.           *)
EXTENDS CommandLine

FourFiles == 1 .. 4
Few == {<<>>, <<1>>, <<2, 3>>, <<3, 2>>, <<4, 4>>, <<3, 4>>, <<4, 1>>}

SmallTrees ==
  {[imports |-> i, id |-> names] : i \in [FourFiles -> Few], names \in {<<4, 3, 2, 1>>, <<1, 2, 3, 2>>}}
============================================================================
