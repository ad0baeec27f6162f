---------------------------- MODULE CommandLine ----------------------------
(***************************************************************************)
(* The compile-artifact command: a package is loaded and compiled, and its *)
(* artifact written over the output file, by the process Compiler, while   *)
(* other processes do the same to that file.  Encoding the artifact and    *)
(* decoding it again, between the two, changes no file.                    *)
(*                                                                         *)
(* The loader shares nothing with the other processes, so they are only    *)
(* interleaved with what follows it.                                       *)
(***************************************************************************)
EXTENDS PackageLoader, AtomicWrite

CONSTANT Compiler

ASSUME CompilerAssumption == Compiler \in Process

Loaded == outcome \notin {"loading", "sorting"}

Load == Next /\ UNCHANGED files

(* A package that is refused ends the command before write_atomic.          *)
Write(p) ==
  /\ Loaded
  /\ p = Compiler => outcome = "accepted"
  /\ WriteStep(p)
  /\ UNCHANGED vars

CommandInit == Init /\ WriteInit

CommandNext == Load \/ \E p \in Process : Write(p)

(* A process runs until it is done; nothing else is fair.                   *)
CommandSpec ==
  CommandInit /\ [][CommandNext]_<<vars, files>> /\ WF_<<vars, files>>(Step /\ UNCHANGED files)
============================================================================
