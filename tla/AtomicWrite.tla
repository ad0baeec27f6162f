---------------------------- MODULE AtomicWrite ----------------------------
(***************************************************************************)
(* write_atomic of the command-line tool, run by several processes on one  *)
(* output path: a temporary file next to it, named after the process, is   *)
(* written piece by piece and renamed over it.  Processes are killed       *)
(* anywhere, disks fill up, and the system gives the number of a dead      *)
(* process to a new one.  A piece stands for the process it comes from.    *)
(***************************************************************************)
EXTENDS Naturals, Sequences, FiniteSets

CONSTANTS Process, Pid,
          Pieces         (* pieces in which fs::write writes an artifact    *)

None == 0

ASSUME PiecesAssumption  == Pieces \in Nat
ASSUME NumbersAssumption == None \notin Process \cup Pid

VARIABLES
  pid,           (* process number; None before the start                  *)
  pc,            (* "idle", "opening", "writing", then how it ended        *)
  target,        (* pieces in the output file                              *)
  temporary      (* pieces in each temporary file, or Absent               *)

files == <<pid, pc, target, temporary>>

Absent == <<None>>
Whole(p) == [i \in 1 .. Pieces |-> p]
Live(p) == pc[p] \in {"opening", "writing"}
End(p, how) == pc' = [pc EXCEPT ![p] = how]

(* Mutation: the temporary file is not named after the process. *)
NameShared(p) == CHOOSE n \in Pid : TRUE

Name(p) == pid[p]

WriteInit ==
  /\ pid = [p \in Process |-> None] /\ pc = [p \in Process |-> "idle"]
  /\ target = <<>> /\ temporary = [n \in Pid |-> Absent]

(* External: the operating system numbers live processes apart.            *)
Start(p, number) ==
  /\ pc[p] = "idle" /\ \A q \in Process : Live(q) => pid[q] # number
  /\ pid' = [pid EXCEPT ![p] = number]
  /\ End(p, "opening")
  /\ UNCHANGED <<target, temporary>>

(* External: a process is killed; its temporary file stays.                *)
Kill(p) == Live(p) /\ End(p, "killed") /\ UNCHANGED <<pid, target, temporary>>

Open(p) ==
  /\ pc[p] = "opening"
  /\ temporary' = [temporary EXCEPT ![Name(p)] = <<>>]
  /\ End(p, "writing")
  /\ UNCHANGED <<pid, target>>

(* fs::write goes on until its own pieces are written, whoever else writes. *)
WrittenBy(p) == {i \in DOMAIN temporary[Name(p)] : temporary[Name(p)][i] = p}
Pending(p) == pc[p] = "writing" /\ Cardinality(WrittenBy(p)) < Pieces

WritePiece(p) ==
  /\ Pending(p) /\ temporary[Name(p)] # Absent
  /\ temporary' = [temporary EXCEPT ![Name(p)] = Append(@, p)]
  /\ UNCHANGED <<pid, pc, target>>

(* fs::write reports an error and nothing cleans up.                       *)
WriteFails(p) ==
  /\ pc[p] = "opening" \/ Pending(p)
  /\ End(p, "failed")
  /\ UNCHANGED <<pid, target, temporary>>

Rename(p) ==
  /\ pc[p] = "writing" /\ ~Pending(p)
  /\ target' = temporary[Name(p)]
  /\ temporary' = [temporary EXCEPT ![Name(p)] = Absent]
  /\ End(p, "done")
  /\ UNCHANGED pid

(* The rename fails; removing the temporary file may fail too, unnoticed.   *)
RenameFails(p) ==
  /\ pc[p] = "writing" /\ ~Pending(p)
  /\ \/ temporary' = [temporary EXCEPT ![Name(p)] = Absent]
     \/ UNCHANGED temporary
  /\ End(p, "failed")
  /\ UNCHANGED <<pid, target>>

WriteStep(p) ==
  \/ \E number \in Pid : Start(p, number)
  \/ Kill(p) \/ Open(p) \/ WritePiece(p) \/ WriteFails(p) \/ Rename(p) \/ RenameFails(p)

---------------------------------------------------------------------------
(* Whoever reads the output finds what was there at first or the whole
   artifact of one process that reports success: never a prefix, a mixture or
   the remains of a killed process whose number was given away again.       *)
TargetIsWhole ==
  \/ target = <<>>
  \/ \E p \in Process : pc[p] = "done" /\ target = Whole(p)
============================================================================
