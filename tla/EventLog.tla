------------------------------- MODULE EventLog -------------------------------
(* The events log of autoresearch/events.py: processes that append lines to  *)
(* one path with log_event, and the rotation of the file behind that path.    *)
(* A file is an inode: it keeps its lines whatever names it has, and a        *)
(* process that has it open goes on writing to it.                           *)
EXTENDS Integers, Sequences, SequencesExt

CONSTANTS
  Writer,      \* the processes that write to this log
  Threshold    \* ROTATION_THRESHOLD_BYTES, in lines

ASSUME LogAssumption == Threshold \in Nat \ {0}

VARIABLES
  file,        \* the lines of every file there was, in order of creation
  current,     \* the file the path names, 0 when there is none
  segments,    \* the rotated files that have a name, oldest first
  sameSecond,  \* the last rotation was in the second that is now
  op           \* where each process is in log_event

logVars == <<file, current, segments, sameSecond, op>>

Idle == [at |-> "idle", to |-> 0, event |-> <<>>]
Steps == {"idle", "failed", "rename", "open", "append"}
Free(p) == op[p].at \in {"idle", "failed"}

(* The lines behind the path now.                                           *)
CurrentLines == IF current = 0 THEN <<>> ELSE file[current]

LogInit ==
  /\ file = <<>> /\ current = 0 /\ segments = <<>> /\ sameSecond = FALSE
  /\ op = [p \in Writer |-> Idle]

(* log_event is called; _maybe_rotate looks at the size.                     *)
Begin(p, e) ==
  /\ Free(p)
  /\ op' = [op EXCEPT ![p] =
       [at |-> IF Len(CurrentLines) >= Threshold THEN "rename" ELSE "open",
        to |-> 0, event |-> e]]
  /\ UNCHANGED <<file, current, segments, sameSecond>>

(* Mutant: one name for the rotated file, as in events.jsonl.1.               *)
RenameToOne(p) ==
  /\ op[p].at = "rename" /\ current # 0
  /\ segments' = <<current>>
  /\ current' = 0 /\ sameSecond' = TRUE
  /\ op' = [op EXCEPT ![p].at = "open"]
  /\ UNCHANGED file

(* The name of a segment is the second of its rename: a second rename in the *)
(* same second takes the place of the first.                                *)
Rename(p) ==
  /\ op[p].at = "rename" /\ current # 0
  /\ segments' = Append(IF sameSecond THEN Front(segments) ELSE segments, current)
  /\ current' = 0 /\ sameSecond' = TRUE
  /\ op' = [op EXCEPT ![p].at = "open"]
  /\ UNCHANGED file

(* path.open("a") creates the file when the path names none.                 *)
Open(p) ==
  /\ op[p].at = "open"
  /\ IF current = 0
       THEN file' = Append(file, <<>>) /\ current' = Len(file) + 1
       ELSE UNCHANGED <<file, current>>
  /\ op' = [op EXCEPT ![p] = [@ EXCEPT !.at = "append", !.to = current']]
  /\ UNCHANGED <<segments, sameSecond>>

(* The line is written under the lock.  No file reaches the threshold within *)
(* a second of the last rotation: that is 100 MB, each line synced.          *)
WriteLine(p) ==
  /\ op[p].at = "append"
  /\ Len(file[op[p].to]) + 1 = Threshold => ~sameSecond
  /\ file' = [file EXCEPT ![op[p].to] = Append(@, op[p].event)]
  /\ op' = [op EXCEPT ![p] = Idle]
  /\ UNCHANGED <<current, segments, sameSecond>>

(* A call of the operating system fails; a rename always does when another   *)
(* process has just renamed the file.                                       *)
Raise(p) ==
  /\ ~Free(p)
  /\ op' = [op EXCEPT ![p] = [Idle EXCEPT !.at = "failed"]]
  /\ UNCHANGED <<file, current, segments, sameSecond>>

(* The caller goes on after a call that returned or raised.                  *)
Settle(p) ==
  /\ op' = [op EXCEPT ![p] = Idle]
  /\ UNCHANGED <<file, current, segments, sameSecond>>

SecondPasses ==
  /\ sameSecond /\ sameSecond' = FALSE
  /\ UNCHANGED <<file, current, segments, op>>

LogStep(p) == Rename(p) \/ Open(p) \/ WriteLine(p) \/ Raise(p)
=============================================================================
