-------------------------- MODULE HarnessProperties --------------------------
(***************************************************************************)
(* What a run of the harness should guarantee about the fixes it handles.  *)
(***************************************************************************)
EXTENDS HarnessRun

(* Every variable of the run stays in its range. *)
GitTypeOK ==
  /\ staging \in Seq(Entry) /\ tree \in SUBSET Commit
  /\ branch \in [Worker -> SUBSET Commit]
FileTypeOK ==
  /\ verdicts \in [Id -> Verdict] /\ conflict_files \in SUBSET ConflictFile
EvalTypeOK ==
  /\ found \in SUBSET Finding /\ sentinels \in SUBSET (Cycle \X Track)
  /\ last_cycle \in 0..MaxCycle
  /\ waiting \in SUBSET Track /\ results \in SUBSET Finding
RunTypeOK ==
  /\ worktrees \in SUBSET Worker /\ pr \in SUBSET Record
  /\ invocation \in Invocation /\ start_at \in Nat
  /\ phase \in Phase /\ exit_reason \in ExitReason
  /\ cycle \in 0..MaxCycle /\ consecutive_empty_cycles \in Nat
  /\ queue \in SUBSET Finding
FlagTypeOK ==
  fixers_only \in BOOLEAN /\ late \in BOOLEAN /\ graceful_stop_requested \in BOOLEAN
BookTypeOK ==
  /\ commits \in SUBSET Record /\ to_revert \in SUBSET Record
  /\ no_op_fixers \in SUBSET Finding /\ recovered_commits \in SUBSET Commit
  /\ reverted_commits \in SUBSET [f : Finding, c : Commit]
  /\ revert_conflicts \in SUBSET [f : Finding, c : Commit]
PoolTypeOK ==
  /\ staging_lock \in Worker \cup {None}
  /\ stage \in [Worker -> Stage]
  /\ task \in [Worker -> Finding \cup {None}]
  /\ outcome \in [Worker -> Outcome \cup {None}]
  /\ pending \in [Worker -> Commit \cup {None}]
  /\ orphans \in [Worker -> SUBSET Commit]
TypeOK ==
  GitTypeOK /\ FileTypeOK /\ EvalTypeOK /\ RunTypeOK /\ FlagTypeOK /\ BookTypeOK
  /\ PoolTypeOK

-----------------------------------------------------------------------------
(* A finding is fixed by one attempt: whatever is crashed, resumed or      *)
(* rescued, the commits of staging that name a finding come from the same  *)
(* invocation.  This is what the resume skip by commit subject is for.     *)
OneAttemptPerFinding ==
  \A i, j \in DOMAIN staging :
    /\ staging[i].c.tagged /\ staging[j].c.tagged
    /\ staging[i].c.f = staging[j].c.f
    => staging[i].c.n = staging[j].c.n

(* The evaluators write the ids, and the greps compare them as text.  What *)
(* follows is said of a finding whose id is not, does not begin and is not *)
(* begun by the id of another one, whatever the ids of the others do.      *)
Apart ==
  {f \in Finding : \A g \in Finding :
     <<IdOf[f], IdOf[g]>> \in IdPrefix \/ <<IdOf[g], IdOf[f]>> \in IdPrefix => g = f}

(* When an invocation that was not stopped early publishes, every fix it   *)
(* lists was verified by the very attempt that made it, not by the verdict *)
(* an earlier, crashed attempt left behind.                                *)
PublishedFixesVerified ==
  phase = "publish" /\ ~graceful_stop_requested =>
    \A r \in commits : r.f \in Apart => r.c.good

(* When an invocation publishes, every change it put in force is known to  *)
(* it: listed as a fix, as recovered, or as a revert that was refused.     *)
ChangesAccounted ==
  phase = "publish" =>
    \A i \in (start_at + 1)..Len(staging) :
      staging[i].op = "pick" /\ staging[i].c \in tree /\ staging[i].c.f \in Apart =>
        \/ \E r \in commits : r.c = staging[i].c
        \/ staging[i].c \in recovered_commits
        \/ \E x \in revert_conflicts : x.c = staging[i].c

(* c is the only fix commit of its finding on staging.                     *)
Sole(c) == \A i \in DOMAIN staging : NamesFinding(staging[i], c.f) => staging[i].c = c

(* At the end of a cycle in which every finding was looked at, a failed    *)
(* fix of one of them is out of the tree or reported, also when it was     *)
(* merged by an invocation that crashed before its revert phase.  A        *)
(* finding with several fix commits has a record of the newest only, so    *)
(* nothing is said of the others.                                          *)
FailedFix(c) == c.tagged /\ ~c.good /\ c.f \in Actionable(results) /\ Sole(c)
FailedFixesRolledBack ==
  phase = "settle" /\ ~fixers_only /\ ~graceful_stop_requested /\ ~late =>
    \A c \in tree : FailedFix(c) /\ c.f \in Apart =>
      c \in recovered_commits \/ \E x \in revert_conflicts : x.c = c

(* A revert is reported as refused only while the change it should remove  *)
(* is in force: resuming over a revert that landed raises no alarm.  A     *)
(* NO-OP commit has no change, and git refuses to revert it.               *)
RevertConflictsInForce ==
  \A x \in revert_conflicts : x.f \in Apart => x.c \in tree \/ x.c.kind = "marker"

(* Before a worker is reset for its next finding, each commit with a fix   *)
(* subject on its branch has reached staging or has a conflict file.       *)
Reached(c) == \E i \in DOMAIN staging : staging[i].op = "pick" /\ staging[i].c = c
Filed(c) == \E x \in conflict_files : x.id = IdOf[c.f]
NoFixDiscarded ==
  [][\A w \in Worker : stage[w] = "syncing" =>
       \A c \in branch[w] \ branch'[w] : c.tagged => Reached(c) \/ Filed(c)]_vars

(* An invocation that is running comes to its end, or dies: no thread      *)
(* keeps a worker, a finding or the lock for ever.                         *)
Terminates == phase \notin {"done", "crashed"} ~> phase \in {"done", "crashed"}
=============================================================================
