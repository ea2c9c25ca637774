--------------------------- MODULE HarnessInvariant ---------------------------
(***************************************************************************)
(* The inductive invariant behind the safety theorems of the harness.      *)
(***************************************************************************)
EXTENDS HarnessProperties

(* TypeOK but for the Booleans, which another prover takes care of.        *)
ValuesTypeOK ==
  GitTypeOK /\ FileTypeOK /\ EvalTypeOK /\ RunTypeOK /\ BookTypeOK /\ PoolTypeOK

(* Every commit of staging that names f was made by this invocation.       *)
Fresh(f) ==
  \A i \in DOMAIN staging : NamesFinding(staging[i], f) => staging[i].c.n = invocation

(* c was made by this invocation, for a finding no earlier one has landed. *)
Own(c) == c.n = invocation /\ (c.tagged => Fresh(c.f))

OnStaging(c) == \E i \in DOMAIN staging : staging[i].c = c

(* Where a thread is, its locals have values.                              *)
HasLocals(w) ==
  /\ stage[w] # "idle" => task[w] \in Finding
  /\ stage[w] = "landing" => outcome[w] \in Outcome
  /\ stage[w] \in {"merging", "recording", "conflicted"} => pending[w] \in Commit
  /\ stage[w] # "syncing" => orphans[w] = {}

(* A thread past the resume checks works on a finding no earlier invocation*)
(* landed, and every commit it can bring to staging is this invocation's.  *)
CommitsOwn(w) ==
  /\ stage[w] \in {"cleared", "syncing", "fixing", "landing"} => Fresh(task[w])
  /\ \A c \in branch[w] \cup orphans[w] : Own(c)
  /\ stage[w] \in {"merging", "recording", "conflicted"} => Own(pending[w])

(* What is about to be recorded is on staging.                             *)
MergedFirst(w) == stage[w] = "recording" => OnStaging(pending[w])

(* During the rescue, a fix commit of the branch is still to be picked, or *)
(* has reached staging, or has a conflict file.                            *)
RescueComplete(w) ==
  stage[w] = "syncing" =>
    \A c \in branch[w] : c.tagged => c \in orphans[w] \/ Reached(c) \/ Filed(c)

WorkerOK(w) == HasLocals(w) /\ CommitsOwn(w) /\ MergedFirst(w) /\ RescueComplete(w)

(* Threads run in the fix phase only, evaluators in a cycle that started.  *)
PhaseOK ==
  /\ phase # "fix" => \A w \in Worker : stage[w] = "idle"
  /\ phase = "evaluate" => cycle # 0

(* What is recorded is on staging.                                         *)
RecordsOnStaging == \A r \in commits \cup to_revert : OnStaging(r.c)

(* What all executions of the harness share: the strengthening of TypeOK   *)
(* and OneAttemptPerFinding that every step keeps.                         *)
IInv ==
  /\ TypeOK /\ PhaseOK /\ RecordsOnStaging
  /\ \A w \in Worker : WorkerOK(w)
  /\ OneAttemptPerFinding
=============================================================================
