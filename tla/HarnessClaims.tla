---------------------------- MODULE HarnessClaims ----------------------------
(***************************************************************************)
(* What comments and docstrings of the harness say of a run and what the   *)
(* code does not keep.  Each is the property of a run TLC finds violated.  *)
(***************************************************************************)
EXTENDS HarnessProperties

(* "so cycle N+1's evaluators only see verified state" (run.py, _cycle_    *)
(* loop): while evaluators run, every change in the tree was verified by   *)
(* its attempt or is a reported revert conflict.                           *)
EvaluatorsSeeVerifiedState ==
  phase = "evaluate" =>
    \A c \in tree : c.good \/ \E x \in revert_conflicts : x.c = c

(* A worker commit that is scanned again "is already on staging" and its   *)
(* second cherry-pick is "a no-op empty commit" (_recover_orphan_worker_   *)
(* commits).                                                               *)
SecondPickIsEmpty ==
  \A i, j \in DOMAIN staging :
    i < j /\ staging[i].op = "pick" /\ staging[j].op = "pick" /\ staging[i].c = staging[j].c
    => ~staging[j].eff

(* A fix committed on a worker when the process died is not destroyed by   *)
(* the next one before it reached staging (_recover_orphan_worker_commits: *)
(* "the fix was verified and would be lost").                              *)
OrphansSurviveRestart ==
  [][phase = "crashed" =>
       \A w \in Worker : \A c \in branch[w] \ branch'[w] :
         c.tagged /\ c.good => Reached(c) \/ Filed(c)]_vars

(* "state.commits -- the AUTHORITATIVE list of verified fixes", which the  *)
(* pull request counts as such (RunState, review.pr_body).                 *)
PullRequestListsVerifiedFixes == \A r \in pr : r.c.good

(* "Revert any committed fix whose verdict was failed" (_revert_phase),    *)
(* whatever its id: FailedFixesRolledBack of every finding.                *)
EveryFailedFixRolledBack ==
  phase = "settle" /\ ~fixers_only /\ ~graceful_stop_requested /\ ~late =>
    \A c \in tree : FailedFix(c) =>
      c \in recovered_commits \/ \E x \in revert_conflicts : x.c = c
=============================================================================
