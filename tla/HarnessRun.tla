------------------------------ MODULE HarnessRun ------------------------------
(***************************************************************************)
(* One run of the QA fix harness with a pool of worker worktrees: the      *)
(* evaluate / fix / merge / revert loop of harness/run.py, the threads     *)
(* that drain the findings queue, the graceful stop, crashes, and the      *)
(* resumption of the run from its branch and its run directory.            *)
(*                                                                         *)
(* Every block the code runs under `staging_lock` is one action that needs *)
(* the lock free, except the rescue-then-reset block of _process_finding,  *)
(* which holds it over several cherry-picks.                               *)
(***************************************************************************)
EXTENDS HarnessBranch, FiniteSets

CONSTANTS
  Worker,         \* worker worktrees, config.max_workers > 1 of them
  Outcome,        \* what one fixer session may leave behind
  None            \* no finding, no commit, no worker, no outcome

Verdict == {"passed", "failed", "none"}

(* own: the commit the agent made itself; dirty: uncommitted edits left;   *)
(* note: harness/blocked-<id>.md left; leak: wrote into the main repo;     *)
(* clean: surface_check finds nothing removed; end: how engine.fix ended.  *)
OutcomeType ==
  [own : {"none", "tagged", "plain"}, dirty : BOOLEAN, note : BOOLEAN,
   leak : BOOLEAN, clean : BOOLEAN, verdict : Verdict,
   end : {"ok", "rate_limit", "exhausted"}]

ASSUME RunAssumption ==
  /\ Outcome \subseteq OutcomeType
  /\ None \notin Finding /\ None \notin Commit /\ None \notin Worker
  /\ None \notin OutcomeType

VARIABLES
  (* In git and in the run directory: what a crash leaves. *)
  staging,          \* commits of the staging branch since main
  tree,             \* changes in force at the tip of staging
  branch,           \* per worker: commits on its branch that it was not cut from
  verdicts,         \* verdicts/<track>/<id>.yaml
  conflict_files,   \* conflicts/<track or unknown>/<id>.yaml
  found,            \* findings in the findings.md files
  sentinels,        \* <<cycle, track>> with a sentinel.txt beside findings.md
  last_cycle,       \* highest track-*/cycle-N directory
  worktrees,        \* worker worktree directories on disk
  pr,               \* records listed in the pull request's body
  invocation,       \* invocations so far
  start_at,         \* length of staging when this invocation began
  (* RunState and the locals of the loop: what a crash loses. *)
  phase, exit_reason, fixers_only,
  cycle, consecutive_empty_cycles,
  waiting,          \* tracks whose evaluator is out
  results,          \* findings returned this cycle
  queue,            \* findings submitted and not yet taken by a worker
  late,             \* the walltime was found exceeded
  graceful_stop_requested,
  commits,          \* state.commits, what the PR body lists
  no_op_fixers, recovered_commits, reverted_commits, revert_conflicts,
  to_revert,        \* records the revert phase has still to revert
  (* The pool. *)
  staging_lock,     \* worker whose thread holds the lock, or None
  stage,            \* per worker: where _process_finding is
  task,             \* per worker: its finding
  outcome,          \* per worker: what its fixer session left
  pending,          \* per worker: the commit being merged
  orphans           \* per worker: commits the orphan scan has still to pick

gitVars  == <<staging, tree, branch>>
fileVars == <<verdicts, conflict_files>>
evalVars == <<found, sentinels, last_cycle, waiting, results>>
metaVars == <<worktrees, pr, invocation, start_at, fixers_only>>
loopVars == <<phase, exit_reason, cycle, consecutive_empty_cycles>>
stopVars == <<queue, late, graceful_stop_requested>>
bookVars == <<commits, no_op_fixers, recovered_commits, reverted_commits,
              revert_conflicts, to_revert>>
poolVars == <<staging_lock, stage, task, outcome, pending, orphans>>
vars == <<gitVars, fileVars, evalVars, metaVars, loopVars, stopVars, bookVars, poolVars>>

Phase == {"cycle", "evaluate", "fix", "revert", "reverting", "settle",
          "publish", "done", "crashed"}
Stage == {"idle", "assigned", "cleared", "syncing", "fixing", "landing", "merging",
          "recording", "conflicted"}
ExitReason == {"none", "walltime", "graceful-stop", "two-empty-cycles",
               "zero-first-cycle", "fixers-only-empty", "fixers-only-done"}

Actionable(S) == S \ Advisory

-----------------------------------------------------------------------------
(***************************************************************************)
(* Initial state: a fresh run, workers cut from the staging tip.           *)
(***************************************************************************)
Every(x) == [w \in Worker |-> x]

Init ==
  /\ staging = <<>> /\ tree = {} /\ branch = [w \in Worker |-> {}]
  /\ verdicts = [i \in Id |-> "none"] /\ conflict_files = {}
  /\ found = {} /\ sentinels = {} /\ last_cycle = 0
  /\ worktrees = Worker /\ pr = {} /\ invocation = 1 /\ start_at = 0
  /\ fixers_only = FALSE /\ phase = "cycle" /\ cycle = 0
  /\ exit_reason = "none" /\ consecutive_empty_cycles = 0
  /\ waiting = {} /\ results = {}
  /\ queue = {} /\ late = FALSE /\ graceful_stop_requested = FALSE
  /\ commits = {} /\ no_op_fixers = {} /\ recovered_commits = {}
  /\ reverted_commits = {} /\ revert_conflicts = {} /\ to_revert = {}
  /\ staging_lock = None /\ stage = Every("idle") /\ task = Every(None)
  /\ outcome = Every(None) /\ pending = Every(None) /\ orphans = Every({})

-----------------------------------------------------------------------------
(***************************************************************************)
(* The cycle loop.                                                         *)
(***************************************************************************)
Exit(reason) == phase' = "publish" /\ exit_reason' = reason
Goto(p) == phase' = p /\ UNCHANGED exit_reason

(* Walltime is sampled: at any head of the loop it may be over, or too     *)
(* short for another cycle.                                                *)
WalltimeExit ==
  /\ phase = "cycle"
  /\ Exit("walltime")
  /\ UNCHANGED <<gitVars, fileVars, evalVars, metaVars, cycle,
                 consecutive_empty_cycles, stopVars, bookVars, poolVars>>

StartCycle ==
  /\ phase = "cycle" /\ ~late /\ cycle < MaxCycle
  /\ Goto("evaluate")
  /\ cycle' = cycle + 1
  /\ waiting' = Track /\ results' = {}
  /\ last_cycle' = IF last_cycle <= cycle THEN cycle + 1 ELSE last_cycle
  /\ UNCHANGED <<gitVars, fileVars, found, sentinels, metaVars, consecutive_empty_cycles,
                 stopVars, bookVars, poolVars>>

OfTrack(S, t) == {f \in S : CycleOf[f] = cycle /\ TrackOf[f] = t}

(* A track whose sentinel and findings are on disk is not evaluated again. *)
ReuseFindings(t) ==
  /\ phase = "evaluate" /\ t \in waiting /\ <<cycle, t>> \in sentinels
  /\ waiting' = waiting \ {t}
  /\ results' = results \cup OfTrack(found, t)
  /\ UNCHANGED <<gitVars, fileVars, found, sentinels, last_cycle, metaVars,
                 loopVars, stopVars, bookVars, poolVars>>

(* The evaluator session ends.  It leaves findings, and its sentinel or     *)
(* not; when it fails the track reports nothing, and a rate limit requests  *)
(* a graceful stop.                                                         *)
EvaluateTrack(t) ==
  /\ phase = "evaluate" /\ t \in waiting /\ <<cycle, t>> \notin sentinels
  /\ waiting' = waiting \ {t}
  /\ \E fs \in SUBSET OfTrack(Finding, t), signed \in BOOLEAN, returned \in BOOLEAN :
       /\ found' = (found \ OfTrack(Finding, t)) \cup fs
       /\ sentinels' = IF signed THEN sentinels \cup {<<cycle, t>>} ELSE sentinels
       /\ results' = IF returned THEN results \cup fs ELSE results
       /\ graceful_stop_requested' \in
            IF returned THEN {graceful_stop_requested} ELSE {graceful_stop_requested, TRUE}
  /\ UNCHANGED <<gitVars, fileVars, last_cycle, metaVars, loopVars, queue, late, bookVars,
                 poolVars>>

(* All tracks are in: stop, or queue the actionable findings, or count an  *)
(* empty cycle.                                                            *)
JoinEvaluation ==
  /\ phase = "evaluate" /\ waiting = {}
  /\ IF graceful_stop_requested
     THEN Exit("graceful-stop") /\ UNCHANGED <<queue, consecutive_empty_cycles>>
     ELSE /\ queue' = Actionable(results)
          /\ Goto(IF queue' = {} THEN "settle" ELSE "fix")
          /\ consecutive_empty_cycles' =
               IF queue' = {} THEN consecutive_empty_cycles + 1 ELSE 0
  /\ UNCHANGED <<gitVars, fileVars, evalVars, metaVars, cycle, late,
                 graceful_stop_requested, bookVars, poolVars>>

(* Every submission has returned; a graceful stop skips the revert phase.  *)
JoinFixers ==
  /\ phase = "fix" /\ queue = {} /\ \A w \in Worker : stage[w] = "idle"
  /\ Goto(IF graceful_stop_requested THEN "settle" ELSE "revert")
  /\ UNCHANGED <<gitVars, fileVars, evalVars, metaVars, cycle,
                 consecutive_empty_cycles, stopVars, bookVars, poolVars>>

(* End of a cycle, or of the fixers-only pass. *)
Settle ==
  /\ phase = "settle"
  /\ \/ fixers_only /\ Exit("fixers-only-done")
     \/ ~fixers_only /\ graceful_stop_requested /\ Exit("graceful-stop")
     \/ /\ ~fixers_only /\ ~graceful_stop_requested
        /\ \/ consecutive_empty_cycles >= 2 /\ Exit("two-empty-cycles")
           \/ consecutive_empty_cycles < 2
              /\ \/ cycle = 1 /\ results = {} /\ Exit("zero-first-cycle")
                 \/ (cycle # 1 \/ results # {}) /\ Goto("cycle")
  /\ UNCHANGED <<gitVars, fileVars, evalVars, metaVars, cycle,
                 consecutive_empty_cycles, stopVars, bookVars, poolVars>>

-----------------------------------------------------------------------------
(***************************************************************************)
(* The pool: _submit, _run_one_finding and _process_finding of one thread. *)
(***************************************************************************)
(* The thread ends and its worker goes back to the pool. *)
Release(w) ==
  /\ stage' = [stage EXCEPT ![w] = "idle"]
  /\ task' = [task EXCEPT ![w] = None]
  /\ outcome' = [outcome EXCEPT ![w] = None]
  /\ pending' = [pending EXCEPT ![w] = None]
  /\ UNCHANGED <<staging_lock, orphans>>

Move(w, s) == stage' = [stage EXCEPT ![w] = s]

(* A submission acquires a worker and passes the stop and walltime checks. *)
TakeFinding(w, f) ==
  /\ phase = "fix" /\ stage[w] = "idle" /\ f \in queue
  /\ ~graceful_stop_requested /\ ~late
  /\ queue' = queue \ {f}
  /\ task' = [task EXCEPT ![w] = f]
  /\ Move(w, "assigned")
  /\ UNCHANGED <<gitVars, fileVars, evalVars, metaVars, loopVars, late,
                 graceful_stop_requested, bookVars, staging_lock, outcome, pending, orphans>>

(* MUTANT: a thread that may not start puts the finding back. *)
RequeueFinding(f) ==
  /\ phase = "fix" /\ f \in queue
  /\ \E w \in Worker : stage[w] = "idle"
  /\ IF graceful_stop_requested THEN UNCHANGED late ELSE late' = TRUE
  /\ UNCHANGED <<gitVars, fileVars, evalVars, metaVars, loopVars, queue,
                 graceful_stop_requested, bookVars, poolVars>>

(* ... or fails one of them and returns without touching the finding.      *)
DropFinding(f) ==
  /\ phase = "fix" /\ f \in queue
  /\ \E w \in Worker : stage[w] = "idle"
  /\ queue' = queue \ {f}
  /\ IF graceful_stop_requested THEN UNCHANGED late ELSE late' = TRUE
  /\ UNCHANGED <<gitVars, fileVars, evalVars, metaVars, loopVars,
                 graceful_stop_requested, bookVars, poolVars>>

(* MUTANT: the skipped finding is not recorded. *)
SkipUnrecorded(w) ==
  /\ stage[w] = "assigned" /\ CommitExists(staging, task[w])
  /\ Release(w)
  /\ UNCHANGED <<gitVars, fileVars, evalVars, metaVars, loopVars, stopVars, bookVars>>

(* Resume: the fix is on staging already; its record is rebuilt from the   *)
(* newest commit whose subject names the id.                               *)
SkipLanded(w) ==
  LET f == task[w] IN
  /\ stage[w] = "assigned" /\ CommitExists(staging, f)
  /\ \E i \in DOMAIN staging :
       /\ NewestNaming(staging, f, i)
       /\ commits' = commits \cup {[f |-> f, c |-> staging[i].c, at |-> i]}
  /\ Release(w)
  /\ UNCHANGED <<gitVars, fileVars, evalVars, metaVars, loopVars, stopVars, no_op_fixers,
                 recovered_commits, reverted_commits, revert_conflicts, to_revert>>

HasConflict(f) == \E x \in conflict_files : x.id = IdOf[f] /\ x.dir = "track"

SkipConflicted(w) ==
  /\ stage[w] = "assigned" /\ ~CommitExists(staging, task[w]) /\ HasConflict(task[w])
  /\ Release(w)
  /\ UNCHANGED <<gitVars, fileVars, evalVars, metaVars, loopVars, stopVars, bookVars>>

(* Neither skip applies: the finding will be fixed afresh, as soon as the   *)
(* thread gets the lock.                                                    *)
PassResumeChecks(w) ==
  /\ stage[w] = "assigned" /\ ~CommitExists(staging, task[w]) /\ ~HasConflict(task[w])
  /\ Move(w, "cleared")
  /\ UNCHANGED <<gitVars, fileVars, evalVars, metaVars, loopVars, stopVars, bookVars,
                 staging_lock, task, outcome, pending, orphans>>

(* MUTANT: the rescue before the reset is skipped. *)
NothingUnmerged(w) == {}

(* Take the lock and scan `staging..HEAD` of the worker for fix commits.   *)
Unmerged(w) == {c \in branch[w] : c.tagged}

ScanOrphans(w) ==
  /\ stage[w] = "cleared" /\ staging_lock = None
  /\ staging_lock' = w
  /\ orphans' = [orphans EXCEPT ![w] = Unmerged(w)]
  /\ Move(w, "syncing")
  /\ UNCHANGED <<gitVars, fileVars, evalVars, metaVars, loopVars, stopVars, bookVars,
                 task, outcome, pending>>

(* MUTANT: a rescued commit is not reported. *)
RescuedUnreported(c) == recovered_commits

Rescued(c) == recovered_commits \cup {c}

(* Cherry-pick one of them, oldest first: an agent's own commit precedes   *)
(* the orchestrator's.  A conflict is filed under "unknown".               *)
RecoverOrphan(w, c) ==
  /\ stage[w] = "syncing" /\ c \in orphans[w]
  /\ c.kind = "bypass" \/ \A d \in orphans[w] : d.kind # "bypass"
  /\ orphans' = [orphans EXCEPT ![w] = @ \ {c}]
  /\ \/ /\ staging' = Append(staging, Pick(c, tree))
        /\ tree' = PickedTree(c, tree)
        /\ recovered_commits' = Rescued(c)
        /\ UNCHANGED conflict_files
     \/ /\ c.kind # "marker"
        /\ conflict_files' =
             WithConflict(conflict_files, [id |-> IdOf[c.f], dir |-> "unknown", c |-> c])
        /\ UNCHANGED <<staging, tree, recovered_commits>>
  /\ UNCHANGED <<branch, verdicts, evalVars, metaVars, loopVars, stopVars, commits,
                 no_op_fixers, reverted_commits, revert_conflicts, to_revert,
                 staging_lock, stage, task, outcome, pending>>

(* MUTANT: the stale verdict stays. *)
VerdictsKept(f) == verdicts

VerdictsPurged(f) == [verdicts EXCEPT ![IdOf[f]] = "none"]

(* reset_worker_to_staging, then the lock is released and the stale        *)
(* verdict unlinked.                                                       *)
ResetWorker(w) ==
  /\ stage[w] = "syncing" /\ orphans[w] = {}
  /\ branch' = [branch EXCEPT ![w] = {}]
  /\ staging_lock' = None
  /\ verdicts' = VerdictsPurged(task[w])
  /\ Move(w, "fixing")
  /\ UNCHANGED <<staging, tree, conflict_files, evalVars, metaVars, loopVars, stopVars,
                 bookVars, task, outcome, pending, orphans>>

NewCommit(f, kind, tagged, good) ==
  [f |-> f, n |-> invocation, kind |-> kind, tagged |-> tagged, good |-> good]

OwnCommits(f, o) ==
  IF o.own = "none" THEN {}
  ELSE {NewCommit(f, "bypass", o.own = "tagged", o.verdict = "passed")}

(* engine.fix returns or raises.  An exception ends the finding; only what *)
(* the agent committed itself survives the worker's rollback to HEAD.      *)
RunFixer(w, o) ==
  LET f == task[w] IN
  /\ stage[w] = "fixing"
  /\ verdicts' = [verdicts EXCEPT ![IdOf[f]] = IF o.verdict = "none" THEN @ ELSE o.verdict]
  /\ branch' = [branch EXCEPT ![w] = @ \cup OwnCommits(f, o)]
  /\ IF o.end = "ok"
     THEN /\ outcome' = [outcome EXCEPT ![w] = o]
          /\ Move(w, "landing")
          /\ UNCHANGED <<staging_lock, task, pending, orphans>>
     ELSE Release(w)
  /\ graceful_stop_requested' = (graceful_stop_requested \/ o.end = "rate_limit")
  /\ UNCHANGED <<staging, tree, conflict_files, evalVars, metaVars, loopVars, queue, late,
                 bookVars>>

-----------------------------------------------------------------------------
(* A leak into the main repository: the agent's own commit is reset away   *)
(* and the worktree rolled back.                                           *)
RollBackLeak(w) ==
  /\ stage[w] = "landing" /\ outcome[w].leak
  /\ branch' = [branch EXCEPT ![w] = @ \ OwnCommits(task[w], outcome[w])]
  /\ Release(w)
  /\ UNCHANGED <<staging, tree, fileVars, evalVars, metaVars, loopVars, stopVars, bookVars>>

(* _commit_fix, then surface_check: a violation overwrites the verdict and *)
(* leaves the commit on the worker branch.                                 *)
CommitFix(w) ==
  LET f == task[w]
      o == outcome[w]
      c == NewCommit(f, "fix", TRUE, o.clean /\ o.verdict = "passed")
  IN
  /\ stage[w] = "landing" /\ ~o.leak /\ o.dirty
  /\ branch' = [branch EXCEPT ![w] = @ \cup {c}]
  /\ IF o.clean
     THEN /\ pending' = [pending EXCEPT ![w] = c]
          /\ Move(w, "merging")
          /\ UNCHANGED <<verdicts, staging_lock, task, outcome, orphans>>
     ELSE /\ verdicts' = [verdicts EXCEPT ![IdOf[f]] = "failed"]
          /\ Release(w)
  /\ UNCHANGED <<staging, tree, conflict_files, evalVars, metaVars, loopVars, stopVars,
                 bookVars>>

(* No edits left but the agent committed by itself: that commit is merged, *)
(* with no surface check.                                                  *)
AcceptBypass(w) ==
  LET o == outcome[w] IN
  /\ stage[w] = "landing" /\ ~o.leak /\ ~o.dirty /\ o.own # "none"
  /\ \E c \in OwnCommits(task[w], o) : pending' = [pending EXCEPT ![w] = c]
  /\ Move(w, "merging")
  /\ UNCHANGED <<gitVars, fileVars, evalVars, metaVars, loopVars, stopVars, bookVars,
                 staging_lock, task, outcome, orphans>>

(* Nothing changed: with a blocked note an empty marker is committed and   *)
(* merged; without one the finding is only counted as a no-op.             *)
CommitMarker(w) ==
  LET o == outcome[w]
      c == NewCommit(task[w], "marker", TRUE, o.verdict = "passed")
  IN
  /\ stage[w] = "landing" /\ ~o.leak /\ ~o.dirty /\ o.own = "none" /\ o.note
  /\ branch' = [branch EXCEPT ![w] = @ \cup {c}]
  /\ pending' = [pending EXCEPT ![w] = c]
  /\ Move(w, "merging")
  /\ UNCHANGED <<staging, tree, fileVars, evalVars, metaVars, loopVars, stopVars, bookVars,
                 staging_lock, task, outcome, orphans>>

NoChange(w) ==
  LET o == outcome[w] IN
  /\ stage[w] = "landing" /\ ~o.leak /\ ~o.dirty /\ o.own = "none" /\ ~o.note
  /\ no_op_fixers' = no_op_fixers \cup {task[w]}
  /\ Release(w)
  /\ UNCHANGED <<gitVars, fileVars, evalVars, metaVars, loopVars, stopVars, commits,
                 recovered_commits, reverted_commits, revert_conflicts, to_revert>>

(* _merge_to_staging: the cherry-pick lands, or conflicts and is aborted.  *)
(* The copy of a commit cut from the very tip, made within the second, is  *)
(* the same object: the branch then has nothing that staging has not.      *)
MergeToStaging(w) ==
  LET c == pending[w] IN
  /\ stage[w] = "merging" /\ staging_lock = None
  /\ \/ /\ staging' = Append(staging, Pick(c, tree))
        /\ tree' = PickedTree(c, tree)
        /\ \/ UNCHANGED branch
           \/ branch[w] = {c} /\ branch' = [branch EXCEPT ![w] = {}]
        /\ Move(w, "recording")
     \/ /\ c.kind # "marker"
        /\ Move(w, "conflicted")
        /\ UNCHANGED <<staging, tree, branch>>
  /\ UNCHANGED <<fileVars, evalVars, metaVars, loopVars, stopVars, bookVars,
                 staging_lock, task, outcome, pending, orphans>>

(* The merge is recorded under a second acquisition of the lock: a fix in  *)
(* state.commits, a marker only in no_op_fixers.                           *)
RecordCommit(w) ==
  LET c == pending[w] IN
  /\ stage[w] = "recording" /\ staging_lock = None
  /\ IF c.kind = "marker"
     THEN /\ no_op_fixers' = no_op_fixers \cup {task[w]}
          /\ UNCHANGED commits
     ELSE /\ commits' = commits \cup {[f |-> task[w], c |-> c, at |-> 0]}
          /\ UNCHANGED no_op_fixers
  /\ Release(w)
  /\ UNCHANGED <<gitVars, fileVars, evalVars, metaVars, loopVars, stopVars,
                 recovered_commits, reverted_commits, revert_conflicts, to_revert>>

PersistConflict(w) ==
  /\ stage[w] = "conflicted"
  /\ conflict_files' =
       WithConflict(conflict_files, [id |-> IdOf[task[w]], dir |-> "track", c |-> pending[w]])
  /\ Release(w)
  /\ UNCHANGED <<gitVars, verdicts, evalVars, metaVars, loopVars, stopVars, bookVars>>

-----------------------------------------------------------------------------
(***************************************************************************)
(* The revert phase.  It partitions state.commits by the verdict files,    *)
(* leaves alone what the branch or state.reverted_commits says is reverted *)
(* already, and reverts the rest one by one.                               *)
(***************************************************************************)
(* MUTANT: a missing verdict file counts as success. *)
NotFailed(r) == verdicts[IdOf[r.f]] # "failed"

Verified(r) == verdicts[IdOf[r.f]] = "passed"

BeginRevert ==
  LET failed == {r \in commits : ~Verified(r)}
      on_branch == RevertedIds(staging)
      in_memory == {IdOf[x.f] : x \in reverted_commits}
  IN
  /\ phase = "revert"
  /\ commits' = commits \ failed
  /\ to_revert' = {r \in failed : IdOf[r.f] \notin on_branch \cup in_memory}
  /\ reverted_commits' = reverted_commits \cup
       {[f |-> r.f, c |-> r.c] : r \in {x \in failed : IdOf[x.f] \in on_branch \ in_memory}}
  /\ Goto("reverting")
  /\ UNCHANGED <<gitVars, fileVars, evalVars, metaVars, cycle, consecutive_empty_cycles,
                 stopVars, no_op_fixers, recovered_commits, revert_conflicts, poolVars>>

(* `git revert` under the lock: it lands, or it is refused and aborted.    *)
RevertCommit(r) ==
  /\ phase = "reverting" /\ r \in to_revert /\ staging_lock = None
  /\ to_revert' = to_revert \ {r}
  /\ \/ /\ Undoable(r, staging, tree)
        /\ staging' = Append(staging, Undo(r, staging))
        /\ tree' = Undone(r, staging, tree)
        /\ reverted_commits' = reverted_commits \cup {[f |-> r.f, c |-> r.c]}
        /\ UNCHANGED revert_conflicts
     \/ /\ revert_conflicts' = revert_conflicts \cup {[f |-> r.f, c |-> r.c]}
        /\ UNCHANGED <<staging, tree, reverted_commits>>
  /\ UNCHANGED <<branch, fileVars, evalVars, metaVars, loopVars, stopVars, commits,
                 no_op_fixers, recovered_commits, poolVars>>

EndRevert ==
  /\ phase = "reverting" /\ to_revert = {}
  /\ Goto("settle")
  /\ UNCHANGED <<gitVars, fileVars, evalVars, metaVars, cycle, consecutive_empty_cycles,
                 stopVars, bookVars, poolVars>>

-----------------------------------------------------------------------------
(***************************************************************************)
(* The end of an invocation, and the next one on the same branch.          *)
(***************************************************************************)
(* Outputs are written; with commits to show, the branch is pushed and the *)
(* PR created, or its body replaced when it exists.  Worker worktrees are  *)
(* removed, branches kept.                                                 *)
Publish ==
  /\ phase = "publish"
  /\ \/ commits # {} /\ pr' = commits
     \/ UNCHANGED pr
  /\ worktrees' = {}
  /\ Goto("done")
  /\ UNCHANGED <<gitVars, fileVars, evalVars, invocation, start_at, fixers_only, cycle,
                 consecutive_empty_cycles, stopVars, bookVars, poolVars>>

(* A process starts with an empty RunState. *)
ForgetRun ==
  /\ consecutive_empty_cycles' = 0
  /\ waiting' = {} /\ results' = {} /\ late' = FALSE /\ graceful_stop_requested' = FALSE
  /\ commits' = {} /\ no_op_fixers' = {} /\ recovered_commits' = {}
  /\ reverted_commits' = {} /\ revert_conflicts' = {} /\ to_revert' = {}

(* The process dies.  SIGTERM, SIGINT and an unhandled exception run the   *)
(* worktree cleanup; SIGKILL or a power loss does not.                     *)
Crash(cleans_up) ==
  /\ phase \notin {"done", "crashed"} /\ invocation < MaxInvocation
  /\ phase' = "crashed"
  /\ worktrees' = IF cleans_up THEN {} ELSE worktrees
  /\ cycle' = 0 /\ fixers_only' = FALSE /\ exit_reason' = "none" /\ queue' = {}
  /\ ForgetRun
  /\ staging_lock' = None /\ stage' = Every("idle") /\ task' = Every(None)
  /\ outcome' = Every(None) /\ pending' = Every(None) /\ orphans' = Every({})
  /\ UNCHANGED <<gitVars, fileVars, found, sentinels, last_cycle, pr, invocation, start_at>>

(* The operator removes worktree directories a dead process left behind.   *)
RemoveWorktrees ==
  /\ phase = "crashed" /\ worktrees # {}
  /\ worktrees' = {}
  /\ UNCHANGED <<gitVars, fileVars, evalVars, pr, invocation, start_at, fixers_only,
                 loopVars, stopVars, bookVars, poolVars>>

(* MUTANTS: worker branches are reattached as they are; the first cycle of *)
(* a run that never evaluated is not clamped.                              *)
WorkersAsTheyWere == branch
ResumeCycleUnclamped == last_cycle - 1

(* create_workers hard-resets an existing worker branch to staging.        *)
WorkersFromStaging == Every({})
(* _cycle_loop increments it before the first cycle. *)
ResumeCycle == IF last_cycle = 0 THEN 0 ELSE last_cycle - 1

(* `--resume-branch`: attach to staging, recreate the workers -- an        *)
(* existing worker directory makes `git worktree add` fail -- and start    *)
(* with a fresh RunState at the last cycle on disk, or on the findings on  *)
(* disk when --fixers-only is given.                                       *)
Resume(only_fixers) ==
  /\ phase \in {"done", "crashed"} /\ invocation < MaxInvocation
  /\ worktrees = {}
  /\ invocation' = invocation + 1
  /\ worktrees' = Worker
  /\ branch' = WorkersFromStaging
  /\ start_at' = Len(staging)
  /\ fixers_only' = only_fixers
  /\ ForgetRun
  /\ cycle' = IF only_fixers THEN 0 ELSE ResumeCycle
  /\ queue' = IF only_fixers THEN Actionable(found) ELSE {}
  /\ IF only_fixers
     THEN IF queue' = {}
          THEN Exit("fixers-only-empty")
          ELSE phase' = "fix" /\ exit_reason' = "none"
     ELSE phase' = "cycle" /\ exit_reason' = "none"
  /\ UNCHANGED <<staging, tree, fileVars, found, sentinels, last_cycle, pr, poolVars>>

(* The last invocation is over. *)
Finished == phase = "done" /\ invocation = MaxInvocation /\ UNCHANGED vars

-----------------------------------------------------------------------------
Loop ==
  \/ WalltimeExit \/ StartCycle \/ JoinEvaluation \/ JoinFixers \/ Settle
  \/ BeginRevert \/ EndRevert \/ Publish
  \/ \E t \in Track : ReuseFindings(t) \/ EvaluateTrack(t)
  \/ \E r \in to_revert : RevertCommit(r)
  \/ \E f \in queue : DropFinding(f)

Thread(w) ==
  \/ \E f \in queue : TakeFinding(w, f)
  \/ SkipLanded(w) \/ SkipConflicted(w) \/ PassResumeChecks(w) \/ ScanOrphans(w) \/ ResetWorker(w)
  \/ \E c \in orphans[w] : RecoverOrphan(w, c)
  \/ \E o \in Outcome : RunFixer(w, o)
  \/ RollBackLeak(w) \/ CommitFix(w) \/ AcceptBypass(w) \/ CommitMarker(w) \/ NoChange(w)
  \/ MergeToStaging(w) \/ RecordCommit(w) \/ PersistConflict(w)

Next ==
  \/ Loop
  \/ \E w \in Worker : Thread(w)
  \/ \E cleans_up \in BOOLEAN : Crash(cleans_up)
  \/ RemoveWorktrees
  \/ \E only_fixers \in BOOLEAN : Resume(only_fixers)
  \/ Finished

Spec == Init /\ [][Next]_vars

(* The loop and every thread keep running: subprocesses are bounded by     *)
(* _AGENT_TIMEOUT and the retry table.  Nobody owes a crash or a resume.   *)
FairSpec ==
  /\ Spec
  /\ WF_vars(Loop)
  /\ \A w \in Worker : WF_vars(Thread(w))
=============================================================================
