-------------------------- MODULE HarnessBooksProofs --------------------------
(***************************************************************************)
(* Theorems about what an invocation of the harness publishes and reverts, *)
(* for any number of workers, findings, cycles and invocations and for any *)
(* ids: what is said of a finding supposes of that one finding only that   *)
(* its id is apart, and nothing of the ids of the others.                  *)
(***************************************************************************)
EXTENDS HarnessBooks, HarnessProofs

-----------------------------------------------------------------------------
(* What the greps find of a finding whose id is apart.                     *)
LEMMA SameId ==
  ASSUME NEW f \in Apart, NEW g \in Finding, IdOf[f] = IdOf[g]
  PROVE  f = g
BY BranchAssumption DEF Apart

LEMMA ApartFinding == Apart \subseteq Finding /\ Apart' = Apart
BY DEF Apart

LEMMA EntryAt ==
  ASSUME GitTypeOK, NEW i \in DOMAIN staging
  PROVE  /\ i \in Nat /\ staging[i] \in Entry
         /\ staging[i].op \in {"pick", "revert"}
         /\ staging[i].c \in Commit /\ staging[i].c.f \in Finding
<1>1. i \in Nat /\ staging[i] \in Entry
  BY DEF GitTypeOK
<1> QED
  BY <1>1 DEF Entry, Commit

LEMMA NamesItsFinding ==
  ASSUME NEW e \in Entry, NEW f \in Finding, f \in Apart \/ e.c.f \in Apart
  PROVE  NamesFinding(e, f) <=> e.c.tagged /\ e.c.f = f
<1>1. e.c.f \in Finding
  BY DEF Entry, Commit
<1> QED
  BY <1>1, SameId DEF NamesFinding

LEMMA NewestIsOfFinding ==
  ASSUME GitTypeOK, NEW f \in Finding, NEW i, NewestNaming(staging, f, i),
         f \in Apart \/ staging[i].c.f \in Apart
  PROVE  /\ i \in DOMAIN staging /\ staging[i].c.tagged /\ staging[i].c.f = f
         /\ NamesFinding(staging[i], f)
BY EntryAt, NamesItsFinding DEF NewestNaming, Apart

LEMMA CommitFields ==
  ASSUME NEW c \in Commit
  PROVE  c.f \in Finding /\ c.n \in Nat /\ c.tagged \in BOOLEAN /\ c.good \in BOOLEAN
BY BranchAssumption DEF Commit, Invocation

LEMMA RecordFields ==
  ASSUME BookTypeOK
  PROVE  /\ \A r \in Records : r \in Record /\ r.f \in Finding /\ r.c \in Commit /\ r.at \in Nat
         /\ \A x \in Settled : x \in [f : Finding, c : Commit] /\ x.f \in Finding /\ x.c \in Commit
BY DEF BookTypeOK, Records, Settled, OfApart, Record

-----------------------------------------------------------------------------
(* The steps of a thread, seen from outside.                               *)
LEMMA ThreadFrame ==
  ASSUME PhaseOK, NEW w \in Worker, Thread(w)
  PROVE  /\ phase = "fix"
         /\ UNCHANGED <<phase, cycle, invocation, start_at, fixers_only, results, last_cycle,
                        late, to_revert, reverted_commits, revert_conflicts>>
         /\ graceful_stop_requested => graceful_stop_requested'
<1>1. stage[w] = "idle" => phase = "fix"
  BY DEF Thread, TakeFinding, SkipLanded, SkipConflicted, PassResumeChecks, ScanOrphans,
     ResetWorker, RecoverOrphan, RunFixer, RollBackLeak, CommitFix, AcceptBypass,
     CommitMarker, NoChange, MergeToStaging, RecordCommit, PersistConflict
<1>2. UNCHANGED <<phase, cycle, invocation, start_at, fixers_only, results, last_cycle,
                  late, to_revert, reverted_commits, revert_conflicts>>
  BY Zenon DEF Thread, TakeFinding, SkipLanded, SkipConflicted, PassResumeChecks,
     ScanOrphans, ResetWorker, RecoverOrphan, RunFixer, RollBackLeak, CommitFix,
     AcceptBypass, CommitMarker, NoChange, MergeToStaging, RecordCommit, PersistConflict,
     evalVars, metaVars, loopVars, stopVars, bookVars
<1>3. graceful_stop_requested => graceful_stop_requested'
  BY Zenon DEF Thread, TakeFinding, SkipLanded, SkipConflicted, PassResumeChecks,
     ScanOrphans, ResetWorker, RecoverOrphan, RunFixer, RollBackLeak, CommitFix,
     AcceptBypass, CommitMarker, NoChange, MergeToStaging, RecordCommit, PersistConflict,
     stopVars
<1> QED
  BY <1>1, <1>2, <1>3 DEF PhaseOK

(* The finding of a thread: taken from the queue, kept, then let go.       *)
Takes(w) ==
  /\ stage[w] = "idle" /\ stage'[w] = "assigned"
  /\ task'[w] \in queue /\ queue' = queue \ {task'[w]}
Keeps(w) ==
  /\ stage[w] # "idle" /\ queue' = queue /\ task'[w] = task[w]
  /\ stage'[w] # "idle" /\ stage'[w] # "assigned"
  /\ stage'[w] \in Running => stage[w] \in Running
LetsGo(w) ==
  /\ stage[w] # "idle" /\ queue' = queue /\ stage'[w] = "idle"

LEMMA ThreadTask ==
  ASSUME PoolTypeOK, NEW w \in Worker, Thread(w)
  PROVE  Takes(w) \/ Keeps(w) \/ LetsGo(w)
<1> USE DEF PoolTypeOK, Move, Running, stopVars, poolVars
<1>1. ASSUME Release(w), stage[w] # "idle", queue' = queue
      PROVE  LetsGo(w)
  BY <1>1 DEF Release, LetsGo
<1>2. ASSUME NEW f \in queue, TakeFinding(w, f)
      PROVE  Takes(w)
  BY <1>2 DEF TakeFinding, Takes
<1>3. CASE SkipLanded(w) \/ SkipConflicted(w) \/ RollBackLeak(w) \/ NoChange(w)
           \/ RecordCommit(w) \/ PersistConflict(w)
  BY <1>1, <1>3 DEF SkipLanded, SkipConflicted, RollBackLeak, NoChange, RecordCommit,
     PersistConflict
<1>4. CASE PassResumeChecks(w) \/ ScanOrphans(w) \/ ResetWorker(w)
           \/ \E c \in orphans[w] : RecoverOrphan(w, c)
  BY <1>4 DEF PassResumeChecks, ScanOrphans, ResetWorker, RecoverOrphan, Keeps
<1>5. CASE AcceptBypass(w) \/ CommitMarker(w) \/ MergeToStaging(w)
  BY <1>5 DEF AcceptBypass, CommitMarker, MergeToStaging, Keeps
<1>6. ASSUME NEW o \in Outcome, RunFixer(w, o)
      PROVE  Keeps(w) \/ LetsGo(w)
  BY <1>1, <1>6 DEF RunFixer, Keeps
<1>7. CASE CommitFix(w)
  BY <1>1, <1>7 DEF CommitFix, Keeps
<1> QED
  BY <1>2, <1>3, <1>4, <1>5, <1>6, <1>7 DEF Thread

(* What a thread appends to staging, if anything, is a pick of a commit of *)
(* its own, which it then reports or is about to record.                   *)
Picks(w, c) ==
  /\ c \in Commit /\ Own(c) /\ (c.f \in Apart => Held(c))
  /\ staging' = Append(staging, Pick(c, tree)) /\ tree' = PickedTree(c, tree)
  /\ \/ recovered_commits' = Rescued(c)
     \/ stage'[w] = "recording" /\ pending'[w] = c /\ recovered_commits' = recovered_commits

LEMMA ThreadPicks ==
  ASSUME TypeOK, NEW w \in Worker, WorkerOK(w), Thread(w)
  PROVE  \/ UNCHANGED <<staging, tree, recovered_commits>>
         \/ UNCHANGED commits /\ \E c \in Commit : Picks(w, c)
<1>1. CASE \/ \E f \in queue : TakeFinding(w, f)
           \/ SkipLanded(w) \/ SkipConflicted(w) \/ PassResumeChecks(w) \/ ScanOrphans(w)
           \/ ResetWorker(w) \/ \E o \in Outcome : RunFixer(w, o)
           \/ RollBackLeak(w) \/ CommitFix(w) \/ AcceptBypass(w) \/ CommitMarker(w)
           \/ NoChange(w) \/ RecordCommit(w) \/ PersistConflict(w)
  BY <1>1, Zenon DEF TakeFinding, SkipLanded, SkipConflicted, PassResumeChecks, ScanOrphans,
     ResetWorker, RunFixer, RollBackLeak, CommitFix, AcceptBypass, CommitMarker, NoChange,
     RecordCommit, PersistConflict, gitVars, bookVars
<1>2. ASSUME NEW c \in orphans[w], RecoverOrphan(w, c)
      PROVE  \/ UNCHANGED <<staging, tree, recovered_commits>>
             \/ UNCHANGED commits /\ \E d \in Commit : Picks(w, d)
  <2>1. c \in Commit /\ Own(c) /\ (c.f \in Apart => Held(c))
    BY <1>2 DEF TypeOK, PoolTypeOK, WorkerOK, CommitsOwn, Held
  <2> QED
    BY <1>2, <2>1 DEF RecoverOrphan, Picks
<1>3. CASE MergeToStaging(w)
  <2>1. /\ pending[w] \in Commit /\ Own(pending[w])
        /\ pending[w].f \in Apart => Held(pending[w])
    BY <1>3 DEF MergeToStaging, WorkerOK, HasLocals, CommitsOwn, Held
  <2> QED
    BY <1>3, <2>1 DEF MergeToStaging, Picks, bookVars, TypeOK, PoolTypeOK, Move
<1> QED
  BY <1>1, <1>2, <1>3 DEF Thread

(* What a thread writes down: the record of its finding, found on staging  *)
(* by the resume check or just merged, as it lets the finding go.          *)
Skips(w, r) ==
  /\ stage[w] = "assigned" /\ r.at \in DOMAIN staging
  /\ NewestNaming(staging, task[w], r.at) /\ r.c = staging[r.at].c
Lands(w, r) ==
  stage[w] = "recording" /\ r.c = pending[w] /\ r.at = 0 /\ r.c.kind # "marker"

LEMMA ThreadBooks ==
  ASSUME TypeOK, NEW w \in Worker, WorkerOK(w), Thread(w)
  PROVE  \/ /\ commits' = commits
            /\ LetsGo(w) /\ stage[w] = "recording" => pending[w].kind = "marker"
         \/ \E r \in Record : /\ commits' = commits \cup {r} /\ r.f = task[w]
                              /\ Skips(w, r) \/ Lands(w, r)
                              /\ LetsGo(w) /\ UNCHANGED <<staging, tree>>
<1> USE DEF gitVars, bookVars, stopVars
<1>1. CASE SkipLanded(w)
  <2>1. PICK i \in DOMAIN staging :
          /\ NewestNaming(staging, task[w], i)
          /\ commits' = commits \cup {[f |-> task[w], c |-> staging[i].c, at |-> i]}
    BY <1>1 DEF SkipLanded
  <2> DEFINE r == [f |-> task[w], c |-> staging[i].c, at |-> i]
  <2>2. r \in Record
    BY <1>1, EntryAt DEF TypeOK, SkipLanded, WorkerOK, HasLocals, Record
  <2>3. LetsGo(w) /\ UNCHANGED <<staging, tree>> /\ stage[w] = "assigned"
    BY <1>1 DEF SkipLanded, Release, LetsGo, TypeOK, PoolTypeOK
  <2>4. r.f = task[w] /\ Skips(w, r)
    BY <2>1, <2>3 DEF Skips
  <2> QED
    BY <2>1, <2>2, <2>3, <2>4
<1>2. CASE RecordCommit(w) /\ pending[w].kind # "marker"
  <2> DEFINE r == [f |-> task[w], c |-> pending[w], at |-> 0]
  <2>1. r \in Record
    BY <1>2 DEF RecordCommit, WorkerOK, HasLocals, Record
  <2>2. LetsGo(w) /\ UNCHANGED <<staging, tree>> /\ stage[w] = "recording"
    BY <1>2 DEF RecordCommit, Release, LetsGo, TypeOK, PoolTypeOK
  <2>3. r.f = task[w] /\ Lands(w, r)
    BY <1>2, <2>2 DEF Lands
  <2>4. commits' = commits \cup {r}
    BY <1>2 DEF RecordCommit
  <2> QED
    BY <2>1, <2>2, <2>3, <2>4
<1>3. CASE RecordCommit(w) /\ pending[w].kind = "marker"
  BY <1>3 DEF RecordCommit
<1>4. CASE ~SkipLanded(w) /\ ~RecordCommit(w)
  <2>1. commits' = commits
    BY <1>4, Zenon DEF Thread, TakeFinding, SkipConflicted, PassResumeChecks, ScanOrphans,
       ResetWorker, RecoverOrphan, RunFixer, RollBackLeak, CommitFix, AcceptBypass,
       CommitMarker, NoChange, MergeToStaging, PersistConflict
  <2>2. stage[w] # "recording"
    BY <1>4 DEF Thread, TakeFinding, SkipConflicted, PassResumeChecks, ScanOrphans,
       ResetWorker, RecoverOrphan, RunFixer, RollBackLeak, CommitFix, AcceptBypass,
       CommitMarker, NoChange, MergeToStaging, PersistConflict
  <2> QED
    BY <2>1, <2>2
<1> QED
  BY <1>1, <1>2, <1>3, <1>4

(* A commit a thread makes is of its finding and this invocation, and the  *)
(* verdict that then stands for the finding tells whether it is good.      *)
New(w, c) ==
  /\ stage[w] \in {"fixing", "landing"} /\ stage'[w] \notin Running
  /\ c.f = task[w] /\ c.n = invocation
  /\ c.f \in Apart /\ verdicts'[IdOf[c.f]] = "passed" => c.good

LEMMA NewCommitIsNew ==
  ASSUME TypeOK, NEW w \in Worker, WorkerOK(w), NEW kind \in {"fix", "bypass", "marker"},
         NEW tagged \in BOOLEAN, NEW good \in BOOLEAN,
         stage[w] \in {"fixing", "landing"}, stage'[w] \notin Running,
         task[w] \in Apart /\ verdicts'[IdOf[task[w]]] = "passed" => good
  PROVE  New(w, NewCommit(task[w], kind, tagged, good))
BY DEF New, NewCommit

LEMMA OwnCommitIsNew ==
  ASSUME TypeOK, NEW w \in Worker, WorkerOK(w), NEW o \in Outcome, NEW c \in OwnCommits(task[w], o),
         stage[w] \in {"fixing", "landing"}, stage'[w] \notin Running,
         task[w] \in Apart /\ verdicts'[IdOf[task[w]]] = "passed" => o.verdict = "passed"
  PROVE  New(w, c)
<1>1. c = NewCommit(task[w], "bypass", o.own = "tagged", o.verdict = "passed")
  BY DEF OwnCommits
<1> QED
  BY <1>1, NewCommitIsNew

(* The commits of a worker after a step of its thread.                     *)
LEMMA WorkerCommits ==
  ASSUME TypeOK, NEW w \in Worker, WorkerOK(w), ThreadTells, Thread(w), NEW c \in Commit,
         c.f \in Apart, c \in branch'[w] \cup orphans'[w] \/ c = pending'[w]
  PROVE  Held(c) \/ New(w, c)
<1> USE RunAssumption DEF TypeOK, GitTypeOK, FileTypeOK, PoolTypeOK, Move, gitVars, fileVars
<1>1. ASSUME c \in branch[w] \cup orphans[w] \/ c = pending[w]
      PROVE  Held(c)
  BY <1>1 DEF Held
<1>2. Release(w) => pending'[w] = None /\ orphans' = orphans
  BY DEF Release
<1>3. CASE \/ \E f \in queue : TakeFinding(w, f)
           \/ SkipLanded(w) \/ SkipConflicted(w) \/ PassResumeChecks(w) \/ ScanOrphans(w)
           \/ ResetWorker(w) \/ RollBackLeak(w) \/ NoChange(w) \/ RecordCommit(w)
           \/ PersistConflict(w)
  <2>1. branch'[w] \subseteq branch[w] /\ orphans'[w] \subseteq branch[w] \cup orphans[w]
    BY <1>2, <1>3 DEF TakeFinding, SkipLanded, SkipConflicted, PassResumeChecks, ScanOrphans,
       Unmerged, ResetWorker, RollBackLeak, NoChange, RecordCommit, PersistConflict
  <2>2. pending'[w] \in {pending[w], None}
    BY <1>2, <1>3 DEF TakeFinding, SkipLanded, SkipConflicted, PassResumeChecks, ScanOrphans,
       ResetWorker, RollBackLeak, NoChange, RecordCommit, PersistConflict
  <2> QED
    BY <1>1, <2>1, <2>2
<1>4. CASE MergeToStaging(w)
  <2>1. UNCHANGED <<pending, orphans>> /\ branch'[w] \subseteq branch[w]
    BY <1>4 DEF MergeToStaging
  <2> QED
    BY <1>1, <2>1
<1>9. ASSUME NEW d \in orphans[w], RecoverOrphan(w, d)
      PROVE  Held(c) \/ New(w, c)
  <2>1. UNCHANGED <<pending, branch>> /\ orphans'[w] \subseteq orphans[w]
    BY <1>9 DEF RecoverOrphan
  <2> QED
    BY <1>1, <2>1
<1>5. ASSUME NEW o \in Outcome, RunFixer(w, o)
      PROVE  Held(c) \/ New(w, c)
  <2>1. stage[w] = "fixing" /\ stage'[w] \notin Running
    BY <1>5 DEF RunFixer, Release, Running
  <2>2. pending'[w] \in {pending[w], None} /\ orphans' = orphans
        /\ branch'[w] = branch[w] \cup OwnCommits(task[w], o)
    BY <1>2, <1>5 DEF RunFixer
  <2>3. task[w] \in Apart /\ verdicts'[IdOf[task[w]]] = "passed" => o.verdict = "passed"
    <3>1. IdOf[task[w]] \in Id /\ (task[w] \in Apart => verdicts[IdOf[task[w]]] # "passed")
      BY <2>1, BranchAssumption DEF WorkerOK, HasLocals, ThreadTells
    <3> QED
      BY <1>5, <3>1 DEF RunFixer
  <2> QED
    BY <1>1, <2>1, <2>2, <2>3, OwnCommitIsNew
<1>6. CASE CommitFix(w)
  <2> DEFINE d == NewCommit(task[w], "fix", TRUE, outcome[w].clean /\ outcome[w].verdict = "passed")
  <2>1. stage[w] = "landing" /\ stage'[w] \notin Running
    BY <1>6 DEF CommitFix, Release, Running
  <2>2. pending'[w] \in {pending[w], None, d} /\ orphans' = orphans
        /\ branch'[w] = branch[w] \cup {d}
    BY <1>2, <1>6 DEF CommitFix
  <2>3. task[w] \in Apart /\ verdicts'[IdOf[task[w]]] = "passed" =>
          outcome[w].clean /\ outcome[w].verdict = "passed"
    <3>1. IdOf[task[w]] \in Id
      BY <2>1, BranchAssumption DEF WorkerOK, HasLocals
    <3> QED
      BY <1>6, <2>1, <3>1 DEF CommitFix, ThreadTells
  <2>4. New(w, d)
    BY <2>1, <2>3, NewCommitIsNew
  <2> HIDE DEF d
  <2> QED
    BY <1>1, <2>2, <2>4
<1>7. CASE AcceptBypass(w)
  <2>1. PICK d \in OwnCommits(task[w], outcome[w]) : pending' = [pending EXCEPT ![w] = d]
    BY <1>7 DEF AcceptBypass
  <2>2. /\ stage[w] = "landing" /\ stage'[w] \notin Running /\ UNCHANGED <<branch, orphans, verdicts>>
    BY <1>7 DEF AcceptBypass, Running
  <2>3. New(w, d)
    BY <2>1, <2>2, OwnCommitIsNew DEF ThreadTells, WorkerOK, HasLocals
  <2> QED
    BY <1>1, <2>1, <2>2, <2>3
<1>8. CASE CommitMarker(w)
  <2> DEFINE d == NewCommit(task[w], "marker", TRUE, outcome[w].verdict = "passed")
  <2>1. stage[w] = "landing" /\ stage'[w] \notin Running /\ UNCHANGED <<verdicts, orphans>>
    BY <1>8 DEF CommitMarker, Running
  <2>2. pending'[w] = d /\ branch'[w] = branch[w] \cup {d}
    BY <1>8 DEF CommitMarker
  <2>3. New(w, d)
    BY <2>1, NewCommitIsNew DEF ThreadTells
  <2> HIDE DEF d
  <2> QED
    BY <1>1, <2>1, <2>2, <2>3
<1> QED
  BY <1>3, <1>4, <1>5, <1>6, <1>7, <1>8, <1>9 DEF Thread

LEMMA StagingCommits ==
  ASSUME GitTypeOK, NEW e \in Entry, staging' = Append(staging, e), NEW c, OnStaging(c)'
  PROVE  OnStaging(c) \/ c = e.c
BY AppendFacts DEF GitTypeOK, OnStaging

LEMMA HeldThread ==
  ASSUME TypeOK, NEW w \in Worker, WorkerOK(w), ThreadTells, Thread(w), NEW c \in Commit, Held(c)'
  PROVE  Held(c) \/ New(w, c)
<1>1. CASE OnStaging(c)'
  <2>1. CASE staging' = staging
    BY <1>1, <2>1 DEF Held, OnStaging
  <2>2. ASSUME NEW d \in Commit, Picks(w, d)
        PROVE  Held(c)
    BY <1>1, <2>2, PickEntry, StagingCommits DEF Picks, Held, TypeOK
  <2> QED
    BY <2>1, <2>2, ThreadPicks
<1>2. ASSUME NEW v \in Worker, v # w, c \in branch'[v] \cup orphans'[v] \/ c = pending'[v]
      PROVE  Held(c)
  BY <1>2, SameOthers DEF SameWorker, Held, TypeOK, GitTypeOK
<1> QED
  BY <1>1, <1>2, WorkerCommits DEF Held

-----------------------------------------------------------------------------
(* The steps outside the threads.                                          *)
OtherStep ==
  \/ Loop \/ RemoveWorktrees \/ UNCHANGED vars
  \/ \E cleans_up \in BOOLEAN : Crash(cleans_up)
  \/ \E only_fixers \in BOOLEAN : Resume(only_fixers)

LEMMA StepKinds == [Next]_vars => OtherStep \/ \E w \in Worker : Thread(w)
BY DEF Next, OtherStep, Finished

LEMMA LoopKinds ==
  ASSUME Loop
  PROVE  Quiet \/ \E r \in to_revert : RevertCommit(r)
BY QuietSteps, Zenon DEF Loop

LEMMA LoopFrame ==
  ASSUME Loop
  PROVE  UNCHANGED <<verdicts, branch, invocation, start_at, stage, task, outcome, pending, orphans>>
BY Zenon DEF Loop, WalltimeExit, StartCycle, JoinEvaluation, JoinFixers, Settle, BeginRevert,
   EndRevert, Publish, ReuseFindings, EvaluateTrack, RevertCommit, DropFinding, gitVars,
   fileVars, metaVars, poolVars

(* They make no commit.                                                    *)
LEMMA HeldOther ==
  ASSUME IInv, OtherStep, NEW c \in Commit, Held(c)'
  PROVE  Held(c)
<1> USE DEF IInv, TypeOK
<1>1. CASE Quiet
  BY <1>1 DEF Quiet, Held, OnStaging
<1>2. ASSUME NEW r \in to_revert, RevertCommit(r)
      PROVE  Held(c)
  <2>1. r \in Record /\ OnStaging(r.c)
    BY DEF BookTypeOK, RecordsOnStaging
  <2>2. UNCHANGED <<branch, orphans, pending>>
    BY <1>2, LoopFrame DEF Loop
  <2>3. OnStaging(c)' => OnStaging(c)
    <3>1. CASE staging' = staging
      BY <3>1 DEF OnStaging
    <3>2. CASE staging' = Append(staging, Undo(r, staging))
      BY <2>1, <3>2, UndoEntry, StagingCommits
    <3> QED
      BY <1>2, <3>1, <3>2 DEF RevertCommit
  <2> QED
    BY <2>2, <2>3 DEF Held
<1>3. CASE \E cleans_up \in BOOLEAN : Crash(cleans_up)
  BY <1>3, RunAssumption DEF Crash, Every, Held, OnStaging, gitVars
<1>4. CASE \E only_fixers \in BOOLEAN : Resume(only_fixers)
  BY <1>4, RunAssumption DEF Resume, WorkersFromStaging, Every, Held, OnStaging, poolVars
<1> QED
  BY <1>1, <1>2, <1>3, <1>4, LoopKinds, QuietSteps DEF OtherStep

-----------------------------------------------------------------------------
(* VerdictsTell.                                                           *)
LEMMA NoneHeld ==
  ASSUME IInv, TriedOnce, ThreadTells, NEW w \in Worker, stage[w] = "fixing",
         NEW c \in Commit, Held(c), c.f = task[w]
  PROVE  ~c.tagged /\ c.n # invocation
<1> USE DEF IInv, WorkerOK
<1>1. c.n # invocation
  BY DEF TriedOnce, Running, Tried
<1>2. CASE OnStaging(c)
  BY <1>1, <1>2 DEF OnStaging, CommitsOwn, Fresh, NamesFinding
<1>3. ASSUME NEW v \in Worker, c \in branch[v] \cup orphans[v] \/ c = pending[v]
      PROVE  c.n = invocation
  BY <1>3, RunAssumption DEF CommitsOwn, Own, ThreadTells, Merging
<1> QED
  BY <1>1, <1>2, <1>3 DEF Held

LEMMA VerdictWritten ==
  ASSUME TypeOK, NEW w \in Worker, WorkerOK(w), Thread(w), NEW i \in Id, verdicts'[i] = "passed"
  PROVE  verdicts[i] = "passed" \/ (stage[w] = "fixing" /\ i = IdOf[task[w]])
<1> USE DEF TypeOK, FileTypeOK, fileVars
<1>1. CASE ResetWorker(w)
  BY <1>1 DEF ResetWorker, VerdictsPurged
<1>2. CASE CommitFix(w)
  BY <1>2 DEF CommitFix
<1>3. ASSUME NEW o \in Outcome, RunFixer(w, o)
      PROVE  verdicts[i] = "passed" \/ (stage[w] = "fixing" /\ i = IdOf[task[w]])
  BY <1>3 DEF RunFixer
<1>4. verdicts' = verdicts \/ ResetWorker(w) \/ CommitFix(w) \/ \E o \in Outcome : RunFixer(w, o)
  BY Zenon DEF Thread, TakeFinding, SkipLanded, SkipConflicted, PassResumeChecks, ScanOrphans,
     RecoverOrphan, RollBackLeak, AcceptBypass, CommitMarker, NoChange, MergeToStaging,
     RecordCommit, PersistConflict, fileVars
<1> QED
  BY <1>1, <1>2, <1>3, <1>4

LEMMA VerdictsStep ==
  ASSUME IInv, VerdictsTell, TriedOnce, ThreadTells, [Next]_vars
  PROVE  VerdictsTell'
<1> SUFFICES ASSUME NEW c \in Commit, Held(c)'
             PROVE  /\ c.n <= invocation'
                    /\ (c.tagged \/ c.n = invocation') /\ verdicts'[IdOf[c.f]] = "passed" => c.good
  BY DEF VerdictsTell
<1> USE CommitFields DEF IInv
<1>0. c.f \in Finding /\ IdOf[c.f] \in Id /\ c.n \in Nat /\ invocation \in Nat
  BY BranchAssumption DEF TypeOK, RunTypeOK, Invocation
<1>1. ASSUME NEW w \in Worker, Thread(w)
      PROVE  /\ c.n <= invocation'
             /\ (c.tagged \/ c.n = invocation') /\ verdicts'[IdOf[c.f]] = "passed" => c.good
  <2>1. invocation' = invocation
    BY <1>1, ThreadFrame
  <2>2. CASE New(w, c)
    BY <1>0, <2>1, <2>2 DEF New, Held
  <2>3. CASE Held(c)
    <3>1. ASSUME c.tagged \/ c.n = invocation, verdicts'[IdOf[c.f]] = "passed"
          PROVE  verdicts[IdOf[c.f]] = "passed"
      <4>1. ASSUME stage[w] = "fixing", IdOf[c.f] = IdOf[task[w]]
            PROVE  FALSE
        <5>1. c.f = task[w]
          BY <2>3, <4>1, SameId DEF WorkerOK, HasLocals, Held
        <5> QED
          BY <2>3, <3>1, <4>1, <5>1, NoneHeld
      <4> QED
        BY <1>0, <1>1, <3>1, <4>1, VerdictWritten
    <3> QED
      BY <2>1, <2>3, <3>1 DEF VerdictsTell
  <2> QED
    BY <1>1, <2>2, <2>3, HeldThread
<1>2. CASE OtherStep
  <2>1. Held(c)
    BY <1>2, HeldOther
  <2>2. UNCHANGED verdicts
    BY <1>2, LoopFrame, Zenon DEF OtherStep, RemoveWorktrees, Crash, Resume, vars, fileVars
  <2>3. CASE UNCHANGED invocation
    BY <2>1, <2>2, <2>3 DEF VerdictsTell
  <2>4. CASE \E only_fixers \in BOOLEAN : Resume(only_fixers)
    <3>1. invocation' = invocation + 1
      BY <2>4 DEF Resume
    <3>2. c.n <= invocation
      BY <2>1 DEF VerdictsTell
    <3>3. c.n # invocation'
      BY <1>0, <3>1, <3>2
    <3>4. c.n <= invocation'
      BY <1>0, <3>1, <3>2
    <3> QED
      BY <2>1, <2>2, <3>3, <3>4 DEF VerdictsTell
  <2>5. UNCHANGED invocation \/ \E only_fixers \in BOOLEAN : Resume(only_fixers)
    BY <1>2, LoopFrame, Zenon DEF OtherStep, RemoveWorktrees, Crash, vars, metaVars
  <2> QED
    BY <2>3, <2>4, <2>5
<1> QED
  BY <1>1, <1>2, StepKinds

-----------------------------------------------------------------------------
(* TriedOnce.                                                              *)
LEMMA BookedThread ==
  ASSUME TypeOK, PhaseOK, NEW w \in Worker, WorkerOK(w), Thread(w), NEW f, Booked(f)'
  PROVE  Booked(f) \/ (f = task[w] /\ LetsGo(w))
<1>1. UNCHANGED <<to_revert, reverted_commits, revert_conflicts>>
  BY ThreadFrame
<1>2. commits' = commits \/ (LetsGo(w) /\ \E r \in Record : commits' = commits \cup {r} /\ r.f = task[w])
  BY ThreadBooks
<1> QED
  BY <1>1, <1>2 DEF Booked, Records, Settled, OfApart

LEMMA TriedThread ==
  ASSUME IInv, ThreadTells, NEW w \in Worker, Thread(w), NEW f, Tried(f)'
  PROVE  Tried(f) \/ (f = task[w] /\ stage[w] # "idle" /\ stage'[w] \notin Running)
<1> USE DEF IInv
<1>1. CASE Booked(f)'
  BY <1>1, BookedThread DEF Tried, LetsGo, Running
<1>2. ASSUME NEW c \in Commit, Held(c)', c.f = f, c.n = invocation'
      PROVE  Tried(f) \/ (f = task[w] /\ stage[w] # "idle" /\ stage'[w] \notin Running)
  <2>1. invocation' = invocation
    BY ThreadFrame
  <2> QED
    BY <1>2, <2>1, HeldThread DEF Tried, New
<1> QED
  BY <1>1, <1>2 DEF Tried

LEMMA BookedOther ==
  ASSUME IInv, OtherStep, NEW f, Booked(f)'
  PROVE  Booked(f)
<1> USE DEF Booked, Records, Settled, OfApart
<1>1. CASE BeginRevert
  <2>1. /\ (commits \cup to_revert)' \subseteq commits
        /\ revert_conflicts' = revert_conflicts
        /\ \A x \in reverted_commits' :
             x \in reverted_commits \/ \E r \in commits : x = [f |-> r.f, c |-> r.c]
    BY <1>1 DEF BeginRevert
  <2> QED
    BY <2>1
<1>2. ASSUME NEW r \in to_revert, RevertCommit(r)
      PROVE  Booked(f)
  <2>1. /\ commits' = commits /\ to_revert' \subseteq to_revert
        /\ \A x \in Settled' : x \in Settled \/ x = [f |-> r.f, c |-> r.c]
    BY <1>2 DEF RevertCommit
  <2> QED
    BY <2>1
<1>3. CASE \/ \E cleans_up \in BOOLEAN : Crash(cleans_up)
           \/ \E only_fixers \in BOOLEAN : Resume(only_fixers)
  BY <1>3 DEF Crash, Resume, ForgetRun
<1>4. CASE \/ WalltimeExit \/ StartCycle \/ JoinEvaluation \/ JoinFixers \/ Settle
           \/ EndRevert \/ Publish \/ RemoveWorktrees \/ UNCHANGED vars
           \/ \E t \in Track : ReuseFindings(t) \/ EvaluateTrack(t)
           \/ \E g \in queue : DropFinding(g)
  <2>1. UNCHANGED <<commits, to_revert, reverted_commits, revert_conflicts>>
    BY <1>4, Zenon DEF WalltimeExit, StartCycle, JoinEvaluation, JoinFixers, Settle, EndRevert,
       Publish, RemoveWorktrees, vars, ReuseFindings, EvaluateTrack, DropFinding, bookVars
  <2> QED
    BY <2>1
<1> QED
  BY <1>1, <1>2, <1>3, <1>4, Zenon DEF OtherStep, Loop

LEMMA TriedOther ==
  ASSUME IInv, VerdictsTell, OtherStep, NEW f, Tried(f)'
  PROVE  Tried(f) /\ invocation' = invocation
<1>1. Booked(f)' => Booked(f)
  BY BookedOther
<1>2. CASE \E only_fixers \in BOOLEAN : Resume(only_fixers)
  <2>1. invocation' = invocation + 1 /\ ~Booked(f)'
    BY <1>2 DEF Resume, ForgetRun, Booked, Records, Settled, OfApart
  <2>2. PICK c \in Commit : Held(c)' /\ c.n = invocation'
    BY <2>1 DEF Tried
  <2>3. c.n <= invocation
    BY <2>2, HeldOther DEF VerdictsTell
  <2>4. invocation \in Nat
    BY BranchAssumption DEF IInv, TypeOK, RunTypeOK, Invocation
  <2> QED
    BY <2>1, <2>2, <2>3, <2>4, CommitFields
<1>3. CASE UNCHANGED invocation
  BY <1>1, <1>3, HeldOther DEF Tried
<1>4. UNCHANGED invocation \/ \E only_fixers \in BOOLEAN : Resume(only_fixers)
  BY LoopFrame, Zenon DEF OtherStep, RemoveWorktrees, Crash, vars, metaVars
<1> QED
  BY <1>2, <1>3, <1>4

LEMMA TriedOnceStep ==
  ASSUME IInv, IInv', VerdictsTell, TriedOnce, ThreadTells, CyclesApart, [Next]_vars
  PROVE  TriedOnce'
<1> USE DEF IInv
<1>1. ASSUME NEW w \in Worker, Thread(w)
      PROVE  TriedOnce'
  <2>1. Takes(w) \/ Keeps(w) \/ LetsGo(w)
    BY <1>1, ThreadTask DEF TypeOK
  <2>2. \A v \in Worker \ {w} : stage'[v] = stage[v] /\ task'[v] = task[v]
    BY <1>1, SameOthers DEF SameWorker, TypeOK, GitTypeOK
  <2>3. \A f : Booked(f)' => Booked(f) \/ (f = task[w] /\ LetsGo(w))
    BY <1>1, BookedThread
  <2>4. \A f : Tried(f)' => Tried(f) \/ (f = task[w] /\ stage[w] # "idle" /\ stage'[w] \notin Running)
    BY <1>1, TriedThread
  <2>5. \A f : Booked(f) => Tried(f)
    BY DEF Tried
  <2>6. \A f \in queue' : ~Tried(f)'
    BY <2>1, <2>4 DEF TriedOnce, Takes, Keeps, LetsGo
  <2>7. ASSUME NEW v \in Worker, stage'[v] # "idle"
        PROVE  /\ task'[v] \notin queue'
               /\ ~Booked(task[v])'
               /\ stage'[v] \in Running => ~Tried(task[v])'
               /\ \A u \in Worker \ {v} : stage'[u] # "idle" => task'[u] # task'[v]
    <3>1. CASE v = w /\ Takes(w)
      BY <3>1, <2>2, <2>3, <2>4, <2>5 DEF TriedOnce, Takes, LetsGo
    <3>2. CASE v = w /\ Keeps(w)
      BY <3>2, <2>2, <2>3, <2>4, <2>7 DEF TriedOnce, Keeps, LetsGo
    <3>3. CASE v # w
      BY <3>3, <2>1, <2>2, <2>3, <2>4, <2>7 DEF TriedOnce, Takes, Keeps, LetsGo
    <3> QED
      BY <2>1, <2>7, <3>1, <3>2, <3>3 DEF LetsGo
  <2> QED
    BY <2>6, <2>7 DEF TriedOnce
<1>2. CASE OtherStep
  <2>1. \A f : (Booked(f)' => Booked(f)) /\ (Tried(f)' => Tried(f))
    BY <1>2, BookedOther, TriedOther
  <2>2. ASSUME queue' \subseteq queue, UNCHANGED <<stage, task>>
        PROVE  TriedOnce'
    BY <2>1, <2>2 DEF TriedOnce
  <2>3. ASSUME \A f \in queue' : ~Tried(f)', \A w \in Worker : stage'[w] = "idle"
        PROVE  TriedOnce'
    BY <2>3 DEF TriedOnce
  <2>4. CASE JoinEvaluation
    <3>1. \A f \in queue' : ~Tried(f)
      <4>1. fixers_only => FALSE
        BY <2>4, Zenon DEF JoinEvaluation, CyclesApart
      <4>2. phase = "evaluate" /\ queue' \subseteq results \cup queue /\ queue = {}
        BY <2>4 DEF JoinEvaluation, Actionable, CyclesApart
      <4>3. \A f \in results : f \in Finding /\ CycleOf[f] = cycle
        BY <4>1, <4>2 DEF CyclesApart, InCycle, TypeOK, EvalTypeOK
      <4>4. \A f \in results : Tried(f) => CycleOf[f] < cycle
        BY <4>1, <4>2, <4>3 DEF CyclesApart, InCycle
      <4>5. cycle \in Nat
        BY DEF TypeOK, RunTypeOK
      <4> QED
        BY <4>2, <4>3, <4>4, <4>5
    <3>2. \A w \in Worker : stage'[w] = "idle"
      BY <2>4 DEF JoinEvaluation, PhaseOK, poolVars
    <3> QED
      BY <2>1, <2>3, <3>1, <3>2
  <2>5. CASE \/ \E cleans_up \in BOOLEAN : Crash(cleans_up)
             \/ \E only_fixers \in BOOLEAN : Resume(only_fixers)
    <3>1. \A w \in Worker : stage'[w] = "idle"
      BY <2>5 DEF Crash, Resume, PhaseOK, Every, poolVars
    <3>2. \A f \in queue' : ~Tried(f)'
      <4>1. CASE \E cleans_up \in BOOLEAN : Crash(cleans_up)
        BY <4>1 DEF Crash
      <4>2. CASE \E only_fixers \in BOOLEAN : Resume(only_fixers)
        <5>1. invocation' = invocation + 1 /\ invocation \in Nat
          BY <4>2, BranchAssumption DEF Resume, TypeOK, RunTypeOK, Invocation
        <5> QED
          BY <1>2, <5>1, TriedOther
      <4> QED
        BY <2>5, <4>1, <4>2
    <3> QED
      BY <2>3, <3>1, <3>2
  <2>6. CASE \/ WalltimeExit \/ StartCycle \/ JoinFixers \/ Settle \/ BeginRevert
             \/ EndRevert \/ Publish \/ RemoveWorktrees \/ UNCHANGED vars
             \/ \E t \in Track : ReuseFindings(t) \/ EvaluateTrack(t)
             \/ \E r \in to_revert : RevertCommit(r)
             \/ \E f \in queue : DropFinding(f)
    <3>1. UNCHANGED <<stage, task>>
      BY <2>6, Zenon DEF WalltimeExit, StartCycle, JoinFixers, Settle, BeginRevert, EndRevert,
         Publish, RemoveWorktrees, vars, ReuseFindings, EvaluateTrack, RevertCommit, DropFinding,
         poolVars
    <3>2. queue' = queue \/ \E f \in queue : DropFinding(f)
      BY <2>6, Zenon DEF WalltimeExit, StartCycle, JoinFixers, Settle, BeginRevert, EndRevert,
         Publish, RemoveWorktrees, vars, ReuseFindings, EvaluateTrack, RevertCommit, stopVars
    <3>3. queue' \subseteq queue
      BY <3>2 DEF DropFinding
    <3> QED
      BY <2>2, <3>1, <3>3
  <2> QED
    BY <1>2, <2>4, <2>5, <2>6, Zenon DEF OtherStep, Loop
<1> QED
  BY <1>1, <1>2, StepKinds

-----------------------------------------------------------------------------
(* ThreadTells.                                                            *)
LEMMA ThreadTellsOwn ==
  ASSUME IInv, ThreadTells, NEW w \in Worker, Thread(w)
  PROVE  /\ IF stage'[w] \in Merging THEN pending'[w].f = task'[w] ELSE pending'[w] = None
         /\ stage'[w] = "fixing" /\ task'[w] \in Apart => verdicts'[IdOf[task'[w]]] # "passed"
         /\ stage'[w] = "landing" /\ task'[w] \in Apart /\ verdicts'[IdOf[task'[w]]] = "passed"
              => outcome'[w].verdict = "passed"
<1> DEFINE Tells == /\ IF stage'[w] \in Merging THEN pending'[w].f = task'[w] ELSE pending'[w] = None
                    /\ stage'[w] = "fixing" /\ task'[w] \in Apart => verdicts'[IdOf[task'[w]]] # "passed"
                    /\ stage'[w] = "landing" /\ task'[w] \in Apart /\ verdicts'[IdOf[task'[w]]] = "passed"
                         => outcome'[w].verdict = "passed"
<1> USE BranchAssumption DEF IInv, TypeOK, PoolTypeOK, FileTypeOK, Move, Merging, fileVars, poolVars
<1>1. IF stage[w] \in Merging THEN pending[w].f = task[w] ELSE pending[w] = None
  BY DEF ThreadTells
<1>2. Release(w) => Tells
  BY DEF Release
<1>3. CASE \/ \E f \in queue : TakeFinding(w, f)
           \/ PassResumeChecks(w) \/ ScanOrphans(w) \/ \E c \in orphans[w] : RecoverOrphan(w, c)
  BY <1>1, <1>3 DEF TakeFinding, PassResumeChecks, ScanOrphans, RecoverOrphan
<1>4. CASE ResetWorker(w)
  <2>1. task[w] \in Finding /\ stage'[w] = "fixing" /\ UNCHANGED <<task, pending>>
    BY <1>4 DEF ResetWorker, WorkerOK, HasLocals
  <2>2. verdicts'[IdOf[task[w]]] = "none"
    BY <1>4, <2>1 DEF ResetWorker, VerdictsPurged
  <2>3. stage[w] = "syncing"
    BY <1>4 DEF ResetWorker
  <2> QED
    BY <1>1, <2>1, <2>2, <2>3
<1>5. ASSUME NEW o \in Outcome, RunFixer(w, o)
      PROVE  Tells
  <2>1. stage[w] = "fixing" /\ task[w] \in Finding
        /\ (task[w] \in Apart => verdicts[IdOf[task[w]]] # "passed")
    BY <1>5 DEF RunFixer, WorkerOK, HasLocals, ThreadTells
  <2>2. task[w] \in Apart /\ verdicts'[IdOf[task[w]]] = "passed" => o.verdict = "passed"
    BY <1>5, <2>1 DEF RunFixer
  <2>3. \/ Release(w)
        \/ /\ outcome'[w] = o /\ stage'[w] = "landing" /\ UNCHANGED <<task, pending>>
    BY <1>5 DEF RunFixer
  <2> QED
    BY <1>1, <1>2, <2>1, <2>2, <2>3
<1>6. CASE AcceptBypass(w)
  <2>1. PICK c \in OwnCommits(task[w], outcome[w]) : pending' = [pending EXCEPT ![w] = c]
    BY <1>6 DEF AcceptBypass
  <2>2. c.f = task[w]
    BY <2>1 DEF OwnCommits, NewCommit
  <2> QED
    BY <1>6, <2>1, <2>2 DEF AcceptBypass
<1>7. CASE CommitFix(w)
  <2> DEFINE c == NewCommit(task[w], "fix", TRUE, outcome[w].clean /\ outcome[w].verdict = "passed")
  <2>1. c.f = task[w]
    BY DEF NewCommit
  <2>2. \/ Release(w)
        \/ pending' = [pending EXCEPT ![w] = c] /\ stage'[w] = "merging" /\ UNCHANGED task
    BY <1>7 DEF CommitFix
  <2> HIDE DEF c
  <2> QED
    BY <1>2, <2>1, <2>2
<1>8. CASE CommitMarker(w)
  <2> DEFINE c == NewCommit(task[w], "marker", TRUE, outcome[w].verdict = "passed")
  <2>1. c.f = task[w]
    BY DEF NewCommit
  <2>2. pending' = [pending EXCEPT ![w] = c] /\ stage'[w] = "merging" /\ UNCHANGED task
    BY <1>8 DEF CommitMarker
  <2> HIDE DEF c
  <2> QED
    BY <2>1, <2>2
<1>9. CASE MergeToStaging(w)
  BY <1>1, <1>9 DEF MergeToStaging
<1>10. CASE SkipLanded(w) \/ SkipConflicted(w) \/ RollBackLeak(w) \/ NoChange(w)
            \/ RecordCommit(w) \/ PersistConflict(w)
  BY <1>2, <1>10 DEF SkipLanded, SkipConflicted, RollBackLeak, NoChange, RecordCommit,
     PersistConflict
<1> QED
  BY <1>3, <1>4, <1>5, <1>6, <1>7, <1>8, <1>9, <1>10 DEF Thread

LEMMA ThreadTellsStep ==
  ASSUME IInv, IInv', TriedOnce, ThreadTells, [Next]_vars
  PROVE  ThreadTells'
<1> USE BranchAssumption DEF IInv
<1>1. ASSUME NEW w \in Worker, Thread(w)
      PROVE  ThreadTells'
  <2>1. ASSUME NEW v \in Worker, v # w, stage[v] \in {"fixing", "landing"}, task[v] \in Apart,
               verdicts'[IdOf[task[v]]] = "passed"
        PROVE  verdicts[IdOf[task[v]]] = "passed"
    <3>1. task[v] \in Finding
      BY <2>1 DEF WorkerOK, HasLocals
    <3>2. ASSUME stage[w] = "fixing", IdOf[task[v]] = IdOf[task[w]]
          PROVE  FALSE
      <4>1. task[v] = task[w]
        BY <2>1, <3>2, SameId DEF WorkerOK, HasLocals
      <4> QED
        BY <2>1, <3>2, <4>1 DEF TriedOnce
    <3> QED
      BY <1>1, <2>1, <3>1, <3>2, VerdictWritten
  <2>2. \A v \in Worker \ {w} : SameWorker(v)
    BY <1>1, SameOthers DEF TypeOK, GitTypeOK
  <2>3. ASSUME NEW v \in Worker, v # w
        PROVE  /\ IF stage'[v] \in Merging THEN pending'[v].f = task'[v] ELSE pending'[v] = None
               /\ stage'[v] = "fixing" /\ task'[v] \in Apart => verdicts'[IdOf[task'[v]]] # "passed"
               /\ stage'[v] = "landing" /\ task'[v] \in Apart /\ verdicts'[IdOf[task'[v]]] = "passed"
                    => outcome'[v].verdict = "passed"
    BY <2>1, <2>2, <2>3 DEF ThreadTells, SameWorker
  <2>4. /\ IF stage'[w] \in Merging THEN pending'[w].f = task'[w] ELSE pending'[w] = None
        /\ stage'[w] = "fixing" /\ task'[w] \in Apart => verdicts'[IdOf[task'[w]]] # "passed"
        /\ stage'[w] = "landing" /\ task'[w] \in Apart /\ verdicts'[IdOf[task'[w]]] = "passed"
             => outcome'[w].verdict = "passed"
    BY <1>1, ThreadTellsOwn
  <2> QED
    BY <2>3, <2>4 DEF ThreadTells
<1>2. CASE UNCHANGED <<verdicts, stage, task, outcome, pending>>
  BY <1>2 DEF ThreadTells
<1>3. CASE \E cleans_up \in BOOLEAN : Crash(cleans_up)
  BY <1>3 DEF Crash, Every, ThreadTells, Merging
<1>4. OtherStep => \/ UNCHANGED <<verdicts, stage, task, outcome, pending>>
                   \/ \E cleans_up \in BOOLEAN : Crash(cleans_up)
  BY LoopFrame, Zenon DEF OtherStep, RemoveWorktrees, Resume, vars, fileVars, poolVars
<1> QED
  BY <1>1, <1>2, <1>3, <1>4, StepKinds

-----------------------------------------------------------------------------
(* CyclesApart.                                                            *)
LEMMA CyclesThread ==
  ASSUME IInv, ThreadTells, CyclesApart, NEW w \in Worker, Thread(w)
  PROVE  CyclesApart'
<1> USE DEF IInv
<1>1. /\ phase = "fix"
      /\ UNCHANGED <<phase, cycle, fixers_only, results, last_cycle>>
  BY ThreadFrame
<1>2. CASE fixers_only
  <2>1. results = {}
    BY <1>2, Zenon DEF CyclesApart
  <2>2. fixers_only' => phase' \notin {"cycle", "evaluate"} /\ results' = {}
    BY <1>1, <2>1
  <2>3. fixers_only' /\ phase' = "fix"
    BY <1>1, <1>2, Zenon
  <2> QED
    BY <2>2, <2>3 DEF CyclesApart
<1>3. CASE ~fixers_only
  <2>1. InCycle
    BY <1>1 DEF InCycle
  <2>2. Takes(w) \/ Keeps(w) \/ LetsGo(w)
    BY ThreadTask DEF TypeOK
  <2>3. \A v \in Worker \ {w} : stage'[v] = stage[v] /\ task'[v] = task[v]
    BY SameOthers DEF SameWorker, TypeOK, GitTypeOK
  <2>4. \A f : Tried(f)' => Tried(f) \/ (f = task[w] /\ stage[w] # "idle")
    BY TriedThread
  <2>5. \A f \in Finding : Tried(f)' => CycleOf[f] <= cycle
    BY <1>3, <2>1, <2>4 DEF CyclesApart
  <2>6. \A f \in queue' : CycleOf[f] <= cycle
    BY <1>3, <2>1, <2>2 DEF CyclesApart, Takes, Keeps, LetsGo
  <2>7. \A v \in Worker : stage'[v] # "idle" => CycleOf[task'[v]] <= cycle
    BY <1>3, <2>1, <2>2, <2>3 DEF CyclesApart, Takes, Keeps, LetsGo
  <2>8. last_cycle = cycle /\ \A f \in results : CycleOf[f] = cycle
    BY <1>1, <1>3, <2>1 DEF CyclesApart
  <2>9. ~fixers_only' /\ phase' = "fix"
    BY <1>1, <1>3, Zenon
  <2> QED
    BY <1>1, <2>5, <2>6, <2>7, <2>8, <2>9 DEF CyclesApart
<1> QED
  BY <1>2, <1>3, Zenon

(* Outside the threads: the findings of a cycle are its own, and what was  *)
(* tried before it starts is of an earlier one.                            *)
LEMMA CyclesLoop ==
  ASSUME IInv, CyclesApart, \A f : Tried(f)' => Tried(f), Loop
  PROVE  CyclesApart'
<1> USE DEF loopVars, evalVars, stopVars, metaVars, poolVars
<1>0. /\ cycle \in Nat /\ last_cycle \in Nat
      /\ phase # "fix" => \A w \in Worker : stage[w] = "idle"
      /\ results \subseteq Finding
  BY DEF IInv, TypeOK, RunTypeOK, EvalTypeOK, PhaseOK
<1>1. UNCHANGED <<stage, task, fixers_only>>
  BY Zenon DEF Loop, WalltimeExit, StartCycle, JoinEvaluation, JoinFixers, Settle, BeginRevert,
     EndRevert, Publish, ReuseFindings, EvaluateTrack, RevertCommit, DropFinding
<1>2. ASSUME phase' \in {"publish", "done"}, phase # "fix", UNCHANGED <<queue, results>>
      PROVE  CyclesApart'
  <2>1. fixers_only' => results' = {}
    BY <1>1, <1>2, Zenon DEF CyclesApart
  <2> QED
    BY <1>2, <2>1 DEF CyclesApart, InCycle
<1>3. ASSUME UNCHANGED <<cycle, last_cycle, queue, results>>, phase \notin {"cycle", "evaluate", "publish", "done"},
             phase' \notin {"cycle", "evaluate"}, phase' # "fix" => queue = {}, phase # "crashed"
      PROVE  CyclesApart'
  <2>1. CASE fixers_only
    <3>1. fixers_only' /\ results' = {}
      BY <1>1, <1>3, <2>1, Zenon DEF CyclesApart
    <3> QED
      BY <1>3, <3>1 DEF CyclesApart
  <2>2. CASE ~fixers_only
    <3>1. ~fixers_only'
      BY <1>1, <2>2, Zenon
    <3> QED
      BY <1>1, <1>3, <2>2, <3>1 DEF CyclesApart, InCycle
  <2> QED
    BY <2>1, <2>2, Zenon
<1>4. CASE WalltimeExit
  BY <1>2, <1>4 DEF WalltimeExit, Exit
<1>5. CASE StartCycle
  <2>1. ~fixers_only /\ ~fixers_only'
    <3>1. phase = "cycle"
      BY <1>5 DEF StartCycle
    <3>2. ~fixers_only
      BY <3>1 DEF CyclesApart
    <3> QED
      BY <1>1, <3>2, Zenon
  <2>2. /\ phase = "cycle" /\ phase' = "evaluate" /\ cycle' = cycle + 1 /\ results' = {}
        /\ last_cycle' = IF last_cycle <= cycle THEN cycle + 1 ELSE last_cycle
        /\ queue' = queue
    BY <1>5 DEF StartCycle, Goto
  <2>3. queue = {} /\ last_cycle <= cycle + 1
    BY <2>1, <2>2 DEF CyclesApart, InCycle
  <2>4. \A f \in Finding : Tried(f)' => CycleOf[f] <= cycle
    BY <2>1, <2>2 DEF CyclesApart, InCycle
  <2>5. \A f \in Finding : CycleOf[f] \in Nat
    BY BranchAssumption DEF Cycle
  <2>6. \A f \in Finding : Tried(f)' => CycleOf[f] <= cycle' /\ CycleOf[f] < cycle'
    BY <1>0, <2>2, <2>4, <2>5
  <2>7. last_cycle' = cycle'
    BY <1>0, <2>2, <2>3
  <2>8. \A w \in Worker : stage'[w] = "idle"
    BY <1>0, <1>1, <2>2
  <2> QED
    BY <2>1, <2>2, <2>3, <2>6, <2>7, <2>8 DEF CyclesApart
<1>6. ASSUME phase = "evaluate", phase' \in {"evaluate", "fix", "settle"},
             queue' \subseteq queue \cup results, phase' # "fix" => queue' = {},
             UNCHANGED <<cycle, last_cycle>>,
             \A f \in results' : f \in results \/ (f \in Finding /\ CycleOf[f] = cycle)
      PROVE  CyclesApart'
  <2>1. ~fixers_only /\ ~fixers_only'
    BY <1>1, <1>6, Zenon DEF CyclesApart
  <2>2. /\ queue = {} /\ last_cycle = cycle /\ \A f \in results : CycleOf[f] = cycle
        /\ \A f \in Finding : Tried(f) => CycleOf[f] <= cycle /\ CycleOf[f] < cycle
    BY <1>6, <2>1 DEF CyclesApart, InCycle
  <2>3. \A w \in Worker : stage'[w] = "idle"
    BY <1>0, <1>1, <1>6
  <2>4. \A f \in queue' : CycleOf[f] <= cycle
    BY <1>0, <1>6, <2>2
  <2> QED
    BY <1>6, <2>1, <2>2, <2>3, <2>4 DEF CyclesApart
<1>7. CASE \E t \in Track : ReuseFindings(t)
  <2>1. \A f \in results' : f \in results \/ (f \in Finding /\ CycleOf[f] = cycle)
    BY <1>7 DEF ReuseFindings, OfTrack, IInv, TypeOK, EvalTypeOK
  <2>2. queue = {}
    BY <1>7 DEF ReuseFindings, CyclesApart
  <2> QED
    BY <1>6, <1>7, <2>1, <2>2 DEF ReuseFindings
<1>8. CASE \E t \in Track : EvaluateTrack(t)
  <2>1. \A f \in results' : f \in results \/ (f \in Finding /\ CycleOf[f] = cycle)
    BY <1>8 DEF EvaluateTrack, OfTrack
  <2>2. queue = {}
    BY <1>8 DEF EvaluateTrack, CyclesApart
  <2> QED
    BY <1>6, <1>8, <2>1, <2>2 DEF EvaluateTrack
<1>9. CASE JoinEvaluation
  <2>1. CASE phase' = "publish" /\ queue' = queue
    BY <1>2, <1>9, <2>1 DEF JoinEvaluation
  <2>2. CASE /\ queue' = Actionable(results)
             /\ phase' = (IF queue' = {} THEN "settle" ELSE "fix")
    <3>1. /\ phase = "evaluate" /\ UNCHANGED <<cycle, last_cycle, results>>
      BY <1>9 DEF JoinEvaluation
    <3>2. queue' \subseteq results
      BY <2>2 DEF Actionable
    <3>3. phase' \in {"fix", "settle"} /\ (phase' # "fix" => queue' = {})
      BY <2>2
    <3> QED
      BY <1>6, <3>1, <3>2, <3>3
  <2> QED
    BY <1>9, <2>1, <2>2 DEF JoinEvaluation, Exit, Goto
<1>10. CASE JoinFixers \/ BeginRevert \/ EndRevert \/ \E r \in to_revert : RevertCommit(r)
  <2>1. /\ UNCHANGED <<cycle, last_cycle, queue, results>>
        /\ phase \in {"fix", "revert", "reverting"} /\ phase' \in {"settle", "revert", "reverting"}
        /\ phase = "fix" => queue = {}
    BY <1>10 DEF JoinFixers, BeginRevert, EndRevert, RevertCommit, Goto
  <2>2. queue = {}
    BY <2>1 DEF CyclesApart
  <2> QED
    BY <1>3, <2>1, <2>2
<1>11. CASE Settle
  <2>1. CASE phase' = "publish"
    BY <1>2, <1>11, <2>1 DEF Settle
  <2>2. CASE phase' = "cycle" /\ ~fixers_only
    <3>5. ~fixers_only'
      BY <1>1, <2>2, Zenon
    <3>1. phase = "settle" /\ UNCHANGED <<cycle, last_cycle, queue, results>>
      BY <1>11, Zenon DEF Settle
    <3>2. queue = {} /\ last_cycle = cycle
      BY <2>2, <3>1 DEF CyclesApart, InCycle
    <3>3. \A f \in Finding : Tried(f)' => CycleOf[f] <= cycle
      BY <2>2, <3>1 DEF CyclesApart, InCycle
    <3>4. \A w \in Worker : stage'[w] = "idle"
      BY <1>0, <1>1, <3>1
    <3> QED
      BY <1>0, <2>2, <3>1, <3>2, <3>3, <3>4, <3>5 DEF CyclesApart
  <2> QED
    BY <1>11, <2>1, <2>2, Zenon DEF Settle, Exit, Goto
<1>12. CASE Publish
  BY <1>2, <1>12 DEF Publish, Goto
<1>13. ASSUME NEW f \in queue, DropFinding(f)
       PROVE  CyclesApart'
  <2>1. /\ phase = "fix" /\ phase' = "fix" /\ queue' \subseteq queue
        /\ UNCHANGED <<cycle, last_cycle, results>>
    BY <1>13 DEF DropFinding
  <2>2. CASE fixers_only
    <3>1. fixers_only' /\ results' = {}
      BY <1>1, <2>1, <2>2, Zenon DEF CyclesApart
    <3> QED
      BY <2>1, <3>1 DEF CyclesApart
  <2>3. CASE ~fixers_only
    <3>1. ~fixers_only'
      BY <1>1, <2>3, Zenon
    <3> QED
      BY <1>1, <2>1, <2>3, <3>1 DEF CyclesApart, InCycle
  <2> QED
    BY <2>2, <2>3, Zenon
<1> QED
  BY <1>4, <1>5, <1>7, <1>8, <1>9, <1>10, <1>11, <1>12, <1>13, Zenon DEF Loop

LEMMA CyclesApartStep ==
  ASSUME IInv, VerdictsTell, ThreadTells, CyclesApart, [Next]_vars
  PROVE  CyclesApart'
<1>1. ASSUME OtherStep
      PROVE  \A f : (Tried(f)' => Tried(f)) /\ (Tried(f)' => invocation' = invocation)
  BY <1>1, TriedOther
<1>2. CASE \E cleans_up \in BOOLEAN : Crash(cleans_up)
  <2>1. ~fixers_only' /\ phase' = "crashed" /\ queue' = {}
    BY <1>2, Zenon DEF Crash
  <2> QED
    BY <2>1 DEF CyclesApart, InCycle
<1>3. ASSUME NEW only_fixers \in BOOLEAN, Resume(only_fixers)
      PROVE  CyclesApart'
  <2>1. /\ results' = {} /\ UNCHANGED <<last_cycle, stage>> /\ phase \in {"done", "crashed"}
        /\ invocation' = invocation + 1
    BY <1>3 DEF Resume, ForgetRun, poolVars
  <2>2. /\ invocation \in Nat /\ last_cycle \in Nat
        /\ \A w \in Worker : stage'[w] = "idle"
    BY <2>1, BranchAssumption DEF IInv, TypeOK, RunTypeOK, EvalTypeOK, Invocation, PhaseOK
  <2>3. \A f : ~Tried(f)'
    BY <1>1, <1>3, <2>1, <2>2 DEF OtherStep
  <2>4. CASE only_fixers
    <3>1. fixers_only'
      BY <1>3, <2>4, Zenon DEF Resume
    <3>2. phase' = "fix" \/ (phase' = "publish" /\ queue' = {})
      BY <1>3, <2>4 DEF Resume, Exit
    <3> QED
      BY <2>1, <3>1, <3>2 DEF CyclesApart
  <2>5. CASE ~only_fixers
    <3>1. ~fixers_only'
      BY <1>3, <2>5, Zenon DEF Resume
    <3>2. phase' = "cycle" /\ queue' = {} /\ cycle' = ResumeCycle
      BY <1>3, <2>5 DEF Resume
    <3>3. last_cycle <= cycle' + 1
      BY <2>2, <3>2 DEF ResumeCycle
    <3> QED
      BY <2>1, <2>2, <2>3, <3>1, <3>2, <3>3 DEF CyclesApart
  <2> QED
    BY <2>4, <2>5, Zenon
<1>4. CASE RemoveWorktrees \/ UNCHANGED vars
  <2>1. UNCHANGED <<phase, cycle, last_cycle, queue, results, stage, task>>
    BY <1>4, Zenon DEF RemoveWorktrees, vars, loopVars, evalVars, stopVars, poolVars
  <2>2. \A f : Tried(f)' => Tried(f)
    BY <1>1, <1>4 DEF OtherStep
  <2>3. UNCHANGED fixers_only
    BY <1>4, Zenon DEF RemoveWorktrees, vars, metaVars
  <2>4. CASE fixers_only
    <3>1. fixers_only' /\ results' = {} /\ phase' \notin {"cycle", "evaluate"}
      BY <2>1, <2>3, <2>4, Zenon DEF CyclesApart
    <3> QED
      BY <2>1, <3>1 DEF CyclesApart
  <2>5. CASE ~fixers_only
    <3>1. ~fixers_only'
      BY <2>3, <2>5, Zenon
    <3> QED
      BY <2>1, <2>2, <2>5, <3>1 DEF CyclesApart, InCycle
  <2> QED
    BY <2>4, <2>5, Zenon
<1>5. CASE Loop
  BY <1>1, <1>5, CyclesLoop DEF OtherStep
<1> QED
  BY <1>2, <1>3, <1>4, <1>5, CyclesThread, StepKinds DEF OtherStep, IInv

-----------------------------------------------------------------------------
(* RecordsTell.                                                            *)
LEMMA GrowsPrefix ==
  ASSUME GitTypeOK, Grows
  PROVE  /\ \A i \in DOMAIN staging : i \in DOMAIN staging' /\ staging'[i] = staging[i]
         /\ invocation' = invocation => \A r : Backed(r) => Backed(r)'
<1>1. \A i \in DOMAIN staging : i \in DOMAIN staging' /\ staging'[i] = staging[i]
  BY AppendFacts DEF Grows, GitTypeOK
<1> QED
  BY <1>1 DEF Backed

(* The steps that leave the books as they are.                             *)
BookKeeping ==
  \/ BeginRevert \/ \E r \in to_revert : RevertCommit(r)
  \/ \E cleans_up \in BOOLEAN : Crash(cleans_up)
  \/ \E only_fixers \in BOOLEAN : Resume(only_fixers)

LEMMA BooksAlone ==
  ASSUME OtherStep, ~BookKeeping
  PROVE  UNCHANGED <<commits, to_revert, reverted_commits, revert_conflicts, recovered_commits,
                     staging, tree, branch, verdicts, invocation, start_at, stage, task, pending>>
BY Zenon DEF OtherStep, Loop, BookKeeping, WalltimeExit, StartCycle, JoinEvaluation, JoinFixers,
   Settle, EndRevert, Publish, RemoveWorktrees, vars, ReuseFindings, EvaluateTrack, DropFinding,
   gitVars, fileVars, metaVars, bookVars, poolVars

LEMMA RecordsTellStep ==
  ASSUME IInv, IInv', TriedOnce, ThreadTells, RecordsTell, [Next]_vars
  PROVE  RecordsTell'
<1> USE DEF IInv, TypeOK
<1>1. ASSUME NEW w \in Worker, Thread(w)
      PROVE  RecordsTell'
  <2>1. /\ UNCHANGED <<to_revert, reverted_commits, revert_conflicts, invocation>>
        /\ phase = "fix" /\ to_revert = {} /\ Settled' = Settled
    BY <1>1, ThreadFrame DEF RecordsTell, Settled, OfApart
  <2>2. \A r : Backed(r) => Backed(r)'
    BY <1>1, <2>1, ThreadGrows, GrowsPrefix
  <2>3. CASE commits' = commits
    <3>1. Records' = Records
      BY <2>1, <2>3 DEF Records
    <3> QED
      BY <2>1, <2>2, <2>3, <3>1 DEF RecordsTell
  <2>4. ASSUME NEW r \in Record, commits' = commits \cup {r}, r.f = task[w], LetsGo(w),
               Skips(w, r) \/ Lands(w, r)
        PROVE  RecordsTell'
    <3>1. task[w] \in Finding /\ ~Booked(r.f)
      BY <2>4 DEF TriedOnce, LetsGo, WorkerOK, HasLocals
    <3>2. /\ Records' \subseteq Records \cup {r}
          /\ r \in Records' => r.f \in Apart \/ r.c.f \in Apart
      BY <2>1, <2>4 DEF Records, OfApart
    <3>3. r \in Records' => Backed(r)
      <4>1. CASE Skips(w, r)
        BY <2>4, <3>1, <3>2, <4>1, NewestIsOfFinding DEF Skips, Backed
      <4>2. CASE Lands(w, r)
        BY <2>4, <4>2 DEF Lands, Backed, ThreadTells, Merging, WorkerOK, CommitsOwn, Own
      <4> QED
        BY <2>4, <4>1, <4>2
    <3>4. \A s \in Records : s.f # r.f
      BY <3>1 DEF Booked
    <3>5. \A x \in Settled : x.f # r.f
      BY <3>1 DEF Booked
    <3>6. commits' \cap to_revert' = {}
      BY <2>1
    <3> QED
      BY <2>1, <2>2, <3>2, <3>3, <3>4, <3>5, <3>6 DEF RecordsTell, OfApart
  <2> QED
    BY <1>1, <2>3, <2>4, ThreadBooks
<1>2. CASE BeginRevert
  <2>1. /\ UNCHANGED <<staging, invocation, revert_conflicts>> /\ phase' = "reverting"
        /\ to_revert = {}
    BY <1>2 DEF BeginRevert, Goto, gitVars, metaVars, RecordsTell
  <2> DEFINE failed == {r \in commits : ~Verified(r)}
  <2>2. /\ commits' = commits \ failed /\ to_revert' \subseteq failed
        /\ \A x \in reverted_commits' : x \in reverted_commits \/
              \E r \in failed \ to_revert' : x = [f |-> r.f, c |-> r.c]
    BY <1>2 DEF BeginRevert
  <2>3. failed \subseteq commits
    OBVIOUS
  <2> HIDE DEF failed
  <2>4. Records' \subseteq Records /\ Records = OfApart(commits)
    BY <2>1, <2>2, <2>3 DEF Records, OfApart
  <2>5. \A r \in Records' : Backed(r)'
    BY <2>1, <2>4 DEF RecordsTell, Backed
  <2>6. ASSUME NEW r \in Records', NEW x \in Settled'
        PROVE  x.f # r.f
    <3>1. CASE x \in Settled
      BY <2>4, <3>1 DEF RecordsTell
    <3>2. ASSUME NEW s \in failed \ to_revert', x = [f |-> s.f, c |-> s.c]
          PROVE  x.f # r.f
      <4>1. s # r
        BY <2>2, <2>3, <2>4 DEF Records, OfApart
      <4>2. s \in Records
        BY <2>3, <3>2 DEF Settled, Records, OfApart
      <4> QED
        BY <2>4, <3>2, <4>1, <4>2 DEF RecordsTell
    <3>3. x \in reverted_commits' \cup revert_conflicts' /\ (x.f \in Apart \/ x.c.f \in Apart)
      BY DEF Settled, OfApart
    <3> QED
      BY <2>1, <2>2, <3>1, <3>2, <3>3 DEF Settled, OfApart
  <2> QED
    BY <2>1, <2>2, <2>4, <2>5, <2>6 DEF RecordsTell
<1>3. ASSUME NEW r \in to_revert, RevertCommit(r)
      PROVE  RecordsTell'
  <2>1. /\ UNCHANGED <<commits, invocation, phase>> /\ to_revert' = to_revert \ {r}
        /\ phase = "reverting" /\ r \notin commits
        /\ \A x \in Settled' : x \in Settled \/ x = [f |-> r.f, c |-> r.c]
        /\ \A x \in revert_conflicts' : x \in revert_conflicts \/ x = [f |-> r.f, c |-> r.c]
    BY <1>3 DEF RevertCommit, Settled, OfApart, RecordsTell, metaVars, loopVars
  <2>2. Records' = Records \ {r}
    BY <2>1 DEF Records, OfApart
  <2>3. \A s : Backed(s) => Backed(s)'
    BY <1>3, <2>1, RevertGrows, GrowsPrefix
  <2>4. ASSUME r \in Records
        PROVE  RecordsTell'
    <3>1. r.c.f = r.f
      BY <2>4 DEF RecordsTell, Backed
    <3>2. \A s \in Records' : s.f # r.f
      BY <2>2, <2>4 DEF RecordsTell
    <3>3. \A s \in Records', x \in Settled' : x.f # s.f
      BY <2>1, <2>2, <3>2 DEF RecordsTell
    <3>4. \A x \in OfApart(revert_conflicts)' : x.c.f = x.f
      BY <2>1, <3>1 DEF RecordsTell, OfApart
    <3> QED
      BY <2>1, <2>2, <2>3, <3>3, <3>4 DEF RecordsTell
  <2>5. ASSUME r \notin Records
        PROVE  RecordsTell'
    <3>1. r.f \notin Apart /\ r.c.f \notin Apart
      BY <2>5 DEF Records, OfApart
    <3>2. Settled' \subseteq Settled /\ OfApart(revert_conflicts)' \subseteq OfApart(revert_conflicts)
      BY <2>1, <3>1 DEF Settled, OfApart
    <3> QED
      BY <2>1, <2>2, <2>3, <3>2 DEF RecordsTell
  <2> QED
    BY <2>4, <2>5
<1>4. CASE \/ \E cleans_up \in BOOLEAN : Crash(cleans_up)
           \/ \E only_fixers \in BOOLEAN : Resume(only_fixers)
  BY <1>4 DEF Crash, Resume, ForgetRun, RecordsTell, Records, Settled, OfApart
<1>5. CASE OtherStep /\ ~BookKeeping
  <2>1. UNCHANGED <<commits, to_revert, reverted_commits, revert_conflicts, staging, invocation>>
    BY <1>5, BooksAlone
  <2>2. phase = "reverting" /\ to_revert # {} => phase' = phase
    BY <1>5 DEF OtherStep, Loop, BookKeeping, WalltimeExit, StartCycle, JoinEvaluation,
       JoinFixers, Settle, EndRevert, Publish, RemoveWorktrees, vars, ReuseFindings,
       EvaluateTrack, DropFinding, loopVars
  <2>3. to_revert' # {} => phase' = "reverting"
    BY <2>1, <2>2 DEF RecordsTell
  <2> QED
    BY <2>1, <2>3 DEF RecordsTell, Records, Settled, OfApart, Backed
<1> QED
  BY <1>1, <1>2, <1>3, <1>4, <1>5, StepKinds DEF BookKeeping

-----------------------------------------------------------------------------
(* RevertsTell and RevertsPast.                                            *)
LEMMA RevertLands ==
  ASSUME IInv, RecordsTell, RevertsTell, NEW r \in to_revert, RevertCommit(r), r \in Records
  PROVE  /\ r.c \in Commit /\ r.c.f = r.f /\ phase = "reverting" /\ UNCHANGED phase
         /\ \/ /\ \E e \in Entry : staging' = Append(staging, e) /\ e.op = "revert" /\ e.c = r.c
               /\ tree' = tree \ {r.c} /\ UNCHANGED revert_conflicts
            \/ /\ UNCHANGED <<staging, tree>>
               /\ revert_conflicts' = revert_conflicts \cup {[f |-> r.f, c |-> r.c]}
<1>1. r \in Record /\ r \in Records /\ Backed(r) /\ ~Reverted(r.c)
  BY DEF IInv, TypeOK, BookTypeOK, Records, OfApart, RecordsTell, RevertsTell
<1>2. r.c \in Commit /\ r.c.f = r.f /\ r.c.f \in Apart
  BY <1>1 DEF Record, Backed, Records, OfApart
<1>3. Undo(r, staging).op = "revert"
  BY <1>1, <1>2 DEF Undo, Backed, Reverted
<1>4. Undone(r, staging, tree) = tree \ {r.c}
  BY <1>3 DEF Undone
<1>5. Undo(r, staging) \in Entry /\ Undo(r, staging).c = r.c
  BY <1>1, UndoEntry
<1>6. phase = "reverting" /\ UNCHANGED phase
  BY DEF RevertCommit, loopVars
<1> QED
  BY <1>2, <1>3, <1>4, <1>5, <1>6 DEF RevertCommit

(* The revert of a record of other findings changes nothing that the books *)
(* look at: an entry of another finding is appended, if any.               *)
Elsewhere ==
  /\ \/ UNCHANGED staging
     \/ \E e \in Entry : staging' = Append(staging, e) /\ e.c.f \notin Apart
  /\ \A c : c.f \in Apart => (c \in tree' <=> c \in tree)

LEMMA RevertElsewhere ==
  ASSUME IInv, NEW r \in to_revert, RevertCommit(r), r \notin Records
  PROVE  /\ Elsewhere /\ phase = "reverting"
         /\ r.f \notin Apart /\ r.c.f \notin Apart
         /\ Records' = Records /\ OfApart(to_revert)' = OfApart(to_revert)
         /\ OfApart(revert_conflicts)' = OfApart(revert_conflicts)
         /\ UNCHANGED <<phase, commits, recovered_commits, invocation, last_cycle, results,
                        start_at, stage, task, pending>>
<1> USE DEF IInv, TypeOK
<1>1. r \in Record /\ r.f \notin Apart /\ r.c.f \notin Apart /\ OnStaging(r.c)
  BY DEF BookTypeOK, Records, OfApart, RecordsOnStaging
<1>2. UNCHANGED <<phase, commits, recovered_commits, invocation, last_cycle, results, start_at,
                  stage, task, pending>> /\ to_revert' = to_revert \ {r} /\ phase = "reverting"
  BY DEF RevertCommit, metaVars, loopVars, evalVars, poolVars
<1>3. Undo(r, staging) \in Entry /\ Undo(r, staging).c = r.c
  BY <1>1, UndoEntry
<1>4. Elsewhere
  BY <1>1, <1>3 DEF Elsewhere, RevertCommit, Undone
<1>5. \A x \in revert_conflicts' : x \in revert_conflicts \/ x = [f |-> r.f, c |-> r.c]
  BY DEF RevertCommit
<1>6. revert_conflicts \subseteq revert_conflicts'
  BY DEF RevertCommit
<1>7. OfApart(revert_conflicts)' = OfApart(revert_conflicts)
  BY <1>1, <1>5, <1>6 DEF OfApart
<1> QED
  BY <1>1, <1>2, <1>4, <1>7 DEF Records, OfApart

(* What stays as it was in such a step.                                    *)
LEMMA ElsewhereSame ==
  ASSUME GitTypeOK, Elsewhere
  PROVE  /\ \A c : Reverted(c)' <=> Reverted(c)
         /\ \A c : c.f \in Apart => (Reached(c)' <=> Reached(c))
         /\ \A i \in DOMAIN staging : i \in DOMAIN staging' /\ staging'[i] = staging[i]
         /\ \A i \in DOMAIN staging' : staging'[i].c.f \in Apart => i \in DOMAIN staging
<1>1. CASE UNCHANGED staging
  BY <1>1 DEF Reverted, Reached
<1>2. ASSUME NEW e \in Entry, staging' = Append(staging, e), e.c.f \notin Apart
      PROVE  /\ \A c : Reverted(c)' <=> Reverted(c)
             /\ \A c : c.f \in Apart => (Reached(c)' <=> Reached(c))
             /\ \A i \in DOMAIN staging : i \in DOMAIN staging' /\ staging'[i] = staging[i]
             /\ \A i \in DOMAIN staging' : staging'[i].c.f \in Apart => i \in DOMAIN staging
  <2>1. \E last : /\ DOMAIN staging' = DOMAIN staging \cup {last}
                  /\ \A i \in DOMAIN staging : staging'[i] = staging[i]
                  /\ staging'[last] = e
    BY <1>2, AppendFacts DEF GitTypeOK
  <2> QED
    BY <1>2, <2>1 DEF Reverted, Reached
<1> QED
  BY <1>1, <1>2 DEF Elsewhere

LEMMA AppendReverted ==
  ASSUME GitTypeOK, NEW e \in Entry, staging' = Append(staging, e), NEW c, Reverted(c)'
  PROVE  Reverted(c) \/ (e.op = "revert" /\ c = e.c)
BY AppendFacts DEF GitTypeOK, Reverted

LEMMA ThreadReverts ==
  ASSUME TypeOK, NEW w \in Worker, WorkerOK(w), Thread(w), NEW c, Reverted(c)'
  PROVE  Reverted(c)
<1>1. ASSUME NEW d \in Commit, Picks(w, d)
      PROVE  Reverted(c)
  <2>1. Pick(d, tree) \in Entry /\ Pick(d, tree).op = "pick"
    BY PickEntry DEF Pick
  <2> QED
    BY <1>1, <2>1, AppendReverted DEF Picks, TypeOK
<1> QED
  BY <1>1, ThreadPicks DEF Reverted

LEMMA RevertedHeld ==
  ASSUME NEW c, Reverted(c)
  PROVE  Held(c) /\ OnStaging(c)
BY DEF Reverted, Held, OnStaging

(* The resume checks let through a finding of which nothing was reverted.  *)
LEMMA PassedUnreverted ==
  ASSUME IInv, TriedOnce, NEW w \in Worker, stage[w] = "assigned", Thread(w), Keeps(w)
  PROVE  Unreverted(task[w])
<1>1. ~CommitExists(staging, task[w])
  <2>1. SkipLanded(w) \/ SkipConflicted(w) \/ PassResumeChecks(w)
    BY DEF Thread, TakeFinding, ScanOrphans, ResetWorker, RecoverOrphan, RunFixer, RollBackLeak,
       CommitFix, AcceptBypass, CommitMarker, NoChange, MergeToStaging, RecordCommit,
       PersistConflict
  <2>2. Release(w) => stage'[w] = "idle"
    BY DEF Release, IInv, TypeOK, PoolTypeOK
  <2> QED
    BY <2>1, <2>2 DEF SkipLanded, SkipConflicted, PassResumeChecks, Keeps
<1>2. ASSUME NEW c \in Commit, Reverted(c), c.f = task[w], c.tagged
      PROVE  FALSE
  BY <1>1, <1>2 DEF Reverted, CommitExists, NamesFinding
<1>3. ASSUME NEW c \in Commit, Reverted(c), c.f = task[w], c.n = invocation
      PROVE  FALSE
  BY <1>3, RevertedHeld DEF TriedOnce, Running, Tried
<1> QED
  BY <1>2, <1>3 DEF Unreverted

LEMMA RevertsTellThread ==
  ASSUME IInv, TriedOnce, RecordsTell, RevertsTell, NEW w \in Worker, Thread(w)
  PROVE  RevertsTell'
<1> USE DEF IInv, TypeOK
<1>1. phase = "fix" /\ UNCHANGED <<to_revert, invocation>> /\ to_revert = {}
  BY ThreadFrame DEF RecordsTell
<1>2. \A f : Unreverted(f) => Unreverted(f)'
  BY <1>1, ThreadReverts DEF Unreverted
<1>3. \A v \in Worker \ {w} : stage'[v] = stage[v] /\ task'[v] = task[v]
  BY SameOthers DEF SameWorker, GitTypeOK
<1>4. stage'[w] \notin {"idle", "assigned"} => Unreverted(task'[w])
  <2>1. CASE Keeps(w)
    <3>1. task'[w] = task[w] /\ stage[w] # "idle"
      BY <2>1 DEF Keeps
    <3>2. Unreverted(task[w])
      BY <2>1, <3>1, PassedUnreverted DEF RevertsTell
    <3> QED
      BY <3>1, <3>2
  <2> QED
    BY <2>1, ThreadTask DEF Takes, LetsGo
<1>5. \A v \in Worker : stage'[v] \notin {"idle", "assigned"} => Unreverted(task'[v])
  BY <1>3, <1>4 DEF RevertsTell
<1>6. \A v \in Worker : (stage[v] \notin {"idle", "assigned"} => Unreverted(task[v]))'
  BY <1>2, <1>5
<1>7. ASSUME NEW r \in commits', r.c.n = invocation
      PROVE  Unreverted(r.f)
  <2>1. CASE r \in commits
    BY <1>7, <2>1 DEF RevertsTell
  <2>2. CASE r.f = task[w] /\ Skips(w, r)
    <3>1. task[w] \in Finding
      BY <2>2 DEF Skips, WorkerOK, HasLocals
    <3>2. CASE task[w] \in Apart
      <4>1. OnStaging(r.c) /\ r.c.f = task[w] /\ r.c \in Commit
        BY <2>2, <3>1, <3>2, NewestIsOfFinding, EntryAt DEF Skips, OnStaging
      <4> QED
        BY <1>7, <2>2, <3>2, <4>1 DEF Skips, TriedOnce, Tried, Held, Running
    <3>3. CASE task[w] \notin Apart
      BY <2>2, <3>3 DEF Unreverted, Reverted
    <3> QED
      BY <3>2, <3>3
  <2>3. CASE r.f = task[w] /\ Lands(w, r)
    BY <2>3 DEF Lands, RevertsTell
  <2> QED
    BY <2>1, <2>2, <2>3, ThreadBooks
<1> QED
  BY <1>1, <1>2, <1>6, <1>7 DEF RevertsTell, OfApart

LEMMA RevertsTellStep ==
  ASSUME IInv, IInv', TriedOnce, RecordsTell, RevertsTell, [Next]_vars
  PROVE  RevertsTell'
<1> USE DEF IInv, TypeOK
<1>1. CASE BeginRevert
  <2>1. /\ \A w \in Worker : stage'[w] = "idle"
        /\ UNCHANGED <<staging, invocation>> /\ commits' \subseteq commits
        /\ to_revert' \subseteq commits
        /\ \A r \in to_revert' : IdOf[r.f] \notin RevertedIds(staging)
    BY <1>1 DEF BeginRevert, PhaseOK, gitVars, metaVars, poolVars
  <2>2. \A f : Unreverted(f) => Unreverted(f)'
    BY <2>1 DEF Unreverted, Reverted
  <2>3. ASSUME NEW r \in to_revert', r \in OfApart(commits)
        PROVE  ~Reverted(r.c) /\ \A c \in Commit : Reverted(c) /\ c.f = r.f => ~c.tagged
    <3>1. \A c \in Commit : Reverted(c) /\ c.f = r.f => ~c.tagged
      BY <2>1 DEF Reverted, RevertedIds
    <3>2. r \in commits /\ r.c \in Commit /\ Backed(r)
      BY <2>1, <2>3 DEF RecordsTell, Records, OfApart, BookTypeOK, Record
    <3>3. r.c.tagged \/ r.c.n = invocation
      BY <3>2 DEF Backed
    <3>4. r.c.f = r.f
      BY <3>2 DEF Backed
    <3>5. ~Reverted(r.c)
      BY <3>1, <3>2, <3>3, <3>4 DEF RevertsTell, Unreverted
    <3> QED
      BY <3>1, <3>5
  <2>4. \A c : Reverted(c)' <=> Reverted(c)
    BY <2>1 DEF Reverted
  <2> QED
    BY <2>1, <2>2, <2>3, <2>4 DEF RevertsTell, OfApart
<1>2. ASSUME NEW r \in to_revert, RevertCommit(r), r \in Records
      PROVE  RevertsTell'
  <2>1. /\ \A w \in Worker : stage'[w] = "idle"
        /\ UNCHANGED <<invocation, commits>> /\ to_revert' = to_revert \ {r}
    BY <1>2 DEF RevertCommit, PhaseOK, metaVars, poolVars
  <2>2. r.c \in Commit /\ r.c.f = r.f /\ r \in Records
    BY <1>2, RevertLands
  <2>3. \A c : Reverted(c)' => Reverted(c) \/ c = r.c
    <3>1. CASE UNCHANGED staging
      BY <3>1 DEF Reverted
    <3>2. ASSUME NEW e \in Entry, staging' = Append(staging, e), e.c = r.c
          PROVE  \A c : Reverted(c)' => Reverted(c) \/ c = r.c
      BY <3>2, AppendReverted
    <3> QED
      BY <1>2, <3>1, <3>2, RevertLands
  <2>4. \A s \in OfApart(commits' \cup to_revert') : s.f # r.f /\ s.c.f = s.f /\ s \in Records
    BY <2>1, <2>2 DEF RecordsTell, Records, OfApart, Backed
  <2>5. ASSUME NEW s \in commits', s.c.n = invocation, NEW c \in Commit, Reverted(c)', c.f = s.f
        PROVE  ~c.tagged /\ c.n # invocation
    <3>1. Reverted(c)
      <4>1. s \in OfApart(commits' \cup to_revert')
        BY <2>5 DEF Reverted, OfApart
      <4> QED
        BY <2>2, <2>3, <2>4, <2>5, <4>1
    <3> QED
      BY <2>1, <2>5, <3>1 DEF RevertsTell, Unreverted
  <2>6. ASSUME NEW s \in OfApart(to_revert')
        PROVE  ~Reverted(s.c)' /\ \A c \in Commit : Reverted(c)' /\ c.f = s.f => ~c.tagged
    <3>1. s \in OfApart(to_revert) /\ s.f # r.f /\ s.c # r.c
      BY <2>1, <2>2, <2>4 DEF OfApart
    <3>2. ~Reverted(s.c) /\ \A c \in Commit : Reverted(c) /\ c.f = s.f => ~c.tagged
      BY <3>1 DEF RevertsTell
    <3> QED
      BY <2>2, <2>3, <3>1, <3>2
  <2>7. \A s \in OfApart(to_revert)' :
          ~Reverted(s.c)' /\ \A c \in Commit : Reverted(c)' /\ c.f = s.f => ~c.tagged
    BY <2>6 DEF OfApart
  <2> QED
    BY <2>1, <2>5, <2>7 DEF RevertsTell, Unreverted
<1>6. ASSUME NEW r \in to_revert, RevertCommit(r), r \notin Records
      PROVE  RevertsTell'
  <2>1. \A c : Reverted(c)' <=> Reverted(c)
    BY <1>6, RevertElsewhere, ElsewhereSame
  <2>2. \A f : Unreverted(f)' <=> Unreverted(f)
    BY <1>6, <2>1, RevertElsewhere DEF Unreverted
  <2> QED
    BY <1>6, <2>1, <2>2, RevertElsewhere DEF RevertsTell
<1>3. CASE \E cleans_up \in BOOLEAN : Crash(cleans_up)
  BY <1>3 DEF Crash, ForgetRun, Every, RevertsTell, OfApart
<1>4. CASE \E only_fixers \in BOOLEAN : Resume(only_fixers)
  BY <1>4 DEF Resume, ForgetRun, PhaseOK, poolVars, RevertsTell, OfApart
<1>5. CASE OtherStep /\ ~BookKeeping
  BY <1>5, BooksAlone DEF RevertsTell, Unreverted, Reverted, OfApart
<1> QED
  BY <1>1, <1>2, <1>3, <1>4, <1>5, <1>6, RevertsTellThread, StepKinds DEF BookKeeping

RevertedBefore ==
  phase \in {"fix", "revert"} =>
    \A c \in Commit : Reverted(c) /\ c.n = invocation => ~fixers_only /\ CycleOf[c.f] < cycle

PickedLater ==
  \A i, j \in DOMAIN staging :
    /\ i < j /\ staging[i].op = "revert" /\ staging[j].op = "pick"
    /\ staging[i].c = staging[j].c /\ staging[i].c.f \in Apart
    => CycleOf[staging[i].c.f] < last_cycle

LEMMA RevertsPastParts == RevertsPast <=> RevertedBefore /\ PickedLater
BY Zenon DEF RevertsPast, RevertedBefore, PickedLater

LEMMA RevertedBeforeStep ==
  ASSUME IInv, VerdictsTell, CyclesApart, RecordsTell, RevertsTell, RevertedBefore, [Next]_vars
  PROVE  RevertedBefore'
<1> USE DEF IInv, TypeOK
<1>1. ASSUME UNCHANGED <<invocation, cycle, fixers_only>>, phase \in {"fix", "revert"},
             \A c \in Commit : Reverted(c)' => Reverted(c)
      PROVE  RevertedBefore'
  <2>1. ASSUME NEW c \in Commit, Reverted(c)', c.n = invocation'
        PROVE  ~fixers_only' /\ CycleOf[c.f] < cycle'
    <3>1. ~fixers_only /\ CycleOf[c.f] < cycle
      BY <1>1, <2>1 DEF RevertedBefore
    <3> QED
      BY <1>1, <3>1
  <2> QED
    BY <2>1 DEF RevertedBefore
<1>2. ASSUME NEW w \in Worker, Thread(w)
      PROVE  RevertedBefore'
  BY <1>1, <1>2, ThreadFrame, ThreadReverts
<1>3. CASE JoinEvaluation
  <2>1. phase = "evaluate" /\ UNCHANGED <<invocation, cycle, fixers_only, staging>>
    BY <1>3, Zenon DEF JoinEvaluation, gitVars, metaVars
  <2>2. ~fixers_only
    BY <2>1 DEF CyclesApart
  <2>3. ASSUME NEW c \in Commit, Reverted(c), c.n = invocation
        PROVE  CycleOf[c.f] < cycle
    <3>1. Tried(c.f) /\ c.f \in Finding
      BY <2>3, RevertedHeld, CommitFields DEF Tried
    <3> QED
      BY <2>1, <2>2, <3>1 DEF CyclesApart, InCycle
  <2>4. ~fixers_only'
    BY <2>1, <2>2, Zenon
  <2>5. \A c : Reverted(c)' <=> Reverted(c)
    BY <2>1 DEF Reverted
  <2> QED
    BY <2>1, <2>3, <2>4, <2>5 DEF RevertedBefore
<1>4. CASE JoinFixers \/ (\E f \in queue : DropFinding(f)) \/ RemoveWorktrees \/ UNCHANGED vars
  <2>1. UNCHANGED <<invocation, cycle, fixers_only, staging>>
    BY <1>4, Zenon DEF JoinFixers, DropFinding, RemoveWorktrees, vars, gitVars, metaVars, loopVars
  <2>2. phase' = phase \/ phase = "fix"
    BY <1>4, Zenon DEF JoinFixers, DropFinding, RemoveWorktrees, vars, loopVars
  <2>3. \A c : Reverted(c)' <=> Reverted(c)
    BY <2>1 DEF Reverted
  <2>4. phase' \in {"fix", "revert"} => phase \in {"fix", "revert"}
    BY <2>2
  <2>5. CASE phase' \notin {"fix", "revert"}
    BY <2>5 DEF RevertedBefore
  <2> QED
    BY <1>1, <2>1, <2>3, <2>4, <2>5
<1>5. CASE \E only_fixers \in BOOLEAN : Resume(only_fixers)
  <2>1. invocation' = invocation + 1 /\ UNCHANGED staging /\ invocation \in Nat
    BY <1>5, BranchAssumption DEF Resume, RunTypeOK, Invocation
  <2>2. ASSUME NEW c \in Commit, Reverted(c)'
        PROVE  c.n # invocation'
    <3>1. Held(c)
      BY <2>1, <2>2, RevertedHeld DEF Reverted
    <3> QED
      BY <2>1, <3>1, CommitFields DEF VerdictsTell
  <2> QED
    BY <2>2 DEF RevertedBefore
<1>6. CASE \/ WalltimeExit \/ StartCycle \/ Settle \/ BeginRevert \/ EndRevert \/ Publish
           \/ \E t \in Track : ReuseFindings(t) \/ EvaluateTrack(t)
           \/ \E r \in to_revert : RevertCommit(r)
           \/ \E cleans_up \in BOOLEAN : Crash(cleans_up)
  <2>1. phase' \notin {"fix", "revert"}
    BY <1>6 DEF WalltimeExit, StartCycle, Settle, BeginRevert, EndRevert, Publish, ReuseFindings,
       EvaluateTrack, RevertCommit, Crash, Exit, Goto, loopVars
  <2> QED
    BY <2>1 DEF RevertedBefore
<1> QED
  BY <1>2, <1>3, <1>4, <1>5, <1>6, StepKinds, Zenon DEF OtherStep, Loop

(* A commit is picked again only by the attempt that made it, and that is  *)
(* of a cycle not before the newest.                                       *)
LEMMA PickedLaterStep ==
  ASSUME IInv, CyclesApart, RecordsTell, RevertsTell, RevertedBefore, PickedLater, [Next]_vars
  PROVE  PickedLater'
<1> USE DEF IInv, TypeOK
<1>1. ASSUME NEW w \in Worker, Thread(w)
      PROVE  PickedLater'
  <2>1. UNCHANGED last_cycle /\ phase = "fix"
    BY <1>1, ThreadFrame
  <2>2. ASSUME NEW d \in Commit, Picks(w, d)
        PROVE  PickedLater'
    <3> DEFINE last == Len(staging) + 1
    <3>1. /\ DOMAIN staging' = DOMAIN staging \cup {last}
          /\ \A i \in DOMAIN staging : staging'[i] = staging[i] /\ i < last
          /\ staging'[last] = Pick(d, tree)
      BY <2>2, PickEntry, AppendFacts DEF Picks, GitTypeOK
    <3>2. Pick(d, tree).c = d /\ d.n = invocation
      BY <2>2 DEF Pick, Picks, Own
    <3> HIDE DEF last
    <3>3. ASSUME Reverted(d)
          PROVE  CycleOf[d.f] < last_cycle
      <4>1. ~fixers_only /\ CycleOf[d.f] < cycle
        BY <2>1, <3>2, <3>3 DEF RevertedBefore
      <4>2. last_cycle = cycle
        BY <2>1, <4>1 DEF CyclesApart, InCycle
      <4> QED
        BY <4>1, <4>2
    <3>4. ASSUME NEW i \in DOMAIN staging', NEW j \in DOMAIN staging', i < j,
                 staging'[i].op = "revert", staging'[j].op = "pick",
                 staging'[i].c = staging'[j].c, staging'[i].c.f \in Apart
          PROVE  CycleOf[staging'[i].c.f] < last_cycle
      <4>0. last \in Nat /\ \A k \in DOMAIN staging : k \in Nat
        BY DEF last, GitTypeOK
      <4>1. i \in DOMAIN staging
        BY <3>1, <3>4, <4>0
      <4>2. CASE j = last
        BY <3>1, <3>2, <3>3, <3>4, <4>1, <4>2 DEF Reverted
      <4>3. CASE j \in DOMAIN staging
        BY <3>1, <3>4, <4>1, <4>3 DEF PickedLater
      <4> QED
        BY <3>1, <4>2, <4>3
    <3> QED
      BY <2>1, <3>4 DEF PickedLater
  <2>3. CASE UNCHANGED staging
    BY <2>1, <2>3 DEF PickedLater
  <2> QED
    BY <1>1, <2>2, <2>3, ThreadPicks
<1>2. ASSUME NEW r \in to_revert, RevertCommit(r), r \in Records
      PROVE  PickedLater'
  <2>1. UNCHANGED last_cycle
    BY <1>2 DEF RevertCommit, evalVars
  <2>2. ASSUME NEW e \in Entry, staging' = Append(staging, e), e.op = "revert"
        PROVE  PickedLater'
    <3> DEFINE last == Len(staging) + 1
    <3>1. /\ DOMAIN staging' = DOMAIN staging \cup {last}
          /\ \A i \in DOMAIN staging : staging'[i] = staging[i] /\ i < last
          /\ staging'[last] = e /\ last \in Nat
      BY <2>2, AppendFacts DEF GitTypeOK
    <3> HIDE DEF last
    <3>2. ASSUME NEW i \in DOMAIN staging', NEW j \in DOMAIN staging', i < j,
                 staging'[i].op = "revert", staging'[j].op = "pick"
          PROVE  i \in DOMAIN staging /\ j \in DOMAIN staging
      BY <2>2, <3>1, <3>2
    <3> QED
      BY <2>1, <3>1, <3>2 DEF PickedLater
  <2>3. CASE UNCHANGED staging
    BY <2>1, <2>3 DEF PickedLater
  <2> QED
    BY <1>2, <2>2, <2>3, RevertLands
<1>5. ASSUME NEW r \in to_revert, RevertCommit(r), r \notin Records
      PROVE  PickedLater'
  <2>1. /\ UNCHANGED last_cycle
        /\ \A i \in DOMAIN staging : staging'[i] = staging[i]
        /\ \A i \in DOMAIN staging' : staging'[i].c.f \in Apart => i \in DOMAIN staging
    BY <1>5, RevertElsewhere, ElsewhereSame
  <2> QED
    BY <2>1 DEF PickedLater
<1>3. ASSUME UNCHANGED staging, last_cycle <= last_cycle'
      PROVE  PickedLater'
  <2>1. ASSUME NEW i \in DOMAIN staging, CycleOf[staging[i].c.f] < last_cycle
        PROVE  CycleOf[staging[i].c.f] < last_cycle'
    <3>1. CycleOf[staging[i].c.f] \in Nat
      BY EntryAt, BranchAssumption DEF Cycle
    <3>2. last_cycle \in Nat /\ last_cycle' \in Nat
      <4>1. TypeOK'
        BY InvStep
      <4> QED
        BY <4>1 DEF EvalTypeOK
    <3> QED
      BY <1>3, <2>1, <3>1, <3>2
  <2> QED
    BY <1>3, <2>1 DEF PickedLater
<1>4. CASE OtherStep /\ ~\E r \in to_revert : RevertCommit(r)
  <2>1. UNCHANGED staging
    BY <1>4, LoopKinds DEF OtherStep, Quiet, RemoveWorktrees, vars, gitVars, Crash, Resume
  <2>2. last_cycle' = last_cycle \/ StartCycle
    BY <1>4, Zenon DEF OtherStep, Loop, WalltimeExit, JoinEvaluation, JoinFixers, Settle,
       BeginRevert, EndRevert, Publish, ReuseFindings, EvaluateTrack, RevertCommit, DropFinding,
       RemoveWorktrees, vars, Crash, Resume, evalVars
  <2>3. last_cycle \in Nat /\ cycle \in Nat
    BY DEF EvalTypeOK, RunTypeOK
  <2>4. last_cycle <= last_cycle'
    BY <2>2, <2>3 DEF StartCycle
  <2> QED
    BY <1>3, <2>1, <2>4
<1> QED
  BY <1>1, <1>2, <1>4, <1>5, StepKinds

LEMMA RevertsPastStep ==
  ASSUME IInv, VerdictsTell, CyclesApart, RecordsTell, RevertsTell, RevertsPast, [Next]_vars
  PROVE  RevertsPast'
<1>1. RevertedBefore /\ PickedLater
  BY RevertsPastParts
<1>2. RevertedBefore' /\ PickedLater'
  BY <1>1, RevertedBeforeStep, PickedLaterStep
<1> QED
  BY <1>2, Zenon DEF RevertsPast, RevertedBefore, PickedLater

-----------------------------------------------------------------------------
(* TreeTells.                                                              *)
LEMMA AppendedEntries ==
  ASSUME GitTypeOK, NEW e \in Entry, staging' = Append(staging, e)
  PROVE  \E last \in Nat :
           /\ DOMAIN staging' = DOMAIN staging \cup {last}
           /\ \A i \in DOMAIN staging : staging'[i] = staging[i] /\ i < last
           /\ staging'[last] = e
<1>1. Len(staging) + 1 \in Nat /\ \A i \in DOMAIN staging : i < Len(staging) + 1
  BY DEF GitTypeOK
<1> QED
  BY <1>1, AppendFacts DEF GitTypeOK

LEMMA StagingStep ==
  ASSUME IInv, RecordsTell, RevertsTell, [Next]_vars
  PROVE  \/ UNCHANGED <<staging, tree>>
         \/ \E w \in Worker, d \in Commit : Thread(w) /\ Picks(w, d)
         \/ Elsewhere
         \/ \E r \in to_revert, e \in Entry :
              /\ RevertCommit(r) /\ r \in Records
              /\ staging' = Append(staging, e) /\ e.op = "revert" /\ e.c = r.c
              /\ tree' = tree \ {r.c}
<1>1. ASSUME NEW w \in Worker, Thread(w)
      PROVE  UNCHANGED <<staging, tree>> \/ \E d \in Commit : Picks(w, d)
  BY <1>1, ThreadPicks DEF IInv
<1>2. ASSUME NEW r \in to_revert, RevertCommit(r)
      PROVE  \/ UNCHANGED <<staging, tree>>
             \/ Elsewhere
             \/ /\ r \in Records
                /\ \E e \in Entry : /\ staging' = Append(staging, e) /\ e.op = "revert" /\ e.c = r.c
                                    /\ tree' = tree \ {r.c}
  BY <1>2, RevertLands, RevertElsewhere
<1>3. OtherStep /\ ~(\E r \in to_revert : RevertCommit(r)) => UNCHANGED <<staging, tree>>
  BY Zenon DEF OtherStep, Loop, WalltimeExit, StartCycle, JoinEvaluation, JoinFixers, Settle,
     BeginRevert, EndRevert, Publish, ReuseFindings, EvaluateTrack, DropFinding,
     RemoveWorktrees, vars, Crash, Resume, gitVars
<1> QED
  BY <1>1, <1>2, <1>3, StepKinds

LEMMA TreeTellsStep ==
  ASSUME IInv, RecordsTell, RevertsTell, TreeTells, [Next]_vars
  PROVE  TreeTells'
<1> USE DEF IInv, TypeOK
<1>1. CASE UNCHANGED <<staging, tree>>
  BY <1>1 DEF TreeTells, Reached, Reverted
<1>2. ASSUME NEW w \in Worker, NEW d \in Commit, Picks(w, d)
      PROVE  TreeTells'
  <2> DEFINE e == Pick(d, tree)
  <2>1. e \in Entry /\ e.op = "pick" /\ e.c = d
    BY PickEntry DEF Pick
  <2>2. /\ staging' = Append(staging, e)
        /\ tree' = IF d.kind = "marker" THEN tree ELSE tree \cup {d}
    BY <1>2 DEF Picks, PickedTree
  <2> HIDE DEF e
  <2>3. PICK last \in Nat :
          /\ DOMAIN staging' = DOMAIN staging \cup {last}
          /\ \A i \in DOMAIN staging : staging'[i] = staging[i] /\ i < last
          /\ staging'[last] = e
    BY <2>1, <2>2, AppendedEntries
  <2>4. \A c : /\ Reached(c)' <=> Reached(c) \/ c = d
               /\ Reverted(c)' <=> Reverted(c)
    BY <2>1, <2>3 DEF Reached, Reverted
  <2>5. \A c \in tree' : c.f \in Apart => c.kind # "marker" /\ Reached(c)'
    BY <2>2, <2>4 DEF TreeTells
  <2>6. \A c \in Commit :
          c.f \in Apart /\ Reached(c)' /\ ~Reverted(c)' /\ c.kind # "marker" => c \in tree'
    BY <2>2, <2>4 DEF TreeTells
  <2>7. ASSUME NEW i \in DOMAIN staging', staging'[i].op = "revert", staging'[i].c \in tree',
               staging'[i].c.f \in Apart
        PROVE  \E j \in DOMAIN staging' :
                 j > i /\ staging'[j].op = "pick" /\ staging'[j].c = staging'[i].c
    <3>1. i \in DOMAIN staging /\ i \in Nat /\ i < last
      BY <2>1, <2>3, <2>7 DEF GitTypeOK
    <3>2. CASE staging[i].c = d
      BY <2>1, <2>3, <3>1, <3>2
    <3>3. CASE staging[i].c \in tree
      <4>1. PICK j \in DOMAIN staging :
              j > i /\ staging[j].op = "pick" /\ staging[j].c = staging[i].c
        BY <2>3, <2>7, <3>1, <3>3 DEF TreeTells
      <4> QED
        BY <2>3, <3>1, <4>1
    <3> QED
      BY <2>2, <2>3, <2>7, <3>1, <3>2, <3>3
  <2> QED
    BY <2>5, <2>6, <2>7 DEF TreeTells
<1>3. ASSUME NEW r \in to_revert, NEW e \in Entry, staging' = Append(staging, e),
             e.op = "revert", e.c = r.c, tree' = tree \ {r.c}
      PROVE  TreeTells'
  <2>1. PICK last \in Nat :
          /\ DOMAIN staging' = DOMAIN staging \cup {last}
          /\ \A i \in DOMAIN staging : staging'[i] = staging[i] /\ i < last
          /\ staging'[last] = e
    BY <1>3, AppendedEntries
  <2>2. \A c : /\ Reached(c)' <=> Reached(c)
               /\ Reverted(c)' <=> Reverted(c) \/ (c = r.c /\ c.f \in Apart)
    BY <1>3, <2>1 DEF Reached, Reverted
  <2>3. ASSUME NEW i \in DOMAIN staging', staging'[i].op = "revert", staging'[i].c \in tree',
               staging'[i].c.f \in Apart
        PROVE  \E j \in DOMAIN staging' :
                 j > i /\ staging'[j].op = "pick" /\ staging'[j].c = staging'[i].c
    <3>1. i \in DOMAIN staging
      BY <1>3, <2>1, <2>3
    <3>2. PICK j \in DOMAIN staging :
            j > i /\ staging[j].op = "pick" /\ staging[j].c = staging[i].c
      BY <1>3, <2>1, <2>3, <3>1 DEF TreeTells
    <3> QED
      BY <2>1, <3>1, <3>2
  <2> QED
    BY <1>3, <2>2, <2>3 DEF TreeTells
<1>4. CASE Elsewhere
  <2>1. /\ \A c : Reverted(c)' <=> Reverted(c)
        /\ \A c : c.f \in Apart => (Reached(c)' <=> Reached(c)) /\ (c \in tree' <=> c \in tree)
        /\ \A i \in DOMAIN staging : i \in DOMAIN staging' /\ staging'[i] = staging[i]
        /\ \A i \in DOMAIN staging' : staging'[i].c.f \in Apart => i \in DOMAIN staging
    BY <1>4, ElsewhereSame DEF Elsewhere
  <2>2. \A c \in tree' : c.f \in Apart => c.kind # "marker" /\ Reached(c)'
    BY <2>1 DEF TreeTells
  <2>3. \A c \in Commit \ tree' :
          c.f \in Apart /\ c.kind # "marker" /\ Reached(c)' => Reverted(c)'
    BY <2>1 DEF TreeTells
  <2>4. ASSUME NEW i \in DOMAIN staging', staging'[i].op = "revert", staging'[i].c \in tree',
               staging'[i].c.f \in Apart
        PROVE  \E j \in DOMAIN staging' :
                 j > i /\ staging'[j].op = "pick" /\ staging'[j].c = staging'[i].c
    <3>1. i \in DOMAIN staging /\ staging[i] = staging'[i] /\ staging[i].c \in tree
      BY <2>1, <2>4
    <3>2. PICK j \in DOMAIN staging :
            j > i /\ staging[j].op = "pick" /\ staging[j].c = staging[i].c
      BY <2>4, <3>1 DEF TreeTells
    <3> QED
      BY <2>1, <3>1, <3>2
  <2> QED
    BY <2>2, <2>3, <2>4 DEF TreeTells
<1> QED
  BY <1>1, <1>2, <1>3, <1>4, StagingStep

-----------------------------------------------------------------------------
(* RevertConflictsInForce.                                                 *)
LEMMA ConflictsStep ==
  ASSUME IInv, RecordsTell, RevertsTell, TreeTells, RevertConflictsInForce, [Next]_vars
  PROVE  RevertConflictsInForce'
<1> USE DEF IInv, TypeOK
<1>1. ASSUME revert_conflicts' \subseteq revert_conflicts, tree \subseteq tree'
      PROVE  RevertConflictsInForce'
  BY <1>1 DEF RevertConflictsInForce
<1>2. ASSUME NEW w \in Worker, Thread(w)
      PROVE  RevertConflictsInForce'
  <2>1. tree \subseteq tree'
    BY <1>2, ThreadPicks DEF Picks, PickedTree
  <2> QED
    BY <1>1, <1>2, <2>1, ThreadFrame
<1>7. ASSUME NEW r \in to_revert, RevertCommit(r), r \notin Records
      PROVE  RevertConflictsInForce'
  <2>1. ASSUME NEW x \in revert_conflicts', x.f \in Apart
        PROVE  x.c \in tree' \/ x.c.kind = "marker"
    <3>1. x \in OfApart(revert_conflicts)
      BY <1>7, <2>1, RevertElsewhere DEF OfApart
    <3>2. x.c.f = x.f
      BY <3>1 DEF RecordsTell
    <3>3. x.c \in tree \/ x.c.kind = "marker"
      BY <2>1, <3>1 DEF RevertConflictsInForce, OfApart
    <3> QED
      BY <1>7, <2>1, <3>2, <3>3, RevertElsewhere DEF Elsewhere
  <2> QED
    BY <2>1 DEF RevertConflictsInForce
<1>3. ASSUME NEW r \in to_revert, RevertCommit(r), r \in Records
      PROVE  RevertConflictsInForce'
  <2>1. /\ r \in Records /\ r.c \in Commit /\ r.c.f = r.f /\ OnStaging(r.c) /\ ~Reverted(r.c)
        /\ r.f \in Apart
    BY <1>3, RevertLands DEF Records, OfApart, RecordsOnStaging, RevertsTell
  <2>2. CASE tree' = tree \ {r.c} /\ UNCHANGED revert_conflicts
    <3>1. \A x \in revert_conflicts : x.f \in Apart => x.c # r.c
      BY <2>1 DEF RecordsTell, Settled, OfApart
    <3> QED
      BY <2>2, <3>1 DEF RevertConflictsInForce
  <2>3. CASE UNCHANGED tree /\ revert_conflicts' = revert_conflicts \cup {[f |-> r.f, c |-> r.c]}
    <3>1. PICK i \in DOMAIN staging : staging[i].c = r.c
      BY <2>1 DEF OnStaging
    <3>2. Reached(r.c)
      BY <2>1, <3>1, EntryAt DEF Reached, Reverted
    <3>3. r.c \in tree \/ r.c.kind = "marker"
      BY <2>1, <3>2 DEF TreeTells
    <3> QED
      BY <2>3, <3>3 DEF RevertConflictsInForce
  <2> QED
    BY <1>3, <2>2, <2>3, RevertLands
<1>4. CASE \/ \E cleans_up \in BOOLEAN : Crash(cleans_up)
           \/ \E only_fixers \in BOOLEAN : Resume(only_fixers)
  BY <1>4 DEF Crash, Resume, ForgetRun, RevertConflictsInForce
<1>5. CASE BeginRevert
  BY <1>1, <1>5 DEF BeginRevert, gitVars
<1>6. CASE OtherStep /\ ~BookKeeping
  BY <1>1, <1>6, BooksAlone
<1> QED
  BY <1>2, <1>3, <1>4, <1>5, <1>6, <1>7, StepKinds DEF BookKeeping

-----------------------------------------------------------------------------
(* RecordsVerified.                                                        *)
LEMMA RecordsVerifiedStep ==
  ASSUME IInv, VerdictsTell, RecordsTell, RecordsVerified, [Next]_vars
  PROVE  RecordsVerified'
<1> USE DEF IInv, TypeOK
<1> DEFINE Late == {"cycle", "evaluate", "reverting", "settle", "publish"}
<1>1. ASSUME NEW w \in Worker, Thread(w)
      PROVE  RecordsVerified'
  <2>1. phase' = "fix"
    BY <1>1, ThreadFrame
  <2> QED
    BY <2>1 DEF RecordsVerified
<1>2. CASE BeginRevert
  <2>1. ASSUME NEW r \in OfApart(commits)'
        PROVE  r.c.good
    <3>1. r \in commits /\ r \in Records /\ verdicts[IdOf[r.f]] = "passed"
      BY <1>2, <2>1 DEF BeginRevert, Verified, Records, OfApart
    <3>3. Backed(r) /\ (r.f \in Apart \/ r.c.f \in Apart)
      BY <3>1 DEF RecordsTell, Records, OfApart
    <3>2. r.c \in Commit /\ Held(r.c) /\ r.c.f = r.f /\ (r.c.tagged \/ r.c.n = invocation)
      BY <3>1, <3>3 DEF BookTypeOK, Record, RecordsOnStaging, Held, Backed
    <3> QED
      BY <3>1, <3>2 DEF VerdictsTell
  <2> QED
    BY <2>1 DEF RecordsVerified
<1>3. CASE \/ \E cleans_up \in BOOLEAN : Crash(cleans_up)
           \/ \E only_fixers \in BOOLEAN : Resume(only_fixers)
  BY <1>3 DEF Crash, Resume, ForgetRun, RecordsVerified, OfApart
<1>4. CASE OtherStep /\ ~BeginRevert /\ ~(\E cleans_up \in BOOLEAN : Crash(cleans_up))
           /\ ~(\E only_fixers \in BOOLEAN : Resume(only_fixers))
  <2>1. UNCHANGED commits
    BY <1>4, BooksAlone DEF BookKeeping, RevertCommit
  <2>2. graceful_stop_requested => graceful_stop_requested'
    BY <1>4, Zenon DEF OtherStep, Loop, WalltimeExit, StartCycle, JoinEvaluation, JoinFixers,
       Settle, EndRevert, Publish, ReuseFindings, EvaluateTrack, RevertCommit, DropFinding,
       RemoveWorktrees, vars, stopVars
  <2>3. phase' \in Late => phase \in Late \/ JoinFixers
    BY <1>4 DEF OtherStep, Loop, WalltimeExit, StartCycle, JoinEvaluation,
       Settle, EndRevert, Publish, ReuseFindings, EvaluateTrack, RevertCommit, DropFinding,
       RemoveWorktrees, vars, loopVars, Exit, Goto
  <2>4. ASSUME JoinFixers, phase' \in Late
        PROVE  graceful_stop_requested
    BY <2>4 DEF JoinFixers, Goto
  <2>5. ASSUME phase' \in Late, ~graceful_stop_requested'
        PROVE  phase \in Late /\ ~graceful_stop_requested
    BY <2>2, <2>3, <2>4, <2>5, Zenon
  <2> QED
    BY <2>1, <2>5 DEF RecordsVerified, OfApart
<1> QED
  BY <1>1, <1>2, <1>3, <1>4, StepKinds

-----------------------------------------------------------------------------
(* Accounted.                                                              *)
Shown(c) == (\E r \in commits : r.c = c) \/ Reported(c) \/ Merged(c)

LEMMA RecordingEnds ==
  ASSUME PoolTypeOK, NEW w \in Worker, Thread(w), stage[w] = "recording"
  PROVE  LetsGo(w)
<1>1. RecordCommit(w)
  BY DEF Thread, TakeFinding, SkipLanded, SkipConflicted, PassResumeChecks, ScanOrphans,
     ResetWorker, RecoverOrphan, RunFixer, RollBackLeak, CommitFix, AcceptBypass,
     CommitMarker, NoChange, MergeToStaging, PersistConflict
<1> QED
  BY <1>1 DEF RecordCommit, Release, LetsGo, PoolTypeOK, stopVars

(* A thread keeps what is shown of a change in force, and shows what it    *)
(* picks.                                                                  *)
LEMMA ShownThread ==
  ASSUME IInv, TreeTells, NEW w \in Worker, Thread(w), NEW c \in tree, c.f \in Apart, Shown(c)
  PROVE  Shown(c)'
<1> USE DEF IInv, TypeOK
<1>1. commits \subseteq commits'
  BY ThreadBooks
<1>2. recovered_commits \subseteq recovered_commits' /\ UNCHANGED revert_conflicts
  BY ThreadFrame, ThreadPicks DEF Picks, Rescued
<1>3. ASSUME NEW v \in Worker, v # w, stage[v] = "recording", pending[v] = c
      PROVE  Merged(c)'
  BY <1>3, SameOthers DEF SameWorker, Merged, GitTypeOK
<1>4. ASSUME stage[w] = "recording", pending[w] = c
      PROVE  \E r \in commits' : r.c = c
  <2>1. LetsGo(w)
    BY <1>4, RecordingEnds
  <2>2. c.kind # "marker"
    BY DEF TreeTells
  <2> QED
    BY <1>4, <2>1, <2>2, ThreadBooks DEF Skips, Lands
<1> QED
  BY <1>1, <1>2, <1>3, <1>4 DEF Shown, Reported, Merged

LEMMA PickShown ==
  ASSUME NEW w \in Worker, NEW d \in Commit, Picks(w, d)
  PROVE  Shown(d)' /\ d.n = invocation
BY DEF Picks, Shown, Reported, Merged, Rescued, Own

LEMMA AccountedThread ==
  ASSUME IInv, RecordsTell, TreeTells, Accounted, NEW w \in Worker, Thread(w)
  PROVE  Accounted'
<1> USE DEF IInv, TypeOK
<1>1. /\ phase = "fix" /\ UNCHANGED <<phase, start_at, invocation, to_revert>> /\ to_revert = {}
  BY ThreadFrame DEF RecordsTell
<1>2. \A c : c.f \in Apart =>
        (Shown(c) <=> (\E r \in Records : r.c = c) \/ Reported(c) \/ Merged(c))
  BY <1>1 DEF Shown, Records, OfApart
<1>3. \A c : c.f \in Apart =>
        (Shown(c)' <=> (\E r \in Records' : r.c = c) \/ Reported(c)' \/ Merged(c)')
  BY <1>1 DEF Shown, Records, OfApart
<1>4. \A i \in DOMAIN staging :
        i > start_at /\ staging[i].op = "pick" /\ staging[i].c.f \in Apart =>
        staging[i].c.n = invocation /\ (staging[i].c \in tree => Shown(staging[i].c))
  BY <1>1, <1>2 DEF Accounted
<1>5. \A c \in tree : c.f \in Apart /\ Shown(c) => Shown(c)'
  BY ShownThread
<1>6. ASSUME \A i \in DOMAIN staging' :
               i > start_at /\ staging'[i].op = "pick" /\ staging'[i].c.f \in Apart =>
               staging'[i].c.n = invocation /\ (staging'[i].c \in tree' => Shown(staging[i].c)')
      PROVE  Accounted'
  BY <1>1, <1>3, <1>6 DEF Accounted
<1>7. CASE UNCHANGED <<staging, tree>>
  BY <1>4, <1>5, <1>6, <1>7
<1>8. ASSUME NEW d \in Commit, Picks(w, d)
      PROVE  Accounted'
  <2> DEFINE e == Pick(d, tree)
  <2>1. e \in Entry /\ e.c = d /\ staging' = Append(staging, e)
    BY <1>8, PickEntry DEF Picks
  <2> HIDE DEF e
  <2>2. PICK last \in Nat :
          /\ DOMAIN staging' = DOMAIN staging \cup {last}
          /\ \A i \in DOMAIN staging : staging'[i] = staging[i] /\ i < last
          /\ staging'[last] = e
    BY <2>1, AppendedEntries
  <2>3. Shown(d)' /\ d.n = invocation
    BY <1>8, PickShown
  <2>4. \A c \in tree' : c \in tree \/ c = d
    BY <1>8 DEF Picks, PickedTree
  <2> QED
    BY <1>4, <1>5, <1>6, <2>1, <2>2, <2>3, <2>4
<1> QED
  BY <1>7, <1>8, ThreadPicks

(* The revert phase sorts out a record only when its change is out of the  *)
(* tree or its revert was refused.                                         *)
LEMMA SortedOut ==
  ASSUME IInv, RecordsTell, BeginRevert, NEW r \in commits, r \in Records,
         \A c \in Commit : Reverted(c) /\ c.f = r.f => ~c.tagged
  PROVE  r \in (commits \cup to_revert)' /\ r \in Records'
<1> USE DEF IInv, TypeOK
<1>1. r.f \in Apart /\ r.f \in Finding /\ r.c.f = r.f
  BY DEF BookTypeOK, Record, RecordsTell, Backed, Records, OfApart
<1>2. IdOf[r.f] \notin RevertedIds(staging)
  <2>1. ASSUME NEW i \in DOMAIN staging, staging[i].op = "revert", staging[i].c.tagged,
               IdOf[staging[i].c.f] = IdOf[r.f]
        PROVE  FALSE
    <3>1. staging[i].c.f = r.f /\ staging[i].c \in Commit
      BY <1>1, <2>1, EntryAt, SameId
    <3> QED
      BY <1>1, <2>1, <3>1 DEF Reverted
  <2> QED
    BY <2>1 DEF RevertedIds
<1>3. ASSUME NEW x \in reverted_commits, IdOf[x.f] = IdOf[r.f]
      PROVE  FALSE
  <2>1. x.f = r.f
    BY <1>1, <1>3, SameId DEF BookTypeOK
  <2>2. x \in Settled
    BY <1>1, <2>1 DEF Settled, OfApart
  <2> QED
    BY <2>1, <2>2 DEF RecordsTell
<1>4. r \in (commits \cup to_revert)'
  BY <1>2, <1>3 DEF BeginRevert
<1> QED
  BY <1>1, <1>4 DEF Records, OfApart

LEMMA AccountedStep ==
  ASSUME IInv, RecordsTell, RevertsTell, TreeTells, Accounted, [Next]_vars
  PROVE  Accounted'
<1> USE DEF IInv, TypeOK
<1>1. CASE BeginRevert
  <2>1. /\ UNCHANGED <<staging, tree, start_at, invocation, recovered_commits, revert_conflicts,
                       stage, pending>>
        /\ phase = "revert" /\ to_revert = {}
    BY <1>1 DEF BeginRevert, gitVars, metaVars, poolVars, RecordsTell
  <2>2. ASSUME NEW r \in Records, r.c.n = invocation
        PROVE  r \in Records'
    <3>1. r \in commits
      BY <2>1 DEF Records, OfApart
    <3>2. \A c \in Commit : Reverted(c) /\ c.f = r.f => ~c.tagged
      BY <2>2, <3>1 DEF RevertsTell, Unreverted
    <3> QED
      BY <1>1, <3>1, <3>2, SortedOut
  <2> QED
    BY <2>1, <2>2 DEF Accounted, Reported, Merged
<1>2. ASSUME NEW r \in to_revert, RevertCommit(r), r \in Records
      PROVE  Accounted'
  <2>1. /\ UNCHANGED <<start_at, invocation, recovered_commits, stage, pending, commits, phase>>
        /\ to_revert' = to_revert \ {r} /\ phase = "reverting"
    BY <1>2 DEF RevertCommit, metaVars, poolVars, loopVars
  <2>2. \A s \in Records : s \in Records' \/ s = r
    BY <2>1 DEF Records, OfApart
  <2>3. CASE UNCHANGED <<staging, tree>> /\ revert_conflicts' = revert_conflicts \cup {[f |-> r.f, c |-> r.c]}
    <3>3. \A c : Reported(c) => Reported(c)'
      BY <2>1, <2>3 DEF Reported
    <3>4. \E x \in revert_conflicts' : x.c = r.c
      <4> DEFINE x == [f |-> r.f, c |-> r.c]
      <4>1. x \in revert_conflicts' /\ x.c = r.c
        BY <2>3
      <4> QED
        BY <4>1
    <3>1. Reported(r.c)' /\ \A c : Reported(c) => Reported(c)'
      BY <3>3, <3>4 DEF Reported
    <3>2. \A c : Merged(c) => Merged(c)'
      BY <2>1 DEF Merged
    <3> QED
      BY <2>1, <2>2, <2>3, <3>1, <3>2 DEF Accounted
  <2>4. ASSUME NEW e \in Entry, staging' = Append(staging, e), e.op = "revert", e.c = r.c,
               tree' = tree \ {r.c}, UNCHANGED revert_conflicts
        PROVE  Accounted'
    <3>1. PICK last \in Nat :
            /\ DOMAIN staging' = DOMAIN staging \cup {last}
            /\ \A i \in DOMAIN staging : staging'[i] = staging[i] /\ i < last
            /\ staging'[last] = e
      BY <2>4, AppendedEntries
    <3>2. \A c : (Reported(c) <=> Reported(c)') /\ (Merged(c) <=> Merged(c)')
      BY <2>1, <2>4 DEF Reported, Merged
    <3>3. ASSUME NEW i \in DOMAIN staging', i > start_at, staging'[i].op = "pick",
                 staging'[i].c.f \in Apart
          PROVE  /\ staging'[i].c.n = invocation
                 /\ staging'[i].c \in tree' => \/ \E s \in Records' : s.c = staging'[i].c
                                              \/ Reported(staging[i].c)' \/ Merged(staging[i].c)'
      <4>1. i \in DOMAIN staging /\ staging'[i] = staging[i]
        BY <2>4, <3>1, <3>3
      <4>2. /\ staging[i].c.n = invocation
            /\ staging[i].c \in tree => \/ \E s \in Records : s.c = staging[i].c
                                        \/ Reported(staging[i].c) \/ Merged(staging[i].c)
        BY <2>1, <3>3, <4>1 DEF Accounted
      <4> QED
        BY <2>2, <2>4, <3>2, <4>1, <4>2
    <3> QED
      BY <2>1, <3>3 DEF Accounted
  <2> QED
    BY <1>2, <2>3, <2>4, RevertLands
<1>6. ASSUME NEW r \in to_revert, RevertCommit(r), r \notin Records
      PROVE  Accounted'
  <2>1. /\ UNCHANGED <<start_at, invocation, recovered_commits, stage, pending, phase>>
        /\ Records' = Records
        /\ OfApart(revert_conflicts)' = OfApart(revert_conflicts) /\ phase = "reverting"
    BY <1>6, RevertElsewhere
  <2>2. \A x \in revert_conflicts : x \in revert_conflicts'
    BY <1>6 DEF RevertCommit
  <2>3. \A c : (Reported(c) => Reported(c)') /\ (Merged(c) => Merged(c)')
    BY <2>1, <2>2 DEF Reported, Merged
  <2>4. ASSUME NEW i \in DOMAIN staging', i > start_at, staging'[i].op = "pick",
               staging'[i].c.f \in Apart
        PROVE  /\ staging'[i].c.n = invocation
               /\ staging'[i].c \in tree' => \/ \E s \in Records' : s.c = staging'[i].c
                                            \/ Reported(staging[i].c)' \/ Merged(staging[i].c)'
    <3>1. i \in DOMAIN staging /\ staging'[i] = staging[i]
      BY <1>6, <2>4, RevertElsewhere, ElsewhereSame
    <3>2. staging'[i].c \in tree' => staging[i].c \in tree
      BY <1>6, <2>4, <3>1, RevertElsewhere DEF Elsewhere
    <3>3. /\ staging[i].c.n = invocation
          /\ staging[i].c \in tree => \/ \E s \in Records : s.c = staging[i].c
                                      \/ Reported(staging[i].c) \/ Merged(staging[i].c)
      BY <2>1, <2>4, <3>1 DEF Accounted
    <3> QED
      BY <2>1, <2>3, <3>1, <3>2, <3>3
  <2> QED
    BY <2>1, <2>4 DEF Accounted
<1>3. CASE \E cleans_up \in BOOLEAN : Crash(cleans_up)
  BY <1>3 DEF Crash, Accounted
<1>4. CASE \E only_fixers \in BOOLEAN : Resume(only_fixers)
  <2>1. staging' = staging /\ start_at' = Len(staging)
    BY <1>4 DEF Resume
  <2>2. \A i \in DOMAIN staging' : ~(i > start_at')
    BY <2>1 DEF GitTypeOK
  <2> QED
    BY <2>2 DEF Accounted
<1>5. CASE OtherStep /\ ~BookKeeping
  <2>1. phase = "crashed" => phase' = "crashed"
    BY <1>5 DEF OtherStep, Loop, BookKeeping, WalltimeExit, StartCycle, JoinEvaluation, JoinFixers,
       Settle, EndRevert, Publish, ReuseFindings, EvaluateTrack, DropFinding, RemoveWorktrees,
       vars, loopVars
  <2>2. UNCHANGED <<commits, to_revert, revert_conflicts, recovered_commits, staging, tree,
                    invocation, start_at, stage, pending>>
    BY <1>5, BooksAlone
  <2> QED
    BY <2>1, <2>2 DEF Accounted, Records, OfApart, Reported, Merged
<1> QED
  BY <1>1, <1>2, <1>3, <1>4, <1>5, <1>6, AccountedThread, StepKinds DEF BookKeeping

-----------------------------------------------------------------------------
(* RollbackDue.                                                            *)
Rolling == ~fixers_only /\ ~graceful_stop_requested /\ ~late
Suspect(c) == c \in tree /\ FailedFix(c) /\ c.f \in Apart
GoesBack(c) == (\E r \in to_revert : r.c = c) \/ Reported(c)

LEMMA RollbackDueParts ==
  RollbackDue <=>
    (Rolling => \A c : Suspect(c) =>
       /\ phase \in {"fix", "revert"} => Waits(c.f) \/ Shown(c)
       /\ phase \in {"reverting", "settle"} => GoesBack(c))
BY DEF RollbackDue, Rolling, Suspect, GoesBack, Shown

LEMMA SuspectIs ==
  ASSUME GitTypeOK, NEW c, Suspect(c)
  PROVE  /\ c \in tree /\ c \in Commit /\ c.f \in Finding /\ c.f \in Apart
         /\ c.tagged /\ ~c.good /\ Sole(c) /\ c.f \in results
BY CommitFields DEF GitTypeOK, Suspect, FailedFix, Actionable

LEMMA SoleBefore ==
  ASSUME NEW c, Sole(c)',
         \A i \in DOMAIN staging : i \in DOMAIN staging' /\ staging'[i] = staging[i]
  PROVE  Sole(c)
BY DEF Sole

(* The resume check rebuilds the record of the only fix of its finding.    *)
LEMMA SkipShows ==
  ASSUME IInv, TreeTells, NEW w \in Worker, Thread(w), stage[w] = "assigned",
         NEW c \in tree, c.f \in Apart, c.tagged, Sole(c), task[w] = c.f
  PROVE  Shown(c)'
<1> USE DEF IInv, TypeOK
<1>1. c \in Commit /\ c.f \in Finding /\ CommitExists(staging, c.f)
  <2>1. c \in Commit /\ c.f \in Finding
    BY CommitFields DEF GitTypeOK
  <2>2. PICK i \in DOMAIN staging : staging[i].c = c
    BY DEF TreeTells, Reached
  <2> QED
    BY <2>1, <2>2 DEF CommitExists, NamesFinding
<1>2. SkipLanded(w)
  BY <1>1 DEF Thread, TakeFinding, SkipConflicted, PassResumeChecks, ScanOrphans,
     ResetWorker, RecoverOrphan, RunFixer, RollBackLeak, CommitFix, AcceptBypass,
     CommitMarker, NoChange, MergeToStaging, RecordCommit, PersistConflict
<1>3. PICK i \in DOMAIN staging :
        /\ NewestNaming(staging, c.f, i)
        /\ commits' = commits \cup {[f |-> c.f, c |-> staging[i].c, at |-> i]}
  BY <1>2 DEF SkipLanded
<1>4. staging[i].c = c
  BY <1>1, <1>3, NewestIsOfFinding DEF Sole
<1> DEFINE r == [f |-> c.f, c |-> staging[i].c, at |-> i]
<1>5. r \in commits' /\ r.c = c
  BY <1>3, <1>4
<1> QED
  BY <1>5 DEF Shown

LEMMA RollbackThread ==
  ASSUME IInv, TreeTells, RollbackDue, NEW w \in Worker, Thread(w)
  PROVE  RollbackDue'
<1> USE DEF IInv, TypeOK
<1>1. /\ phase = "fix" /\ UNCHANGED <<phase, fixers_only, late, results>>
      /\ graceful_stop_requested => graceful_stop_requested'
  BY ThreadFrame
<1>2. Rolling' => Rolling
  BY <1>1, Zenon DEF Rolling
<1>3. \A i \in DOMAIN staging : i \in DOMAIN staging' /\ staging'[i] = staging[i]
  BY ThreadGrows, GrowsPrefix
<1>4. ASSUME NEW c, Rolling', Suspect(c)'
      PROVE  Waits(c.f)' \/ Shown(c)'
  <2>1. CASE c \in tree
    <3>1. Suspect(c) /\ c.tagged
      BY <1>1, <1>3, <1>4, <2>1, SoleBefore DEF Suspect, FailedFix
    <3>2. Waits(c.f) \/ Shown(c)
      BY <1>1, <1>2, <1>4, <3>1, RollbackDueParts
    <3>3. CASE Shown(c)
      BY <2>1, <3>1, <3>3, ShownThread DEF Suspect
    <3>4. CASE c.f \in queue
      <4>1. Takes(w) \/ Keeps(w) \/ LetsGo(w)
        BY ThreadTask
      <4> QED
        BY <3>4, <4>1 DEF Takes, Keeps, LetsGo, Waits
    <3>5. ASSUME NEW v \in Worker, stage[v] = "assigned", task[v] = c.f
          PROVE  Waits(c.f)' \/ Shown(c)'
      <4>1. CASE v = w
        BY <2>1, <3>1, <3>5, <4>1, SkipShows, SuspectIs
      <4>2. CASE v # w
        BY <3>5, <4>2, SameOthers DEF SameWorker, Waits, GitTypeOK
      <4> QED
        BY <4>1, <4>2
    <3> QED
      BY <3>2, <3>3, <3>4, <3>5 DEF Waits
  <2>2. CASE c \notin tree
    <3>1. PICK d \in Commit : Picks(w, d)
      BY <1>4, <2>2, ThreadPicks DEF Suspect
    <3>2. c = d
      BY <1>4, <2>2, <3>1 DEF Suspect, Picks, PickedTree
    <3> QED
      BY <3>1, <3>2, PickShown
  <2> QED
    BY <2>1, <2>2
<1>5. ASSUME Rolling'
      PROVE  \A c : Suspect(c)' =>
               /\ phase' \in {"fix", "revert"} => Waits(c.f)' \/ Shown(c)'
               /\ phase' \in {"reverting", "settle"} => GoesBack(c)'
  BY <1>1, <1>4, <1>5
<1> QED
  BY <1>5 DEF RollbackDue, Rolling, Suspect, GoesBack, Shown

(* Nothing of a finding of this cycle was reverted while its only fix is   *)
(* in force: it would have to be an earlier cycle's, picked again.         *)
LEMMA SoleUnreverted ==
  ASSUME IInv, CyclesApart, RevertsPast, TreeTells, phase = "revert", ~fixers_only,
         NEW c, Suspect(c), NEW d \in Commit, Reverted(d), d.f = c.f
  PROVE  ~d.tagged
<1> USE DEF IInv, TypeOK
<1> SUFFICES ASSUME d.tagged
             PROVE  FALSE
  OBVIOUS
<1>1. /\ c \in tree /\ c \in Commit /\ c.f \in Finding /\ c.f \in results
      /\ c.f \in Apart /\ Sole(c)
  BY SuspectIs
<1>2. PICK i \in DOMAIN staging : staging[i].op = "revert" /\ staging[i].c = d
  BY DEF Reverted
<1>3. d = c
  BY <1>1, <1>2 DEF Sole, NamesFinding
<1>4. PICK j \in DOMAIN staging : j > i /\ staging[j].op = "pick" /\ staging[j].c = c
  BY <1>1, <1>2, <1>3 DEF TreeTells
<1>5. CycleOf[c.f] < last_cycle
  <2>1. i \in Nat /\ j \in Nat
    BY EntryAt
  <2> QED
    BY <1>1, <1>2, <1>3, <1>4, <2>1 DEF RevertsPast
<1>6. CycleOf[c.f] = cycle /\ last_cycle = cycle
  BY <1>1 DEF CyclesApart, InCycle
<1>7. cycle \in Nat
  BY DEF RunTypeOK
<1> QED
  BY <1>5, <1>6, <1>7

LEMMA RollbackBegins ==
  ASSUME IInv, VerdictsTell, CyclesApart, RecordsTell, RevertsPast, TreeTells,
         RollbackDue, BeginRevert, Rolling, NEW c, Suspect(c)
  PROVE  GoesBack(c)'
<1> USE DEF IInv, TypeOK
<1>1. phase = "revert" /\ revert_conflicts' = revert_conflicts /\ recovered_commits' = recovered_commits
  BY DEF BeginRevert
<1>2. Waits(c.f) \/ Shown(c)
  BY <1>1, RollbackDueParts
<1>3. ~Waits(c.f) /\ ~Merged(c)
  BY <1>1 DEF PhaseOK, CyclesApart, Waits, Merged
<1>4. CASE Reported(c)
  BY <1>1, <1>4 DEF GoesBack, Reported
<1>5. ASSUME NEW r \in commits, r.c = c
      PROVE  GoesBack(c)'
  <2>1. /\ r.f = c.f /\ c \in Commit /\ Held(c) /\ c.tagged /\ ~c.good
        /\ r \in Records
    <3>1. c \in Commit /\ c.f \in Apart /\ c.tagged /\ ~c.good
      BY SuspectIs
    <3>2. r \in Records
      BY <1>5, <3>1 DEF Records, OfApart
    <3>3. r.c.f = r.f /\ OnStaging(r.c)
      BY <1>5, <3>2 DEF RecordsTell, Backed, RecordsOnStaging
    <3> QED
      BY <1>5, <3>1, <3>2, <3>3 DEF Held
  <2>2. ~Verified(r)
    BY <2>1 DEF VerdictsTell, Verified
  <2>3. ~fixers_only
    BY Zenon DEF Rolling
  <2>4. \A d \in Commit : Reverted(d) /\ d.f = r.f => ~d.tagged
    BY <1>1, <2>1, <2>3, SoleUnreverted
  <2>5. r \in commits' \cup to_revert'
    BY <1>5, <2>1, <2>4, SortedOut
  <2>6. r \notin commits'
    BY <2>2 DEF BeginRevert
  <2> QED
    BY <1>5, <2>5, <2>6 DEF GoesBack
<1> QED
  BY <1>2, <1>3, <1>4, <1>5 DEF Shown

LEMMA RollbackLands ==
  ASSUME IInv, RecordsTell, RevertsTell, RollbackDue, NEW r \in to_revert, RevertCommit(r),
         Rolling, NEW c, Suspect(c)'
  PROVE  GoesBack(c)'
<1> USE DEF IInv, TypeOK
<1>1. /\ UNCHANGED <<results, recovered_commits>> /\ to_revert' = to_revert \ {r}
      /\ phase = "reverting"
  BY DEF RevertCommit, evalVars
<1>2. c \in tree /\ revert_conflicts \subseteq revert_conflicts'
  <2>1. CASE r \in Records
    BY <2>1, RevertLands DEF Suspect
  <2>2. CASE r \notin Records
    BY <2>2, RevertElsewhere DEF Suspect, Elsewhere, RevertCommit
  <2> QED
    BY <2>1, <2>2
<1>3. \A i \in DOMAIN staging : i \in DOMAIN staging' /\ staging'[i] = staging[i]
  BY RevertGrows, GrowsPrefix
<1>4. GoesBack(c)
  BY <1>1, <1>2, <1>3, SoleBefore, RollbackDueParts DEF Suspect, FailedFix
<1>5. CASE Reported(c)
  BY <1>1, <1>2, <1>5 DEF GoesBack, Reported
<1>6. ASSUME NEW s \in to_revert, s.c = c, s # r
      PROVE  GoesBack(c)'
  BY <1>1, <1>6 DEF GoesBack
<1>7. ASSUME r.c = c
      PROVE  GoesBack(c)'
  <2> DEFINE x == [f |-> r.f, c |-> r.c]
  <2>3. r \in Records
    BY <1>7 DEF Suspect, Records, OfApart
  <2>1. revert_conflicts' = revert_conflicts \cup {x}
    BY <1>7, <2>3, RevertLands DEF Suspect
  <2>2. x \in revert_conflicts' /\ x.c = c
    BY <1>7, <2>1
  <2> QED
    BY <2>2 DEF GoesBack, Reported
<1> QED
  BY <1>4, <1>5, <1>6, <1>7 DEF GoesBack

(* The steps of the loop that keep the books only move the phase: what is  *)
(* due stays due, and queued findings wait.                                *)
LEMMA RollbackAlone ==
  ASSUME IInv, RollbackDue, OtherStep, ~BookKeeping
  PROVE  RollbackDue'
<1> USE DEF IInv, TypeOK
<1>1. UNCHANGED <<commits, to_revert, revert_conflicts, recovered_commits, staging, tree,
                  stage, task, pending>>
  BY BooksAlone
<1>2. \A c : /\ Sole(c)' <=> Sole(c)
             /\ Reported(c)' <=> Reported(c)
             /\ GoesBack(c)' <=> GoesBack(c)
             /\ Shown(c)' <=> Shown(c)
  BY <1>1 DEF Sole, Reported, GoesBack, Shown, Merged
<1>3. ASSUME UNCHANGED <<results, queue>>, Rolling' => Rolling,
             phase' \in {"fix", "revert"} => phase \in {"fix", "revert"},
             phase' \in {"reverting", "settle"} => phase \in {"reverting", "settle"}
      PROVE  RollbackDue'
  <2>1. \A c : (Suspect(c)' <=> Suspect(c)) /\ (Waits(c.f)' <=> Waits(c.f))
    BY <1>1, <1>2, <1>3 DEF Suspect, FailedFix, Waits
  <2>2. Rolling' => \A c : Suspect(c)' =>
          /\ phase' \in {"fix", "revert"} => Waits(c.f)' \/ Shown(c)'
          /\ phase' \in {"reverting", "settle"} => GoesBack(c)'
    BY <1>2, <1>3, <2>1, RollbackDueParts
  <2> QED
    BY <2>2 DEF RollbackDue, Rolling, Suspect, GoesBack, Shown
<1>4. ASSUME phase' \notin {"fix", "revert", "reverting", "settle"}
      PROVE  RollbackDue'
  BY <1>4 DEF RollbackDue
<1>5. ASSUME ~Rolling'
      PROVE  RollbackDue'
  <2>1. fixers_only' \/ graceful_stop_requested' \/ late'
    BY <1>5, Zenon DEF Rolling
  <2> QED
    BY <2>1, Zenon DEF RollbackDue
<1>6. CASE JoinEvaluation
  <2>1. CASE phase' = "publish"
    BY <1>4, <2>1
  <2>2. CASE phase' \in {"settle", "fix"}
    <3>1. /\ queue' = Actionable(results) /\ results' = results
          /\ phase' = "settle" => queue' = {}
      BY <1>6, <2>2 DEF JoinEvaluation, Exit, Goto, evalVars
    <3> QED
      BY <2>2, <3>1 DEF RollbackDue, FailedFix, Waits, Actionable
  <2> QED
    BY <1>6, <2>1, <2>2 DEF JoinEvaluation, Exit, Goto
<1>7. ASSUME NEW f \in queue, DropFinding(f)
      PROVE  RollbackDue'
  BY <1>5, <1>7, Zenon DEF DropFinding, Rolling
<1>8. CASE JoinFixers \/ EndRevert
  <2>0. UNCHANGED <<results, queue, fixers_only, graceful_stop_requested, late>>
    BY <1>8, Zenon DEF JoinFixers, EndRevert, evalVars, metaVars, stopVars
  <2>1. UNCHANGED <<results, queue>> /\ (Rolling' => Rolling)
    BY <2>0, Zenon DEF Rolling
  <2>2. /\ phase' \in {"fix", "revert"} => phase \in {"fix", "revert"}
        /\ EndRevert => phase = "reverting"
        /\ JoinFixers => phase' = "revert" \/ graceful_stop_requested
    BY <1>8 DEF JoinFixers, EndRevert, Goto
  <2>3. CASE JoinFixers /\ graceful_stop_requested
    BY <1>5, <2>3, Zenon DEF JoinFixers, stopVars, Rolling
  <2>4. CASE EndRevert \/ phase' = "revert"
    BY <1>3, <1>8, <2>1, <2>2, <2>4
  <2> QED
    BY <1>8, <2>2, <2>3, <2>4
<1>9. CASE \/ WalltimeExit \/ StartCycle \/ Settle \/ Publish
           \/ \E t \in Track : ReuseFindings(t) \/ EvaluateTrack(t)
  BY <1>4, <1>9 DEF WalltimeExit, StartCycle, Settle, Publish, ReuseFindings, EvaluateTrack,
     Exit, Goto, loopVars
<1>10. CASE RemoveWorktrees \/ UNCHANGED vars
  <2>1. UNCHANGED <<phase, results, queue, fixers_only, graceful_stop_requested, late>>
    BY <1>10, Zenon DEF RemoveWorktrees, vars, evalVars, metaVars, loopVars, stopVars
  <2>2. Rolling' => Rolling
    BY <2>1, Zenon DEF Rolling
  <2> QED
    BY <1>3, <2>1, <2>2
<1> QED
  BY <1>6, <1>7, <1>8, <1>9, <1>10, Zenon DEF OtherStep, Loop, BookKeeping

LEMMA RollbackDueStep ==
  ASSUME IInv, VerdictsTell, CyclesApart, RecordsTell, RevertsTell, RevertsPast,
         TreeTells, RollbackDue, [Next]_vars
  PROVE  RollbackDue'
<1> USE DEF IInv, TypeOK
<1>1. ASSUME phase' \notin {"fix", "revert", "reverting", "settle"}
      PROVE  RollbackDue'
  BY <1>1 DEF RollbackDue
<1>2. ASSUME phase' = "reverting",
             Rolling' => \A c : Suspect(c)' => GoesBack(c)'
      PROVE  RollbackDue'
  BY <1>2 DEF RollbackDue, Rolling, Suspect, GoesBack
<1>3. CASE BeginRevert
  <2>1. phase' = "reverting" /\ UNCHANGED <<staging, tree, results>>
    BY <1>3 DEF BeginRevert, Goto, gitVars, evalVars
  <2>2. Rolling' => Rolling
    BY <1>3, Zenon DEF BeginRevert, metaVars, stopVars, Rolling
  <2>3. \A c : Suspect(c)' => Suspect(c)
    BY <2>1 DEF Suspect, FailedFix, Sole
  <2> QED
    BY <1>2, <1>3, <2>1, <2>2, <2>3, RollbackBegins
<1>4. ASSUME NEW r \in to_revert, RevertCommit(r)
      PROVE  RollbackDue'
  <2>1. phase' = "reverting"
    BY <1>4 DEF RevertCommit, loopVars
  <2>2. Rolling' => Rolling
    BY <1>4, Zenon DEF RevertCommit, metaVars, stopVars, Rolling
  <2> QED
    BY <1>2, <1>4, <2>1, <2>2, RollbackLands
<1>5. CASE \E cleans_up \in BOOLEAN : Crash(cleans_up)
  BY <1>1, <1>5 DEF Crash
<1>6. ASSUME NEW only_fixers \in BOOLEAN, Resume(only_fixers)
      PROVE  RollbackDue'
  <2>1. CASE only_fixers
    BY <1>6, <2>1, Zenon DEF Resume, RollbackDue
  <2>2. CASE ~only_fixers
    BY <1>1, <1>6, <2>2 DEF Resume
  <2> QED
    BY <2>1, <2>2
<1> QED
  BY <1>3, <1>4, <1>5, <1>6, RollbackThread, RollbackAlone, StepKinds DEF BookKeeping

-----------------------------------------------------------------------------
(* The books of an invocation, in every state.                             *)
LEMMA InitBooks == Init => BooksInv
<1> SUFFICES ASSUME Init
             PROVE  BooksInv
  OBVIOUS
<1> USE DEF Init, Every
<1>1. /\ \A c \in Commit : ~Held(c)
      /\ \A f : ~Tried(f) /\ ~Booked(f)
      /\ \A c : ~Reached(c) /\ ~Reverted(c)
  <2>1. \A c \in Commit : ~Held(c)
    BY RunAssumption DEF Held, OnStaging
  <2>2. \A f : ~Booked(f)
    BY DEF Booked, Records, Settled, OfApart
  <2> QED
    BY <2>1, <2>2 DEF Tried, Reached, Reverted
<1>2. VerdictsTell /\ TriedOnce
  BY <1>1 DEF VerdictsTell, TriedOnce
<1>3. ThreadTells
  BY DEF ThreadTells, Merging
<1>4. CyclesApart
  BY <1>1 DEF CyclesApart
<1>5. RecordsTell /\ RevertsTell /\ RevertsPast
  BY <1>1 DEF RecordsTell, Records, Settled, OfApart, RevertsTell, RevertsPast
<1>6. TreeTells /\ Accounted /\ RecordsVerified /\ RollbackDue /\ RevertConflictsInForce
  BY <1>1 DEF TreeTells, Accounted, RecordsVerified, OfApart, RollbackDue, RevertConflictsInForce
<1> QED
  BY <1>2, <1>3, <1>4, <1>5, <1>6 DEF BooksInv

LEMMA BooksStep ==
  ASSUME IInv, BooksInv, [Next]_vars
  PROVE  BooksInv'
<1>1. IInv'
  BY InvStep
<1>2. VerdictsTell' /\ TriedOnce' /\ ThreadTells'
  BY <1>1, VerdictsStep, TriedOnceStep, ThreadTellsStep DEF BooksInv
<1>3. CyclesApart'
  BY <1>1, CyclesApartStep DEF BooksInv
<1>4. RecordsTell' /\ RevertsTell' /\ RevertsPast'
  BY <1>1, RecordsTellStep, RevertsTellStep, RevertsPastStep DEF BooksInv
<1>5. TreeTells' /\ RevertConflictsInForce'
  BY TreeTellsStep, ConflictsStep DEF BooksInv
<1>6. Accounted' /\ RecordsVerified' /\ RollbackDue'
  BY AccountedStep, RecordsVerifiedStep, RollbackDueStep DEF BooksInv
<1> QED
  BY <1>2, <1>3, <1>4, <1>5, <1>6 DEF BooksInv

-----------------------------------------------------------------------------
(* Verdicts, records, reverts and the tree of the staging branch keep in   *)
(* step for each finding whose id the greps tell apart, whatever the       *)
(* threads, crashes and resumptions do and whatever the ids of the other   *)
(* findings (run.py, git_ops.py).                                          *)
THEOREM BooksKept == Spec => []BooksInv
<1>1. IInv /\ BooksInv /\ [Next]_vars => BooksInv'
  BY BooksStep
<1> QED
  BY <1>1, InitBooks, Invariant, PTL DEF Spec

(* Of the fixes an invocation publishes that was not stopped early, each   *)
(* one of a finding whose id is apart was verified by the attempt that     *)
(* made it (review.py, run.py).                                            *)
THEOREM OnlyVerifiedPublished == Spec => []PublishedFixesVerified
<1>1. BooksInv => PublishedFixesVerified
  <2>1. ASSUME RecordsVerified, phase = "publish", ~graceful_stop_requested
        PROVE  \A r \in OfApart(commits) : r.c.good
    BY <2>1, Zenon DEF RecordsVerified
  <2>2. \A r \in commits : r.f \in Apart => r \in OfApart(commits)
    BY DEF OfApart
  <2> QED
    BY <2>1, <2>2, Zenon DEF BooksInv, PublishedFixesVerified
<1> QED
  BY <1>1, BooksKept, PTL

(* When an invocation publishes, every change it put in force for a        *)
(* finding whose id is apart is listed as a fix, as recovered, or as a     *)
(* revert that was refused (run.py).                                       *)
THEOREM AllChangesAccounted == Spec => []ChangesAccounted
<1>1. IInv /\ BooksInv => ChangesAccounted
  <2> SUFFICES ASSUME IInv, BooksInv, phase = "publish", NEW i \in (start_at + 1)..Len(staging),
                      staging[i].op = "pick", staging[i].c \in tree, staging[i].c.f \in Apart
               PROVE  (\E r \in commits : r.c = staging[i].c) \/ Reported(staging[i].c)
    BY DEF ChangesAccounted, Reported
  <2>1. i \in DOMAIN staging /\ i > start_at
    BY DEF IInv, TypeOK, GitTypeOK, RunTypeOK
  <2>2. to_revert = {} /\ ~Merged(staging[i].c)
    BY DEF BooksInv, RecordsTell, Merged, IInv, PhaseOK
  <2> QED
    BY <2>1, <2>2 DEF BooksInv, Accounted, Records, OfApart
<1> QED
  BY <1>1, BooksKept, Invariant, PTL

(* At the end of a cycle that looked at every finding, a failed fix of one *)
(* whose id is apart is out of the tree or reported, also when an          *)
(* invocation that crashed had merged it (run.py, git_ops.py).             *)
THEOREM FailedFixesGoBack == Spec => []FailedFixesRolledBack
<1>1. BooksInv => FailedFixesRolledBack
  <2> SUFFICES ASSUME BooksInv, phase = "settle", Rolling, NEW c, Suspect(c)
               PROVE  Reported(c)
    BY Zenon DEF FailedFixesRolledBack, Reported, Rolling, Suspect
  <2>1. GoesBack(c)
    BY RollbackDueParts DEF BooksInv
  <2>2. to_revert = {}
    BY DEF BooksInv, RecordsTell
  <2> QED
    BY <2>1, <2>2 DEF GoesBack
<1> QED
  BY <1>1, BooksKept, PTL

(* A revert of a fix whose finding's id is apart is reported as refused    *)
(* only while the change it should remove is in force: resuming over a     *)
(* revert that landed raises no alarm (run.py).                            *)
THEOREM NoFalseConflicts == Spec => []RevertConflictsInForce
<1>1. BooksInv => RevertConflictsInForce
  BY DEF BooksInv
<1> QED
  BY <1>1, BooksKept, PTL
=============================================================================
