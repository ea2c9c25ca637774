---------------------------- MODULE HarnessProofs ----------------------------
(***************************************************************************)
(* Theorems about the harness, for any number of workers, findings,        *)
(* cycles and invocations.                                                 *)
(***************************************************************************)
EXTENDS HarnessInvariant, SequenceTheorems, TLAPS

LEMMA PickEntry ==
  ASSUME NEW c \in Commit, NEW S
  PROVE  Pick(c, S) \in Entry /\ Pick(c, S).c = c
BY DEF Pick, Entry, Commit

LEMMA UndoEntry ==
  ASSUME NEW r \in Record, NEW log
  PROVE  Undo(r, log) \in Entry /\ Undo(r, log).c = r.c
BY DEF Undo, Entry, Record

LEMMA NewCommitType ==
  ASSUME NEW f \in Finding, NEW kind \in {"fix", "bypass", "marker"},
         NEW tagged \in BOOLEAN, NEW good \in BOOLEAN, invocation \in Invocation
  PROVE  NewCommit(f, kind, tagged, good) \in Commit
BY DEF NewCommit, Commit

LEMMA OwnCommitsType ==
  ASSUME NEW f \in Finding, NEW o \in Outcome, invocation \in Invocation
  PROVE  OwnCommits(f, o) \in SUBSET Commit
BY RunAssumption DEF OwnCommits, NewCommit, Commit, OutcomeType, Verdict

LEMMA AppendEntry ==
  ASSUME NEW e \in Entry, staging \in Seq(Entry)
  PROVE  Append(staging, e) \in Seq(Entry)
OBVIOUS

LEMMA InitIInv == Init => IInv
<1> SUFFICES ASSUME Init PROVE IInv
  OBVIOUS
<1> USE BranchAssumption, RunAssumption DEF Init, Every
<1>1. GitTypeOK
  BY DEF GitTypeOK
<1>2. FileTypeOK
  BY DEF FileTypeOK, Verdict
<1>3. EvalTypeOK
  BY DEF EvalTypeOK
<1>4. RunTypeOK
  BY DEF RunTypeOK, Invocation, Phase, ExitReason
<1>11. FlagTypeOK
  BY Zenon DEF FlagTypeOK
<1>5. BookTypeOK
  BY DEF BookTypeOK
<1>6. PoolTypeOK
  BY DEF PoolTypeOK, Stage
<1>7. PhaseOK /\ RecordsOnStaging
  BY DEF PhaseOK, RecordsOnStaging
<1>8. \A w \in Worker : WorkerOK(w)
  BY DEF WorkerOK, HasLocals, CommitsOwn, MergedFirst, RescueComplete
<1>9. OneAttemptPerFinding
  BY DEF OneAttemptPerFinding
<1> QED
  BY <1>1, <1>2, <1>3, <1>4, <1>5, <1>6, <1>7, <1>8, <1>9, <1>11 DEF IInv, TypeOK

LEMMA ReleaseType ==
  ASSUME NEW w \in Worker, PoolTypeOK, Release(w)
  PROVE  PoolTypeOK'
BY DEF PoolTypeOK, Release, Stage

LEMMA TypeStep ==
  ASSUME TypeOK, PhaseOK, \A w \in Worker : HasLocals(w), Next
  PROVE  ValuesTypeOK'
<1> USE BranchAssumption, RunAssumption
<1> USE DEF vars, gitVars, fileVars, evalVars, metaVars, loopVars, stopVars, bookVars, poolVars
<1> USE DEF TypeOK, GitTypeOK, FileTypeOK, EvalTypeOK, RunTypeOK, BookTypeOK, PoolTypeOK
<1> USE DEF ValuesTypeOK, Cycle, Invocation, Phase, ExitReason, Stage, Verdict, HasLocals
<1>1. ASSUME WalltimeExit
       PROVE  ValuesTypeOK'
  BY <1>1 DEF WalltimeExit, Exit
<1>2. ASSUME StartCycle
       PROVE  ValuesTypeOK'
  BY <1>2 DEF StartCycle, Goto
<1>3. ASSUME JoinEvaluation
       PROVE  ValuesTypeOK'
  BY <1>3 DEF JoinEvaluation, Exit, Goto, Actionable
<1>4. ASSUME JoinFixers
       PROVE  ValuesTypeOK'
  BY <1>4 DEF JoinFixers, Goto
<1>5. ASSUME Settle
       PROVE  ValuesTypeOK'
  BY <1>5 DEF Settle, Exit, Goto
<1>6. ASSUME BeginRevert
       PROVE  ValuesTypeOK'
  BY <1>6 DEF BeginRevert, Goto, Record
<1>7. ASSUME EndRevert
       PROVE  ValuesTypeOK'
  BY <1>7 DEF EndRevert, Goto
<1>8. ASSUME Publish
       PROVE  ValuesTypeOK'
  BY <1>8 DEF Publish, Goto
<1>9. ASSUME NEW t \in Track, ReuseFindings(t)
       PROVE  ValuesTypeOK'
  BY <1>9 DEF ReuseFindings, OfTrack
<1>10. ASSUME NEW t \in Track, EvaluateTrack(t)
       PROVE  ValuesTypeOK'
  <2>1. /\ found' \in SUBSET Finding /\ results' \in SUBSET Finding
        /\ sentinels' \in SUBSET (Cycle \X Track)
    <3>1. <<cycle, t>> \in Cycle \X Track
      BY <1>10 DEF EvaluateTrack, PhaseOK
    <3> QED
      BY <1>10, <3>1 DEF EvaluateTrack, OfTrack
  <2> QED
    BY <1>10, <2>1 DEF EvaluateTrack
<1>11. ASSUME NEW r \in to_revert, RevertCommit(r)
       PROVE  ValuesTypeOK'
  <2>1. r \in Record /\ r.f \in Finding /\ r.c \in Commit
    BY <1>11 DEF Record
  <2>2. Append(staging, Undo(r, staging)) \in Seq(Entry)
    BY <2>1, UndoEntry, AppendEntry
  <2>3. Undone(r, staging, tree) \in SUBSET Commit
    BY <2>1 DEF Undone
  <2>4. /\ staging' \in Seq(Entry) /\ tree' \in SUBSET Commit /\ to_revert' \in SUBSET Record
        /\ reverted_commits' \in SUBSET [f : Finding, c : Commit]
        /\ revert_conflicts' \in SUBSET [f : Finding, c : Commit]
    <3>1. [f |-> r.f, c |-> r.c] \in [f : Finding, c : Commit]
      BY <2>1
    <3>2. CASE Undoable(r, staging, tree) /\ UNCHANGED revert_conflicts
      BY <1>11, <2>2, <2>3, <3>1, <3>2 DEF RevertCommit
    <3>3. CASE UNCHANGED <<staging, tree, reverted_commits>>
      BY <1>11, <3>1, <3>3 DEF RevertCommit
    <3> QED
      BY <1>11, <3>2, <3>3 DEF RevertCommit
  <2> QED
    BY <1>11, <2>4 DEF RevertCommit
<1>12. ASSUME NEW f \in queue, DropFinding(f)
       PROVE  ValuesTypeOK'
  BY <1>12 DEF DropFinding
<1>13. ASSUME NEW w \in Worker, NEW f \in queue, TakeFinding(w, f)
       PROVE  ValuesTypeOK'
  BY <1>13 DEF TakeFinding, Move
<1>14. ASSUME NEW w \in Worker, SkipLanded(w)
       PROVE  ValuesTypeOK'
  <2>1. ASSUME NEW i \in DOMAIN staging
        PROVE  [f |-> task[w], c |-> staging[i].c, at |-> i] \in Record
    <3>1. staging[i] \in Entry /\ i \in Nat
      OBVIOUS
    <3> QED
      BY <1>14, <3>1 DEF SkipLanded, Entry, Record
  <2>2. commits' \in SUBSET Record
    BY <1>14, <2>1 DEF SkipLanded
  <2> QED
    BY <1>14, <2>2 DEF SkipLanded, Release
<1>15. ASSUME NEW w \in Worker, SkipConflicted(w)
       PROVE  ValuesTypeOK'
  BY <1>15 DEF SkipConflicted, Release
<1>16. ASSUME NEW w \in Worker, PassResumeChecks(w)
       PROVE  ValuesTypeOK'
  BY <1>16 DEF PassResumeChecks, Move
<1>17. ASSUME NEW w \in Worker, ScanOrphans(w)
       PROVE  ValuesTypeOK'
  BY <1>17 DEF ScanOrphans, Move, Unmerged
<1>18. ASSUME NEW w \in Worker, ResetWorker(w)
       PROVE  ValuesTypeOK'
  BY <1>18 DEF ResetWorker, Move, VerdictsPurged
<1>19. ASSUME NEW w \in Worker, NEW c \in orphans[w], RecoverOrphan(w, c)
       PROVE  ValuesTypeOK'
  <2>1. c \in Commit /\ IdOf[c.f] \in Id
    BY <1>19 DEF Commit
  <2>2. Append(staging, Pick(c, tree)) \in Seq(Entry)
    BY <2>1, PickEntry, AppendEntry
  <2>3. PickedTree(c, tree) \in SUBSET Commit
    BY <2>1 DEF PickedTree
  <2>4. WithConflict(conflict_files, [id |-> IdOf[c.f], dir |-> "unknown", c |-> c])
          \in SUBSET ConflictFile
    BY <2>1 DEF WithConflict, ConflictFile
  <2>5. /\ staging' \in Seq(Entry) /\ tree' \in SUBSET Commit
        /\ conflict_files' \in SUBSET ConflictFile /\ recovered_commits' \in SUBSET Commit
    BY <1>19, <2>1, <2>2, <2>3, <2>4 DEF RecoverOrphan, Rescued
  <2> QED
    BY <1>19, <2>5 DEF RecoverOrphan
<1>20. ASSUME NEW w \in Worker, NEW o \in Outcome, RunFixer(w, o)
       PROVE  ValuesTypeOK'
  <2>1. task[w] \in Finding /\ IdOf[task[w]] \in Id
    BY <1>20 DEF RunFixer
  <2>2. OwnCommits(task[w], o) \in SUBSET Commit
    BY <2>1, OwnCommitsType
  <2>3. branch' \in [Worker -> SUBSET Commit]
    BY <1>20, <2>2 DEF RunFixer
  <2>4. verdicts' \in [Id -> Verdict]
    <3>1. o.verdict \in Verdict
      BY DEF OutcomeType
    <3> QED
      BY <1>20, <2>1, <3>1 DEF RunFixer
  <2>5. PoolTypeOK'
    <3>1. CASE Release(w)
      BY <3>1, ReleaseType
    <3>2. CASE /\ outcome' = [outcome EXCEPT ![w] = o] /\ Move(w, "landing")
               /\ UNCHANGED <<staging_lock, task, pending, orphans>>
      BY <3>2 DEF Move
    <3> QED
      BY <1>20, <3>1, <3>2 DEF RunFixer
  <2> QED
    BY <1>20, <2>3, <2>4, <2>5 DEF RunFixer
<1>21. ASSUME NEW w \in Worker, RollBackLeak(w)
       PROVE  ValuesTypeOK'
  BY <1>21 DEF RollBackLeak, Release
<1>22. ASSUME NEW w \in Worker, CommitFix(w)
       PROVE  ValuesTypeOK'
  <2> DEFINE c == NewCommit(task[w], "fix", TRUE, outcome[w].clean /\ outcome[w].verdict = "passed")
  <2>1. task[w] \in Finding /\ IdOf[task[w]] \in Id
    BY <1>22 DEF CommitFix
  <2>2. c \in Commit
    BY <2>1, NewCommitType
  <2>3. branch' \in [Worker -> SUBSET Commit]
    BY <1>22, <2>2 DEF CommitFix
  <2>4. verdicts' \in [Id -> Verdict]
    BY <1>22, <2>1 DEF CommitFix
  <2>5. PoolTypeOK'
    <3> HIDE DEF c
    <3>1. CASE Release(w)
      BY <3>1, ReleaseType
    <3>2. CASE /\ pending' = [pending EXCEPT ![w] = c] /\ Move(w, "merging")
               /\ UNCHANGED <<staging_lock, task, outcome, orphans>>
      BY <2>2, <3>2 DEF Move
    <3> QED
      BY <1>22, <3>1, <3>2 DEF CommitFix, c
  <2> QED
    BY <1>22, <2>3, <2>4, <2>5 DEF CommitFix
<1>23. ASSUME NEW w \in Worker, AcceptBypass(w)
       PROVE  ValuesTypeOK'
  <2>1. OwnCommits(task[w], outcome[w]) \in SUBSET Commit
    BY <1>23, OwnCommitsType DEF AcceptBypass
  <2>2. pending' \in [Worker -> Commit \cup {None}]
    BY <1>23, <2>1 DEF AcceptBypass
  <2> QED
    BY <1>23, <2>2 DEF AcceptBypass, Move
<1>24. ASSUME NEW w \in Worker, CommitMarker(w)
       PROVE  ValuesTypeOK'
  <2> DEFINE c == NewCommit(task[w], "marker", TRUE, outcome[w].verdict = "passed")
  <2>1. c \in Commit
    BY <1>24, NewCommitType DEF CommitMarker
  <2>3. /\ branch' = [branch EXCEPT ![w] = @ \cup {c}]
        /\ pending' = [pending EXCEPT ![w] = c]
    BY <1>24 DEF CommitMarker
  <2> HIDE DEF c
  <2>2. /\ branch' \in [Worker -> SUBSET Commit]
        /\ pending' \in [Worker -> Commit \cup {None}]
    BY <2>1, <2>3
  <2> QED
    BY <1>24, <2>2 DEF CommitMarker, Move
<1>25. ASSUME NEW w \in Worker, NoChange(w)
       PROVE  ValuesTypeOK'
  BY <1>25 DEF NoChange, Release
<1>26. ASSUME NEW w \in Worker, MergeToStaging(w)
       PROVE  ValuesTypeOK'
  <2>1. pending[w] \in Commit
    BY <1>26 DEF MergeToStaging
  <2>2. Append(staging, Pick(pending[w], tree)) \in Seq(Entry)
    BY <2>1, PickEntry, AppendEntry
  <2>3. PickedTree(pending[w], tree) \in SUBSET Commit
    BY <2>1 DEF PickedTree
  <2>4. staging' \in Seq(Entry) /\ tree' \in SUBSET Commit /\ branch' \in [Worker -> SUBSET Commit]
    <3>1. \/ /\ staging' = Append(staging, Pick(pending[w], tree))
             /\ tree' = PickedTree(pending[w], tree)
          \/ UNCHANGED <<staging, tree>>
      BY <1>26 DEF MergeToStaging
    <3>2. staging' \in Seq(Entry) /\ tree' \in SUBSET Commit
      BY <2>2, <2>3, <3>1
    <3>3. branch' = branch \/ branch' = [branch EXCEPT ![w] = {}]
      BY <1>26 DEF MergeToStaging
    <3>4. branch' \in [Worker -> SUBSET Commit]
      BY <3>3
    <3> QED
      BY <3>2, <3>4
  <2> QED
    BY <1>26, <2>4 DEF MergeToStaging, Move
<1>27. ASSUME NEW w \in Worker, RecordCommit(w)
       PROVE  ValuesTypeOK'
  BY <1>27 DEF RecordCommit, Release, Record
<1>28. ASSUME NEW w \in Worker, PersistConflict(w)
       PROVE  ValuesTypeOK'
  BY <1>28 DEF PersistConflict, Release, WithConflict, ConflictFile
<1>29. ASSUME NEW cleans_up \in BOOLEAN, Crash(cleans_up)
       PROVE  ValuesTypeOK'
  BY <1>29 DEF Crash, ForgetRun, Every
<1>30. ASSUME RemoveWorktrees
       PROVE  ValuesTypeOK'
  BY <1>30 DEF RemoveWorktrees
<1>31. ASSUME NEW only_fixers \in BOOLEAN, Resume(only_fixers)
       PROVE  ValuesTypeOK'
  BY <1>31 DEF Resume, ForgetRun, Every, WorkersFromStaging, ResumeCycle, Exit, Actionable
<1>32. ASSUME Finished
       PROVE  ValuesTypeOK'
  BY <1>32 DEF Finished
<1> QED
  BY <1>1, <1>2, <1>3, <1>4, <1>5, <1>6, <1>7, <1>8, <1>9, <1>10, <1>11, <1>12, <1>13,
     <1>14, <1>15, <1>16, <1>17, <1>18, <1>19, <1>20, <1>21, <1>22, <1>23, <1>24, <1>25,
     <1>26, <1>27, <1>28, <1>29, <1>30, <1>31, <1>32 DEF Next, Loop, Thread
LEMMA FlagStep ==
  ASSUME FlagTypeOK, Next
  PROVE  FlagTypeOK'
<1> USE DEF stopVars, metaVars, FlagTypeOK
<1>1. ASSUME \/ WalltimeExit \/ StartCycle \/ JoinEvaluation \/ JoinFixers \/ Settle
             \/ BeginRevert \/ EndRevert \/ Publish \/ RemoveWorktrees \/ Finished
             \/ \E t \in Track : ReuseFindings(t)
             \/ \E r \in to_revert : RevertCommit(r)
      PROVE  FlagTypeOK'
  BY <1>1, Zenon DEF WalltimeExit, StartCycle, JoinEvaluation, JoinFixers, Settle, BeginRevert,
     EndRevert, Publish, RemoveWorktrees, Finished, vars, ReuseFindings, RevertCommit
<1>2. ASSUME NEW t \in Track, EvaluateTrack(t)
      PROVE  FlagTypeOK'
  BY <1>2, Zenon DEF EvaluateTrack
<1>3. ASSUME NEW f \in queue, DropFinding(f)
      PROVE  FlagTypeOK'
  BY <1>3, Zenon DEF DropFinding
<1>4. ASSUME NEW w \in Worker, Thread(w)
      PROVE  FlagTypeOK'
  <2>1. ASSUME NEW o \in Outcome, RunFixer(w, o)
        PROVE  FlagTypeOK'
    BY <2>1, Zenon DEF RunFixer
  <2>2. CASE \/ SkipLanded(w) \/ SkipConflicted(w) \/ PassResumeChecks(w) \/ ScanOrphans(w)
             \/ ResetWorker(w) \/ RollBackLeak(w) \/ CommitFix(w) \/ AcceptBypass(w)
             \/ CommitMarker(w) \/ NoChange(w) \/ MergeToStaging(w) \/ RecordCommit(w)
             \/ PersistConflict(w)
    BY <2>2, Zenon DEF SkipLanded, SkipConflicted, PassResumeChecks, ScanOrphans, ResetWorker,
       RollBackLeak, CommitFix, AcceptBypass, CommitMarker, NoChange, MergeToStaging,
       RecordCommit, PersistConflict
  <2>3. CASE (\E f \in queue : TakeFinding(w, f)) \/ \E c \in orphans[w] : RecoverOrphan(w, c)
    BY <2>3, Zenon DEF TakeFinding, RecoverOrphan
  <2> QED
    BY <1>4, <2>1, <2>2, <2>3 DEF Thread
<1>5. ASSUME NEW cleans_up \in BOOLEAN, Crash(cleans_up)
      PROVE  FlagTypeOK'
  BY <1>5, Zenon DEF Crash, ForgetRun
<1>6. ASSUME NEW only_fixers \in BOOLEAN, Resume(only_fixers)
      PROVE  FlagTypeOK'
  BY <1>6, Zenon DEF Resume, ForgetRun
<1> QED
  BY <1>1, <1>2, <1>3, <1>4, <1>5, <1>6 DEF Next, Loop

-----------------------------------------------------------------------------
(* How staging changes: not at all, or by one more entry, of a commit that *)
(* is this invocation's or is on staging already.                          *)
Grows ==
  \/ staging' = staging
  \/ \E e \in Entry : staging' = Append(staging, e) /\ (Own(e.c) \/ OnStaging(e.c))

(* A step of the loop that only reads what the threads work on.            *)
Quiet == UNCHANGED <<staging, branch, conflict_files, invocation, stage, task, outcome,
                     pending, orphans>>

(* A step of w's thread leaves the other workers alone.                    *)
SameWorker(v) ==
  /\ stage'[v] = stage[v] /\ task'[v] = task[v] /\ outcome'[v] = outcome[v]
  /\ pending'[v] = pending[v] /\ orphans'[v] = orphans[v] /\ branch'[v] = branch[v]

LEMMA AppendFacts ==
  ASSUME staging \in Seq(Entry), NEW e \in Entry, staging' = Append(staging, e)
  PROVE  /\ DOMAIN staging' = DOMAIN staging \cup {Len(staging) + 1}
         /\ \A i \in DOMAIN staging : staging'[i] = staging[i]
         /\ staging'[Len(staging) + 1] = e
OBVIOUS

LEMMA GrowthKeeps ==
  ASSUME staging \in Seq(Entry), Grows, invocation' = invocation
  PROVE  /\ \A c : OnStaging(c) => OnStaging(c)'
         /\ \A c : Reached(c) => Reached(c)'
         /\ \A f : Fresh(f) => Fresh(f)'
         /\ \A c : Own(c) => Own(c)'
         /\ OneAttemptPerFinding => OneAttemptPerFinding'
<1>1. CASE staging' = staging
  BY <1>1 DEF OnStaging, Reached, Fresh, Own, OneAttemptPerFinding
<1>2. CASE \E e \in Entry : staging' = Append(staging, e) /\ (Own(e.c) \/ OnStaging(e.c))
  <2> PICK e \in Entry : staging' = Append(staging, e) /\ (Own(e.c) \/ OnStaging(e.c))
    BY <1>2
  <2> DEFINE last == Len(staging) + 1
  <2>1. /\ DOMAIN staging' = DOMAIN staging \cup {last}
        /\ \A i \in DOMAIN staging : staging'[i] = staging[i]
        /\ staging'[last] = e
    BY AppendFacts
  <2> HIDE DEF last
  <2>2. \A c : OnStaging(c) => OnStaging(c)'
    BY <2>1 DEF OnStaging
  <2>3. \A c : Reached(c) => Reached(c)'
    BY <2>1 DEF Reached
  <2>4. ASSUME NEW f, Fresh(f), NamesFinding(e, f)
        PROVE  e.c.n = invocation
    BY <2>4 DEF Fresh, Own, OnStaging, NamesFinding
  <2>5. \A f : Fresh(f) => Fresh(f)'
    BY <2>1, <2>4 DEF Fresh
  <2>6. \A c : Own(c) => Own(c)'
    BY <2>5 DEF Own
  <2>7. ASSUME OneAttemptPerFinding, NEW i \in DOMAIN staging,
               e.c.tagged, staging[i].c.tagged, staging[i].c.f = e.c.f
        PROVE  staging[i].c.n = e.c.n
    BY <2>7 DEF Own, Fresh, OnStaging, NamesFinding, OneAttemptPerFinding
  <2>8. OneAttemptPerFinding => OneAttemptPerFinding'
    BY <2>1, <2>7 DEF OneAttemptPerFinding
  <2> QED
    BY <2>2, <2>3, <2>5, <2>6, <2>8
<1> QED
  BY <1>1, <1>2 DEF Grows

LEMMA QuietSteps ==
  ASSUME \/ WalltimeExit \/ StartCycle \/ JoinEvaluation \/ JoinFixers \/ Settle
         \/ BeginRevert \/ EndRevert \/ Publish \/ RemoveWorktrees \/ Finished
         \/ \E t \in Track : ReuseFindings(t) \/ EvaluateTrack(t)
         \/ \E f \in queue : DropFinding(f)
         \/ UNCHANGED vars
  PROVE  Quiet
<1> USE DEF Quiet, vars, gitVars, fileVars, metaVars, poolVars
<1> QED
  BY Zenon DEF WalltimeExit, StartCycle, JoinEvaluation, JoinFixers, Settle, BeginRevert,
     EndRevert, Publish, RemoveWorktrees, Finished, ReuseFindings, EvaluateTrack, DropFinding

LEMMA SameWorkerOK ==
  ASSUME NEW v \in Worker, WorkerOK(v), SameWorker(v), staging \in Seq(Entry), Grows,
         invocation' = invocation, \A c : Filed(c) => Filed(c)'
  PROVE  WorkerOK(v)'
<1>1. HasLocals(v)'
  BY DEF WorkerOK, HasLocals, SameWorker
<1>2. CommitsOwn(v)'
  BY GrowthKeeps DEF WorkerOK, CommitsOwn, SameWorker
<1>3. MergedFirst(v)'
  BY GrowthKeeps DEF WorkerOK, MergedFirst, SameWorker
<1>4. RescueComplete(v)'
  BY GrowthKeeps DEF WorkerOK, RescueComplete, SameWorker
<1> QED
  BY <1>1, <1>2, <1>3, <1>4 DEF WorkerOK

LEMMA ConflictFiled ==
  ASSUME NEW files, NEW x
  PROVE  /\ \E y \in WithConflict(files, x) : y.id = x.id
         /\ \A k : (\E y \in files : y.id = k) => \E y \in WithConflict(files, x) : y.id = k
BY DEF WithConflict

LEMMA SameOthers ==
  ASSUME PoolTypeOK, branch \in [Worker -> SUBSET Commit], NEW w \in Worker, Thread(w)
  PROVE  \A v \in Worker \ {w} : SameWorker(v)
<1> SUFFICES ASSUME NEW v \in Worker, v # w
             PROVE  SameWorker(v)
  OBVIOUS
<1> USE DEF PoolTypeOK, SameWorker, gitVars, poolVars, Move
<1>1. ASSUME Release(w)
      PROVE  /\ stage'[v] = stage[v] /\ task'[v] = task[v] /\ outcome'[v] = outcome[v]
             /\ pending'[v] = pending[v] /\ orphans'[v] = orphans[v]
  BY <1>1 DEF Release
<1>2. CASE \/ \E f \in queue : TakeFinding(w, f)
           \/ SkipLanded(w) \/ SkipConflicted(w) \/ PassResumeChecks(w) \/ ScanOrphans(w)
  BY <1>1, <1>2 DEF TakeFinding, SkipLanded, SkipConflicted, PassResumeChecks, ScanOrphans
<1>3. CASE ResetWorker(w) \/ \E c \in orphans[w] : RecoverOrphan(w, c)
  BY <1>3 DEF ResetWorker, RecoverOrphan
<1>4. CASE \E o \in Outcome : RunFixer(w, o)
  BY <1>1, <1>4 DEF RunFixer
<1>5. CASE RollBackLeak(w) \/ CommitFix(w)
  BY <1>1, <1>5 DEF RollBackLeak, CommitFix
<1>6. CASE AcceptBypass(w) \/ CommitMarker(w) \/ NoChange(w)
  BY <1>1, <1>6 DEF AcceptBypass, CommitMarker, NoChange
<1>7. CASE MergeToStaging(w) \/ RecordCommit(w) \/ PersistConflict(w)
  BY <1>1, <1>7 DEF MergeToStaging, RecordCommit, PersistConflict
<1> QED
  BY <1>2, <1>3, <1>4, <1>5, <1>6, <1>7 DEF Thread

LEMMA ThreadGrows ==
  ASSUME TypeOK, NEW w \in Worker, WorkerOK(w), Thread(w)
  PROVE  /\ Grows /\ invocation' = invocation
         /\ \A c : Filed(c) => Filed(c)'
<1> USE DEF Grows, Filed, gitVars, fileVars, metaVars
<1>1. CASE \/ \E f \in queue : TakeFinding(w, f)
           \/ SkipLanded(w) \/ SkipConflicted(w) \/ PassResumeChecks(w) \/ ScanOrphans(w)
           \/ ResetWorker(w) \/ \E o \in Outcome : RunFixer(w, o)
           \/ RollBackLeak(w) \/ CommitFix(w) \/ AcceptBypass(w) \/ CommitMarker(w)
           \/ NoChange(w) \/ RecordCommit(w)
  BY <1>1, Zenon DEF TakeFinding, SkipLanded, SkipConflicted, PassResumeChecks, ScanOrphans,
     ResetWorker, RunFixer, RollBackLeak, CommitFix, AcceptBypass, CommitMarker, NoChange,
     RecordCommit
<1>2. ASSUME NEW c \in orphans[w], RecoverOrphan(w, c)
      PROVE  /\ Grows /\ invocation' = invocation
             /\ \A d : Filed(d) => Filed(d)'
  <2>1. c \in Commit /\ Own(c)
    BY <1>2 DEF TypeOK, PoolTypeOK, WorkerOK, CommitsOwn
  <2>2. Grows
    BY <1>2, <2>1, PickEntry DEF RecoverOrphan
  <2>3. \A d : Filed(d) => Filed(d)'
    <3>1. CASE UNCHANGED conflict_files
      BY <3>1
    <3>2. CASE conflict_files' = WithConflict(conflict_files,
                                   [id |-> IdOf[c.f], dir |-> "unknown", c |-> c])
      BY <3>2, ConflictFiled
    <3> QED
      BY <1>2, <3>1, <3>2 DEF RecoverOrphan
  <2> QED
    BY <1>2, <2>2, <2>3 DEF RecoverOrphan
<1>3. CASE MergeToStaging(w)
  <2>1. pending[w] \in Commit /\ Own(pending[w])
    BY <1>3 DEF MergeToStaging, WorkerOK, HasLocals, CommitsOwn
  <2>2. Grows
    BY <1>3, <2>1, PickEntry DEF MergeToStaging
  <2> QED
    BY <1>3, <2>2 DEF MergeToStaging
<1>4. CASE PersistConflict(w)
  BY <1>4, ConflictFiled DEF PersistConflict
<1> QED
  BY <1>1, <1>2, <1>3, <1>4 DEF Thread

LEMMA WorkerStep ==
  ASSUME TypeOK, NEW w \in Worker, WorkerOK(w), Thread(w)
  PROVE  WorkerOK(w)'
<1> USE BranchAssumption, RunAssumption
<1> USE DEF WorkerOK, HasLocals, CommitsOwn, MergedFirst, RescueComplete
<1> USE DEF TypeOK, GitTypeOK, PoolTypeOK, Move, gitVars, poolVars, metaVars
<1>1. /\ \A c : OnStaging(c) => OnStaging(c)'
      /\ \A c : Reached(c) => Reached(c)'
      /\ \A f : Fresh(f) => Fresh(f)'
      /\ \A c : Own(c) => Own(c)'
      /\ invocation' = invocation
      /\ \A c : Filed(c) => Filed(c)'
  BY ThreadGrows, GrowthKeeps
<1>2. ASSUME Release(w), stage[w] # "syncing", \A c \in branch'[w] : Own(c)
      PROVE  WorkerOK(w)'
  BY <1>1, <1>2 DEF Release
<1>3. ASSUME NEW f \in queue, TakeFinding(w, f)
      PROVE  WorkerOK(w)'
  BY <1>1, <1>3 DEF TakeFinding, RunTypeOK
<1>4. CASE \/ SkipLanded(w) \/ SkipConflicted(w) \/ NoChange(w) \/ RecordCommit(w)
           \/ PersistConflict(w)
  BY <1>2, <1>4 DEF SkipLanded, SkipConflicted, NoChange, RecordCommit, PersistConflict
<1>5. CASE PassResumeChecks(w)
  <2>1. Fresh(task[w])
    BY <1>5 DEF PassResumeChecks, CommitExists, Fresh
  <2> QED
    BY <1>1, <1>5, <2>1 DEF PassResumeChecks
<1>6. CASE ScanOrphans(w)
  BY <1>1, <1>6 DEF ScanOrphans, Unmerged
<1>7. CASE ResetWorker(w)
  BY <1>1, <1>7 DEF ResetWorker
<1>8. ASSUME NEW c \in orphans[w], RecoverOrphan(w, c)
      PROVE  WorkerOK(w)'
  <2>1. /\ stage'[w] = "syncing" /\ task' = task /\ branch' = branch
        /\ orphans'[w] = orphans[w] \ {c}
    BY <1>8 DEF RecoverOrphan
  <2>2. Reached(c)' \/ Filed(c)'
    <3>1. CASE staging' = Append(staging, Pick(c, tree))
      BY <3>1, PickEntry, AppendFacts DEF Reached, Pick
    <3>2. CASE conflict_files' = WithConflict(conflict_files,
                                   [id |-> IdOf[c.f], dir |-> "unknown", c |-> c])
      BY <3>2, ConflictFiled DEF Filed
    <3> QED
      BY <1>8, <3>1, <3>2 DEF RecoverOrphan
  <2> QED
    BY <1>1, <1>8, <2>1, <2>2 DEF RecoverOrphan
<1>9. ASSUME NEW o \in Outcome, RunFixer(w, o)
      PROVE  WorkerOK(w)'
  BY <1>1, <1>2, <1>9 DEF RunFixer, Own, OwnCommits, NewCommit
<1>10. CASE RollBackLeak(w)
  BY <1>2, <1>10 DEF RollBackLeak
<1>merge. ASSUME stage[w] = "landing", NEW c \in Commit, Own(c), Move(w, "merging"),
              pending' = [pending EXCEPT ![w] = c], UNCHANGED <<task, orphans>>,
              \A d \in branch'[w] : Own(d)
       PROVE  WorkerOK(w)'
  BY <1>1, <1>merge
<1>own. ASSUME stage[w] = "landing", NEW kind \in {"fix", "bypass", "marker"},
              NEW tagged \in BOOLEAN, NEW good \in BOOLEAN
       PROVE  NewCommit(task[w], kind, tagged, good) \in Commit
              /\ Own(NewCommit(task[w], kind, tagged, good))
  BY <1>own, NewCommitType DEF NewCommit, Own, RunTypeOK
<1>11. CASE CommitFix(w)
  <2> DEFINE c == NewCommit(task[w], "fix", TRUE, outcome[w].clean /\ outcome[w].verdict = "passed")
  <2>1. c \in Commit /\ Own(c)
    BY <1>11, <1>own DEF CommitFix
  <2>2. \A d \in branch'[w] : Own(d)
    BY <1>11, <2>1 DEF CommitFix
  <2>3. \/ Release(w)
        \/ pending' = [pending EXCEPT ![w] = c] /\ Move(w, "merging") /\ UNCHANGED <<task, orphans>>
    BY <1>11 DEF CommitFix
  <2>4. stage[w] = "landing"
    BY <1>11 DEF CommitFix
  <2> HIDE DEF c
  <2> QED
    BY <1>2, <1>merge, <2>1, <2>2, <2>3, <2>4
<1>12. CASE AcceptBypass(w)
  <2>1. PICK c \in OwnCommits(task[w], outcome[w]) : pending' = [pending EXCEPT ![w] = c]
    BY <1>12 DEF AcceptBypass
  <2>2. c \in Commit /\ Own(c)
    BY <1>12, <1>own, OwnCommitsType, <2>1 DEF AcceptBypass, OwnCommits, RunTypeOK, NewCommit, Own
  <2> QED
    BY <1>12, <1>merge, <2>1, <2>2 DEF AcceptBypass
<1>13. CASE CommitMarker(w)
  <2> DEFINE c == NewCommit(task[w], "marker", TRUE, outcome[w].verdict = "passed")
  <2>1. c \in Commit /\ Own(c)
    BY <1>13, <1>own DEF CommitMarker
  <2>2. \A d \in branch'[w] : Own(d)
    BY <1>13, <2>1 DEF CommitMarker
  <2>3. /\ pending' = [pending EXCEPT ![w] = c] /\ Move(w, "merging")
        /\ UNCHANGED <<task, orphans>> /\ stage[w] = "landing"
    BY <1>13 DEF CommitMarker
  <2> HIDE DEF c
  <2> QED
    BY <1>merge, <2>1, <2>2, <2>3
<1>14. CASE MergeToStaging(w)
  BY <1>1, <1>14, PickEntry, AppendFacts DEF MergeToStaging, OnStaging
<1> QED
  BY <1>3, <1>4, <1>5, <1>6, <1>7, <1>8, <1>9, <1>10, <1>11, <1>12, <1>13, <1>14, ThreadGrows
     DEF Thread

LEMMA PhaseStep ==
  ASSUME TypeOK, PhaseOK, Next
  PROVE  PhaseOK'
<1> USE DEF PhaseOK, Exit, Goto, loopVars, poolVars
<1>1. ASSUME NEW w \in Worker, Thread(w)
      PROVE  PhaseOK'
  <2>1. stage[w] = "idle" => phase = "fix"
    BY <1>1 DEF Thread, TakeFinding, SkipLanded, SkipConflicted, PassResumeChecks, ScanOrphans,
       ResetWorker, RecoverOrphan, RunFixer, RollBackLeak, CommitFix, AcceptBypass,
       CommitMarker, NoChange, MergeToStaging, RecordCommit, PersistConflict
  <2>2. UNCHANGED <<phase, cycle>>
    BY <1>1, Zenon DEF Thread, TakeFinding, SkipLanded, SkipConflicted, PassResumeChecks,
       ScanOrphans, ResetWorker, RecoverOrphan, RunFixer, RollBackLeak, CommitFix,
       AcceptBypass, CommitMarker, NoChange, MergeToStaging, RecordCommit, PersistConflict
  <2> QED
    BY <2>1, <2>2
<1>2. CASE \/ WalltimeExit \/ JoinEvaluation \/ JoinFixers \/ Settle \/ BeginRevert
           \/ EndRevert \/ Publish
  BY <1>2 DEF WalltimeExit, JoinEvaluation, JoinFixers, Settle, BeginRevert, EndRevert, Publish
<1>3. CASE StartCycle
  BY <1>3 DEF StartCycle, TypeOK, RunTypeOK
<1>4. CASE \/ \E t \in Track : ReuseFindings(t) \/ EvaluateTrack(t)
           \/ \E r \in to_revert : RevertCommit(r)
           \/ \E f \in queue : DropFinding(f)
  BY <1>4 DEF ReuseFindings, EvaluateTrack, RevertCommit, DropFinding
<1>5. CASE \E cleans_up \in BOOLEAN : Crash(cleans_up)
  BY <1>5 DEF Crash, Every
<1>6. CASE \E only_fixers \in BOOLEAN : Resume(only_fixers)
  BY <1>6 DEF Resume
<1>7. CASE RemoveWorktrees \/ Finished
  BY <1>7 DEF RemoveWorktrees, Finished, vars
<1> QED
  BY <1>1, <1>2, <1>3, <1>4, <1>5, <1>6, <1>7 DEF Next, Loop

LEMMA RevertGrows ==
  ASSUME TypeOK, RecordsOnStaging, NEW r \in to_revert, RevertCommit(r)
  PROVE  Grows
<1>1. r \in Record /\ OnStaging(r.c)
  BY DEF TypeOK, BookTypeOK, RecordsOnStaging
<1> QED
  BY <1>1, UndoEntry DEF RevertCommit, Grows

LEMMA RecordsStep ==
  ASSUME TypeOK, RecordsOnStaging, \A w \in Worker : WorkerOK(w), Next
  PROVE  RecordsOnStaging'
<1> USE DEF bookVars, gitVars
<1>1. ASSUME UNCHANGED staging, \A r \in (commits \cup to_revert)' : OnStaging(r.c)
      PROVE  RecordsOnStaging'
  BY <1>1 DEF RecordsOnStaging, OnStaging
<1>2. ASSUME Grows, UNCHANGED invocation, \A r \in (commits \cup to_revert)' : OnStaging(r.c)
      PROVE  RecordsOnStaging'
  BY <1>2, GrowthKeeps DEF RecordsOnStaging, TypeOK, GitTypeOK
<1>3. ASSUME NEW w \in Worker, Thread(w)
      PROVE  RecordsOnStaging'
  <2>1. CASE SkipLanded(w)
    BY <1>1, <2>1 DEF SkipLanded, RecordsOnStaging, OnStaging, NewestNaming
  <2>2. CASE RecordCommit(w)
    BY <1>1, <2>2 DEF RecordCommit, RecordsOnStaging, WorkerOK, MergedFirst
  <2>3. UNCHANGED <<commits, to_revert>> \/ SkipLanded(w) \/ RecordCommit(w)
    BY <1>3, Zenon DEF Thread, TakeFinding, SkipConflicted, PassResumeChecks, ScanOrphans,
       ResetWorker, RecoverOrphan, RunFixer, RollBackLeak, CommitFix, AcceptBypass,
       CommitMarker, NoChange, MergeToStaging, PersistConflict
  <2> QED
    BY <1>2, <1>3, <2>1, <2>2, <2>3, ThreadGrows DEF RecordsOnStaging
<1>4. ASSUME NEW r \in to_revert, RevertCommit(r)
      PROVE  RecordsOnStaging'
  BY <1>2, <1>4, RevertGrows DEF RevertCommit, RecordsOnStaging, metaVars
<1>5. CASE BeginRevert
  BY <1>1, <1>5 DEF BeginRevert, RecordsOnStaging
<1>6. CASE \/ \E cleans_up \in BOOLEAN : Crash(cleans_up)
           \/ \E only_fixers \in BOOLEAN : Resume(only_fixers)
  BY <1>6 DEF Crash, Resume, ForgetRun, RecordsOnStaging
<1>7. CASE \/ WalltimeExit \/ StartCycle \/ JoinEvaluation \/ JoinFixers \/ Settle
           \/ EndRevert \/ Publish \/ RemoveWorktrees \/ Finished
           \/ \E t \in Track : ReuseFindings(t) \/ EvaluateTrack(t)
           \/ \E f \in queue : DropFinding(f)
  <2>1. UNCHANGED <<staging, commits, to_revert>>
    BY <1>7, Zenon DEF WalltimeExit, StartCycle, JoinEvaluation, JoinFixers, Settle, EndRevert,
       Publish, RemoveWorktrees, Finished, vars, ReuseFindings, EvaluateTrack, DropFinding
  <2> QED
    BY <1>1, <2>1 DEF RecordsOnStaging
<1> QED
  BY <1>3, <1>4, <1>5, <1>6, <1>7 DEF Next, Loop

(* A crash forgets the threads; a resumed run starts with idle threads on  *)
(* workers cut from staging.                                               *)
LEMMA RestartStep ==
  ASSUME IInv,
         \/ \E cleans_up \in BOOLEAN : Crash(cleans_up)
         \/ \E only_fixers \in BOOLEAN : Resume(only_fixers)
  PROVE  (\A w \in Worker : WorkerOK(w)') /\ OneAttemptPerFinding'
<1> USE DEF IInv, WorkerOK, HasLocals, CommitsOwn, MergedFirst, RescueComplete, poolVars
<1>1. OneAttemptPerFinding'
  BY DEF Crash, Resume, gitVars, OneAttemptPerFinding
<1>2. ASSUME NEW w \in Worker
      PROVE  WorkerOK(w)'
  <2>1. CASE \E cleans_up \in BOOLEAN : Crash(cleans_up)
    <3>1. UNCHANGED <<staging, branch, invocation>>
      BY <2>1 DEF Crash, gitVars
    <3>2. stage'[w] = "idle" /\ orphans'[w] = {}
      BY <2>1 DEF Crash, Every
    <3>3. \A c \in branch'[w] : Own(c)'
      BY <3>1 DEF Own, Fresh
    <3> QED
      BY <3>2, <3>3
  <2>2. CASE \E only_fixers \in BOOLEAN : Resume(only_fixers)
    <3>1. stage'[w] = "idle" /\ orphans'[w] = {} /\ branch'[w] = {}
      BY <2>2 DEF Resume, PhaseOK, WorkersFromStaging, Every
    <3> QED
      BY <3>1
  <2> QED
    BY <2>1, <2>2
<1> QED
  BY <1>1, <1>2

LEMMA InvStep == IInv /\ [Next]_vars => IInv'
<1> SUFFICES ASSUME IInv, [Next]_vars
             PROVE  IInv'
  OBVIOUS
<1> USE DEF IInv
<1>1. ASSUME Quiet
      PROVE  (\A w \in Worker : WorkerOK(w)') /\ OneAttemptPerFinding'
  BY <1>1 DEF Quiet, WorkerOK, HasLocals, CommitsOwn, MergedFirst, RescueComplete, Own, Fresh,
     OnStaging, Reached, Filed, OneAttemptPerFinding
<1>2. CASE UNCHANGED vars
  <2> USE DEF vars, gitVars, fileVars, evalVars, metaVars, loopVars, stopVars, bookVars, poolVars
  <2>1. ValuesTypeOK' /\ PhaseOK' /\ RecordsOnStaging'
    BY <1>2 DEF TypeOK, ValuesTypeOK, GitTypeOK, FileTypeOK, EvalTypeOK, RunTypeOK, BookTypeOK,
       PoolTypeOK, PhaseOK, RecordsOnStaging, OnStaging
  <2>2. FlagTypeOK'
    BY <1>2, Zenon DEF TypeOK, FlagTypeOK
  <2> QED
    BY <1>1, <1>2, <2>1, <2>2, QuietSteps DEF TypeOK, ValuesTypeOK
<1>3. CASE Next
  <2>1. TypeOK'
    BY <1>3, TypeStep, FlagStep DEF TypeOK, ValuesTypeOK, WorkerOK
  <2>2. PhaseOK' /\ RecordsOnStaging'
    BY <1>3, PhaseStep, RecordsStep
  <2>3. ASSUME NEW v \in Worker, Thread(v)
        PROVE  (\A w \in Worker : WorkerOK(w)') /\ OneAttemptPerFinding'
    <3>1. WorkerOK(v)'
      BY <2>3, WorkerStep
    <3>2. Grows /\ invocation' = invocation /\ \A c : Filed(c) => Filed(c)'
      BY <2>3, ThreadGrows
    <3>3. \A w \in Worker \ {v} : SameWorker(w)
      BY <2>3, SameOthers DEF TypeOK, GitTypeOK
    <3> QED
      BY <3>1, <3>2, <3>3, SameWorkerOK, GrowthKeeps DEF TypeOK, GitTypeOK
  <2>4. ASSUME NEW r \in to_revert, RevertCommit(r)
        PROVE  (\A w \in Worker : WorkerOK(w)') /\ OneAttemptPerFinding'
    <3>1. Grows
      BY <2>4, RevertGrows
    <3>2. UNCHANGED <<branch, conflict_files, invocation, stage, task, outcome, pending, orphans>>
      BY <2>4, Zenon DEF RevertCommit, fileVars, metaVars, poolVars
    <3>3. \A w \in Worker : SameWorker(w)
      BY <3>2 DEF SameWorker
    <3>4. \A c : Filed(c) => Filed(c)'
      BY <3>2 DEF Filed
    <3> QED
      BY <3>1, <3>2, <3>3, <3>4, SameWorkerOK, GrowthKeeps DEF TypeOK, GitTypeOK
  <2>5. (\A w \in Worker : WorkerOK(w)') /\ OneAttemptPerFinding'
    <3>1. CASE \/ \E cleans_up \in BOOLEAN : Crash(cleans_up)
               \/ \E only_fixers \in BOOLEAN : Resume(only_fixers)
      BY <3>1, RestartStep
    <3>2. CASE \/ WalltimeExit \/ StartCycle \/ JoinEvaluation \/ JoinFixers \/ Settle
               \/ BeginRevert \/ EndRevert \/ Publish \/ RemoveWorktrees \/ Finished
               \/ \E t \in Track : ReuseFindings(t) \/ EvaluateTrack(t)
               \/ \E f \in queue : DropFinding(f)
      <4>1. Quiet
        BY <3>2, QuietSteps, Zenon
      <4> QED
        BY <1>1, <4>1
    <3> QED
      BY <1>3, <2>3, <2>4, <3>1, <3>2, Zenon DEF Next, Loop
  <2> QED
    BY <2>1, <2>2, <2>5
<1> QED
  BY <1>2, <1>3

-----------------------------------------------------------------------------
(* The inductive invariant holds in every state of every execution.        *)
THEOREM Invariant == Spec => []IInv
BY InitIInv, InvStep, PTL DEF Spec

(* Every variable of a run keeps its type: in particular the locals of the *)
(* threads and the staging branch, across crashes and resumptions.         *)
THEOREM TypesCorrect == Spec => []TypeOK
<1>1. IInv => TypeOK
  BY DEF IInv
<1> QED
  BY <1>1, Invariant, PTL

(* A finding is fixed by the attempts of one invocation only, however many *)
(* workers, crashes, resumptions and rescued commits there are.            *)
THEOREM OneAttempt == Spec => []OneAttemptPerFinding
<1>1. IInv => OneAttemptPerFinding
  BY DEF IInv
<1> QED
  BY <1>1, Invariant, PTL

(* The reset of a worker for its next finding discards no fix commit that  *)
(* has neither reached staging nor got a conflict file.                    *)
THEOREM ResetDiscardsNoFix == Spec => NoFixDiscarded
<1>1. ASSUME IInv, [Next]_vars, NEW w \in Worker, stage[w] = "syncing"
      PROVE  \A c \in branch[w] \ branch'[w] : c.tagged => Reached(c) \/ Filed(c)
  <2>1. phase = "fix"
    BY <1>1 DEF IInv, PhaseOK
  <2>2. CASE ResetWorker(w)
    BY <1>1, <2>2 DEF ResetWorker, IInv, WorkerOK, RescueComplete
  <2>3. ASSUME Thread(w), ~ResetWorker(w)
        PROVE  branch' = branch
    BY <1>1, <2>3 DEF Thread, TakeFinding, SkipLanded, SkipConflicted, PassResumeChecks,
       ScanOrphans, RecoverOrphan, RunFixer, RollBackLeak, CommitFix, AcceptBypass,
       CommitMarker, NoChange, MergeToStaging, RecordCommit, PersistConflict
  <2>4. ASSUME NEW v \in Worker, v # w, Thread(v)
        PROVE  branch'[w] = branch[w]
    BY <2>4, <1>1, SameOthers DEF IInv, TypeOK, GitTypeOK, SameWorker
  <2>5. ASSUME NEW r \in to_revert, RevertCommit(r)
        PROVE  branch' = branch
    BY <2>5 DEF RevertCommit
  <2>6. CASE \E cleans_up \in BOOLEAN : Crash(cleans_up)
    BY <2>6 DEF Crash, gitVars
  <2>7. CASE \E only_fixers \in BOOLEAN : Resume(only_fixers)
    BY <2>1, <2>7 DEF Resume
  <2>8. ASSUME \/ WalltimeExit \/ StartCycle \/ JoinEvaluation \/ JoinFixers \/ Settle
               \/ BeginRevert \/ EndRevert \/ Publish \/ RemoveWorktrees \/ Finished
               \/ \E t \in Track : ReuseFindings(t) \/ EvaluateTrack(t)
               \/ \E f \in queue : DropFinding(f)
               \/ UNCHANGED vars
        PROVE  branch' = branch
    BY <2>8, QuietSteps DEF Quiet
  <2>9. \/ ResetWorker(w) \/ branch'[w] = branch[w]
        \/ \E cleans_up \in BOOLEAN : Crash(cleans_up)
        \/ \E only_fixers \in BOOLEAN : Resume(only_fixers)
    BY <1>1, <2>3, <2>4, <2>5, <2>8 DEF Next, Loop
  <2> QED
    BY <2>2, <2>6, <2>7, <2>9
<1>2. IInv /\ [Next]_vars =>
        [\A w \in Worker : stage[w] = "syncing" =>
           \A c \in branch[w] \ branch'[w] : c.tagged => Reached(c) \/ Filed(c)]_vars
  BY <1>1
<1> QED
  BY <1>2, Invariant, PTL DEF Spec, NoFixDiscarded
=============================================================================
