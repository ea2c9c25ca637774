# Verification of gofreddy

TLA+ models of the parts of gofreddy whose correctness depends on the order in
which things happen, the TLC runs that check them on small instances, and TLAPS
proofs of what matters most for every instance.

Paths are those of the repository, without the leading `src/` of `PROJECT.json`
(the repository has itself a `src/` directory).

## 1. Inventory

| part | state | operations | what is hard |
|---|---|---|---|
| **Fix harness** `harness/` (section 3) | git branches (staging, one per worker), run directory (findings, sentinels, verdicts, conflict files), pull request; in memory `RunState`, a worker pool and a lock | evaluate tracks, process a finding, rescue, merge, revert, publish, resume | threads on one branch, a crash at any point, resumption from git and files alone, commit subjects as identity |
| harness agent sessions `engine.py`, `sessions.py` | append-only logs, `sessions.json` | run an agent with retries, detect rate limits, resume a session | retries over a shared log, stale events |
| **autoresearch evolution** `autoresearch/evolve.py`, `evolve_ops.py`, `lane_runtime.py`, `evaluate_variant.py` (section 7) | variant directories, `lineage.jsonl`, `current.json`, private holdout results, `head_score` events | generations, resume, finalize, promote, undo, roll back | read-modify-write of whole files by processes that run for hours, two writes per promotion, ids minted again, a kill at any point |
| autoresearch concurrency `concurrency.py`, `agent_retry.py` | one process-wide semaphore | `parallel_for`, retry with backoff | nested use, cancellation |
| **autoresearch events** `events.py` (section 10) | log file and rotated segments | append, rotate, tail | several writers and readers, a rotation outside the lock |
| **studio** `src/video_projects/` (section 8) | rows of a project, its scenes, its latest render job | edit, reorder, delete, preview, verify, approve, render | requests that hold no lock while they wait for an image for minutes |
| **audit pipeline** `src/audit/`, `cli/freddy/commands/audit.py` (section 9) | `state.json`, `cost_actual.json`, the files of every stage | run to the next gate, gate commands, publish, init | a kill at any step, files on disk taken for success, one of several agents failing, resumption |
| audit: resume, graceful stop, cleanup, ledger | flags, handles | none that the CLI calls | |
| **billing** `src/billing/` | database rows | claim and process webhooks, count usage | at-least-once delivery, dead workers; the handlers that would call it are not in the repository |
| circuit breaker `src/common/circuit_breaker.py` | counter, state, time | allow, succeed, fail | answers that come late |
| **portal tailer** `src/portal/transcript_tailer.py` (section 10) | rows in memory, `sessions.jsonl`, a client's events log | poll transcripts, announce starts and ends, rebuild | files that agents are writing, a hook and other processes on the log, failing writes, restarts |
| review, publishing, sessions, conversations | database rows | request handlers | check-then-act across awaits |
| provider clients, scoring, API, CLI, judges, x_engine, frontend | none of their own, or only data | I/O | out of scope: I/O and data transformation |

The modelled components share no state: the harness works on git branches,
the evolution on the variant archive, the studio on PostgreSQL, the audit on a
client's directory, the tailer on the client's log (where the audit's lines are
lines of another process). Each has its own modules, run and proofs. Within a component
the interaction is what is modelled: threads over one staging branch and one
lock, commands of several lanes over one lineage and manifest, requests in
flight over one project, agents of a fan-out and successive processes over one
audit directory, a tailer, an endpoint and other processes over one log.

What makes the harness correct:

1. a finding is fixed by one attempt, whatever crashes and resumes (**OneAttemptPerFinding**);
2. a verified fix is published only on the word of the attempt that made it (**PublishedFixesVerified**);
3. a failed fix is reverted or reported, across crashes (**FailedFixesRolledBack**, **RevertConflictsInForce**);
4. no change is in force without the run knowing it (**ChangesAccounted**);
5. a reset of a worker destroys no fix (**NoFixDiscarded**);
6. the run ends (**Terminates**).

What makes the evolution correct: only what passed the hidden holdout heads a lane
(**PromotedPassedGate**) and beats the head it replaces (**PromotionBeatsHead**);
discards leave nothing dangling (**ArchiveOnDisk**); manifest and lineage agree
(**HeadIsLastPromotion**).

What makes the studio correct: a picture shows the prompt beside it and a video the
storyboard of its revision, whatever overtook the request that made them
(**PicturesShowPrompts**, **ImplementsBoard**, **OfferedVideoCurrent**); a client
approves what it saw (**ApprovalsNeedRevision**); scenes keep an order and an anchor
(**BoardInOrder**, **DeleteKeepsAnchor**).

What makes the audit correct: nothing a dead attempt left passes for the work that
counts (**NoStaleOutput**); a report is built on complete work that is still there
(**ChainCurrent**, **CompletedStays**); the two places a cost is kept in agree
(**BooksBeforeMarks**); a report is published as what it says it is
(**PublishedAsRendered**); a run ends (**RunEnds**).

What makes the tailer correct: the registry on disk keeps what it knows, but for rows
it failed to append (**RegistryKeepsRows**); it
announces a session once and in order (**AnnouncedOnce**) and only what the drill-down
route can find (**AnnouncedResolves**); what it follows it closes
(**SessionsClose**). And the log: rotation loses no lines, one race apart
(**OnlyStaleRotationLoses**).

## 2. The plan

1. *(done)* the harness with a pool of workers: branch, run, properties, claims, invariant, proofs.
2. *(done)* the evolution commands and promotion: archive, run, properties, proofs of the gate.
3. *(done)* the studio: project, abstract board, refinement, proofs of both.
4. *(done)* the audit pipeline: stages, crashes, gates, proofs of its invariants.
5. *(done)* the events log and the transcript tailer over it, proofs of its invariants.
6. an abstract specification of one finding's life (open, in work, landed,
   reverted, filed) that the harness implements, and the single-worker mode,
   where the worker is staging.
7. `AgentRunner`: retries, shared log, deadline and `sessions.json` of
   `engine.py`; `Walltime`: the sleep-excluding clock read by several threads.
8. `ParallelFor`, `CircuitBreaker`, and the reader `tail_events_sse` over `EventLog`.

Every safety invariant and action property of a passing run is now a theorem; the
hypotheses that some of them need are given with them (sections 5 and 7). Still
worth proving: the refinement of step 6. `Terminates`, `RunEnds` and
`SessionsClose` stay with TLC, since they need fairness.

## 3. The model of the harness

| module | what it holds |
|---|---|
| `HarnessBranch` | constants; commits, entries of the staging branch, records, conflict files; what `git cherry-pick`, `git revert` and the greps for commit subjects do |
| `HarnessRun` | the variables, one action per step of `run.py` and `worktree.py`, `Next`, `Spec`, `FairSpec` |
| `HarnessProperties` | `TypeOK`, the invariants, the action property, the liveness property |
| `HarnessClaims` | what comments say and the code does not keep |
| `HarnessInvariant` | the inductive invariant `IInv` |
| `HarnessProofs` | the theorems that rest on `IInv` |
| `HarnessBooks` | the inductive invariant `BooksInv` of what an invocation reports |
| `HarnessBooksProofs` | the theorems that rest on it |
| `MCHarness`, `*.cfg` | instances for TLC |

**State.** `staging` is the list of commits the run added to the staging branch,
each the pick or the revert of an attempt's commit; `tree` is the set of changes
in force, so that content is "which attempts are in". `branch[w]` is what
`git log staging..HEAD` lists on worker w. `verdicts`, `conflict_files`, `found`
and `sentinels` are the files of the run directory. These survive a crash. The
rest is `RunState` (`commits`, `reverted_commits`, ... keep their names), the
locals of the cycle loop, and per worker the program point (`stage`) and locals
(`task`, `outcome`, `pending`, `orphans`) of `_process_finding`. A commit carries
the attempt that made it (finding, invocation, kind), whether its subject has the
`harness: fix` form, and, as history, whether that attempt verified it.

**Actions.** `WalltimeExit`, `StartCycle`, `ReuseFindings`, `EvaluateTrack`,
`JoinEvaluation`, `JoinFixers`, `Settle` are `_cycle_loop` and `_evaluate_tracks`;
`TakeFinding`, `DropFinding` are a submission of `_process_findings_parallel`;
`SkipLanded`, `SkipConflicted`, `PassResumeChecks`, `ScanOrphans`,
`RecoverOrphan`, `ResetWorker`, `RunFixer`, `RollBackLeak`, `CommitFix`,
`AcceptBypass`, `CommitMarker`, `NoChange`, `MergeToStaging`, `RecordCommit`,
`PersistConflict` are `_process_finding` in the order it runs; `BeginRevert`,
`RevertCommit`, `EndRevert` are `_revert_phase`; `Publish`, `Crash`,
`RemoveWorktrees`, `Resume` are the ends and beginnings of a process. A block
under `staging_lock` is one action that needs the lock free; the rescue and the
reset, which hold it over several git commands, take it in `ScanOrphans` and give
it back in `ResetWorker`, so that a crash can fall in between. The skip checks
read staging without the lock, as the code does.

**Abstractions.**
A fixer session is a choice of its outcome from `Outcome` (what it committed,
left dirty, wrote as verdict, and how it ended). A cherry-pick or a revert lands
or conflicts freely, except that an empty marker never conflicts. The order in
which the executor takes findings is arbitrary (a superset of its FIFO order).
The walltime is a choice at each place that tests it, and once exceeded it stays
so. `keep_worktree` is false. Left out: the single-worker mode (`max_workers`
= 1, where the worker is staging), `sessions.json`, `prior_reverts.md`, patches,
logs, tip smoke, backend restarts, git commands that fail for reasons other than
a conflict, and an agent that commits under the id of another finding.

## 4. The runs

| run | instance | checks |
|---|---|---|
| `interrupted` | 2 workers, 2 findings of one cycle, 2 invocations, 6 kinds of session | all invariants, `IInv`, `NoFixDiscarded`, `Terminates` under fair scheduling |
| `two_cycles` | 2 workers, a finding in each of 2 cycles, 8 kinds of session | `BooksInv` and what rescue and revert do in a second cycle |
| `rejected_fix_returns`, `reverted_fix_returns`, `restart_discards`, `stopped_publishes` | as small as the behaviour allows | one claim of `HarnessClaims` each, violated |
| `recurring_ids` | an id that occurs in both cycles | `EveryFailedFixRolledBack`, violated |

**Bounds.** `MaxCycle` and `MaxInvocation` bound evaluator cycles and processes
on one branch; nothing else is cut off. Two workers are enough for every
interleaving of two threads on staging; two findings are enough for one thread to
rescue what another left; a second invocation is enough for every crash followed
by a resume, and a second cycle for a worker branch that still carries a merged,
rejected or reverted commit. A crash is enabled while another invocation may
follow, so every state of the first one is a state to crash in. Workers are
symmetric in the run of two cycles, which checks no liveness.

**Fairness.** `FairSpec` has weak fairness of the loop and of each thread: the
subprocesses they wait for are bounded by `_AGENT_TIMEOUT` and a finite table of
retries, the pool has an idle worker whenever no thread runs, and the lock is
always given back. No fairness is assumed of crashes, resumes or the operator.
Each action of a thread that needs the lock is enabled whenever the lock is free;
the lock is held only by a thread whose own steps do not wait for it.

**What the failed claims show.** Each finding of `PROJECT.json` quotes the text
it contradicts. The most serious ones share a cause: the scan for orphans takes
every `harness: fix` commit of a worker branch for one that was verified and never
merged, so that a commit rejected by `surface_check`, or one that was merged and
later reverted, reaches staging when its worker takes the next finding; and it
comes too late after a crash, because `create_workers` has reset the branch.
The properties that hold are worded accordingly: `FailedFixesRolledBack` and
`ChangesAccounted` let a rescued commit count as reported (`recovered_commits`),
`PublishedFixesVerified` excludes a run stopped early, and these three and
`RevertConflictsInForce` are said of each finding in `Apart` (section 5). Two more exceptions came out of the attempt
to prove them, each a behaviour of the code found with TLC. A resume rebuilds the
record of a landed NO-OP marker with the finding's summary, so that the test
`summary.startswith("NO-OP")` (`run.py:798`) no longer keeps it from the revert phase;
git refuses to revert the empty commit, and a refused revert is reported with no change
in force. Hence the marker in `RevertConflictsInForce`. And when staging holds several
`harness: fix` commits of one finding, a resume has a record of the newest only
(`run.py:1045`): an older failed one stays in the tree unreported. Hence
`FailedFixesRolledBack` speaks of the sole fix of a finding (`Sole`).

**Seen on the way.** The same model exhibits smaller differences between text and
code for which no run is kept. The commit of a conflict file does not stay on its
worker branch (`run.py:1424`), since the reset follows the rescue (`run.py:1077`).
A resume that starts at the last cycle replaces the body of the pull request by one
without the fixes of earlier cycles (`run.py:1651`, against `run.py:395-397`). The
record rebuilt for a landed finding is that of the newest commit containing its id,
with no cycle and no end of the id required (`run.py:1045`), so F-a-1-1 can be given
the commit of F-a-1-10. A NO-OP marker reused on resume is queued for revert, because
the test for it reads the finding's summary (`run.py:798`). A run whose only evaluator
failed after writing findings ends as `zero-first-cycle` (`run.py:651`). A killed
process leaves worker directories over which `git worktree add` fails
(`worktree.py:152`, against `worktree.py:276-278`).

## 5. The proofs

`HarnessProofs` proves, for any sets of workers and findings and any bounds, under
`BranchAssumption` and `RunAssumption` (types of the constants; findings with the
same id have the same track; `None` is none of the values it stands beside):

- `TypesCorrect`: `Spec => []TypeOK`;
- `OneAttempt`: `Spec => []OneAttemptPerFinding`;
- `ResetDiscardsNoFix`: `Spec => NoFixDiscarded`;

all three from `Invariant`: `Spec => []IInv`.

`OneAttemptPerFinding` is not inductive: a thread that has passed the resume check
may bring a commit to staging much later, after other threads and rescues have
changed it. `IInv` adds why this is harmless. Every commit on a worker branch, in a
thread's hands or among the orphans was made by this invocation, for a finding of
which staging holds commits of this invocation only (`CommitsOwn`); this is true
because `create_workers` cuts every branch from staging, and because a thread that
passes the check found nothing of that finding on staging. What the revert phase
adds is a copy of what is on staging (`RecordsOnStaging`, `MergedFirst`). The lemma
`Grows` says this once for every step: staging stays or gets one entry, of a commit
that is this invocation's or there already; `GrowthKeeps` draws the consequences,
and the steps of a thread are then looked at for its own worker only (`WorkerStep`),
the others being carried over by `SameWorkerOK`. For `NoFixDiscarded` the invariant
`RescueComplete` says that during a rescue each fix commit is still to be picked, on
staging, or filed.

`HarnessBooksProofs` proves what an invocation says of its work when it ends:

- `OnlyVerifiedPublished`: `Spec => []PublishedFixesVerified`;
- `AllChangesAccounted`: `Spec => []ChangesAccounted`;
- `FailedFixesGoBack`: `Spec => []FailedFixesRolledBack`;
- `NoFalseConflicts`: `Spec => []RevertConflictsInForce`;

all four from `BooksKept`: `Spec => []BooksInv`. None is inductive, because each
relates files of different steps: a verdict is written hours before the pick, the
pick before the record, the record before the revert, and a crash may separate any
two. `BooksInv` has one group for each of these relations.

| group | what it says |
|---|---|
| `VerdictsTell` | a verdict `passed` is of the attempt whose commits will be judged by it |
| `TriedOnce` | an invocation works on a finding at most once, in one thread |
| `ThreadTells` | what a thread between two steps knows of its finding |
| `CyclesApart` | what a cycle has tried is behind the next |
| `RecordsTell` | a record is of a commit of its finding, the only one to revert for it |
| `RevertsTell`, `RevertsPast` | which reverts there may be when a finding is tried, and in what order they follow picks |
| `TreeTells` | the tree is what the picks and reverts of staging make it |
| `Accounted`, `RollbackDue` | every change put in force, and every failed one, is recorded, in a thread's hands or reported |
| `RecordsVerified` | outside the fix phase the records left are of verified commits |

The argument follows the books: purging the verdict before a session (`cleared`)
makes a later `passed` the session's own (`VerdictsTell`); since a finding is tried
once (`TriedOnce`), its record has no rival (`RecordsTell`) and its commit was not
reverted before (`RevertsTell`), so that what the revert phase takes is in force or
already reverted (`TreeTells`), and what it leaves was verified. Each group has a lemma
that every step keeps it (`VerdictsStep` to `RollbackDueStep`), split into the steps of
a thread and those of the loop; `BooksStep` puts them together.

The code compares ids as text and never checks them. The evaluators are told to number
their findings `F-<track>-<cycle>-<n>` (`harness/prompts/evaluator-base.md:41`), but
`run.py:426-428` warns that ids recur, and the grep for F-a-1-1 finds F-a-1-10. The
theorems assume nothing of the ids. Each says what holds of a finding in `Apart`: one
whose own id neither is, nor begins, nor is begun by the id of another, while the ids of
all other findings may recur and begin each other in any way. That is the strongest form
the code supports: said of every finding, each of the four properties fails in the
instance of `interrupted` once the two ids are F-a-1-1 and F-a-1-10, and the run
`recurring_ids` shows `EveryFailedFixRolledBack`, `FailedFixesRolledBack` of every
finding, fail with an id that recurs. The step from one to all is not free: a commit of another finding may be taken
for a third one's, and the revert phase may then apply a failed change again instead of
removing it. `RevertElsewhere` and `ElsewhereSame` show that whatever it does there, the
books of a finding in `Apart` do not change; `OfApart` restricts records and settled
records to such findings in the invariant. In the instances of `interrupted` and
`two_cycles` all findings are in `Apart`; `BooksInv` was also checked with ids of which
two begin or equal each other. The theorems of `HarnessProofs` hold of all findings.

Only model-checked: `Terminates`, which needs fairness.

## 6. The other components at a glance

| modules | what they hold |
|---|---|
| `EvolutionArchive`, `EvolutionRun` | what is read out of the archive; the commands, one action per step |
| `EvolutionProperties`, `EvolutionProofs`, `MCEvolution` | properties and the invariant of the gate; its theorems; instance |
| `EvolutionLane`, `EvolutionLaneProofs` | the invariants of an archive whose commands run one after another, and of lanes that keep apart; their theorems |
| `StudioProject`, `StudioBoard` | the handlers; the abstract board they implement |
| `StudioProperties`, `StudioProofs`, `MCStudio` | properties, refinement mapping; theorems; instance and symmetry |
| `AuditPipeline` | the stages, the process, the gate commands |
| `AuditProperties`, `AuditProofs`, `MCAudit` | properties and invariant; theorems; instance |
| `EventLog`, `TranscriptTailer` | files, segments and calls of `log_event`; the tailer, the endpoint and the agents over it |
| `TailerProperties`, `TailerProofs`, `MCTailer` | properties and invariant; theorems; instance |

| run | instance | checks |
|---|---|---|
| `evolution` | one lane, 3 variants, up to 4 commands, 5 promotions | types, archive, gate, manifest, promotion, the invariants behind them |
| `shared_baseline` | two lanes whose heads are one seed | `PromotionBeatsHead`, violated |
| `studio` | 2 scenes, 2 prompts, 2 requests in flight, 4 revisions | types, pictures, order, anchor, approvals, the refinement |
| `audit` | 2 agents of a fan-out, 3 runs | types, outputs, chain, books, publication, idempotence, termination unless a session hangs |
| `portal` | 1 Codex session with a hook, 2 processes on the log, 2 deaths | types, registry, announcements, segments, closing |

A definition marked as a mutant is used by no specification: it is the form a
plausible bug would give to the definition after it, and the property it is paired
with in `PROJECT.json` fails with it.

## 7. The evolution of variants

**State and actions.** `dirs` are the variant directories, `lineage` the last line
per id of `lineage.jsonl`, `heads` is `current.json`, `holdout` and `finalized` are
the private results beside the archive, `head_scores` and `rolled_at` the events
the rollback check reads. `pc[l]` and the locals are the command at work on lane l;
a kill (`Die`) loses them and keeps the files. `StartRun`, `StartResume`,
`StartPromote`, `StartUndo` are the commands; `CloneParent` to `SettleVariant` are
one generation of `cmd_run` with the scorer inside it; `PickFinalist` to
`WriteShortlist` are the finalize step; `ReadForMark`, `MarkPromoted`,
`ReadManifest`, `SetCurrentHead` are `promote_atomic`; `RecordHeadScore` and
`CheckRollback` are what follows a promotion. Each read-modify-write of a shared
file is a reading and a writing action, since other lanes' processes run between.

**Abstractions.** One command per lane at a time; `require_holdout` is set (the
judge-gated `promote <id>` and `custom_promote` are left out). A score is a small
number; a search score of 0 stands for a search without real session work. Stamps
of promotion are distinct. The quality gates before scoring (critic, validation,
novelty, compliance) are accept or reject. `children`, metrics and the archive's
index are left out. The loser of a race for a clone directory dies with the
exception. A tie picks either variant. A resume is asked for the variant the last
hint named or for one archived for the lane. Whether a variant still carries the programs of the lane
(`_has_lane_substrate`) is left open: any of the pool, or the fallback, may be the
parent. The entry of a variant and that of its parent are read at once (`seen`),
where `_lineage_entry` reads the parent's a moment later.

**Bounds.** `MaxVariant`, `MaxClock`, `MaxRestarts`, `MaxGeneration`, `MaxScore`.
Three variants are a head, a candidate and a reused id; four commands are a
promotion, its undo, and a kill and a resume between any two of their steps; five
stamps are more than four commands use. `RollbackCooldown` is scaled down so that
two promotions can arm the check. The run has no deadlock check: the operator may
stop starting commands, and every command ends.

**What is proved.** `TypeCorrect` and `GateHolds`, for any lanes, variants, scores
and bounds, with commands of all lanes at once. `PromotedPassedGate` is not inductive:
a command reads the lineage in one step and writes entries made from that copy in a
later one, with the other lanes at work in between. `GateInv` adds that the copies in flight (`seen`, `manifest`), the finalize
records that may be used later and the variant in hand between `mark` and `write_head`
all rest on the gate.

`NothingDangles` is `ArchiveOnDisk` for any number of lanes whose commands run one
after another (`OneCommand`), as `run_all_lanes` does (`evolve.py:1098-1125`, "Stays
serial"). `ArchiveInv` behind it adds that a copy that will be written back is still
what is there (`CopyCurrent`), that a variant which may be discarded is on disk, neither
archived nor a head, and that what is finalized, promoted or eligible is archived
(`VariantTells`, `RecordsTell`).

The rest depends on what the lanes share. An entry carries one lane, and the lane that
scores a variant relabels it: its stamp and its scores then count for that lane alone,
or, when the lane is `core`, for every lane. `LaneTells(l)` is the invariant of a lane l:
a holdout score is of a variant that counts for l and a record that calls one eligible is
borne out by the scores still cached (`ScoresTell`), what is finalized or promoted counts
for l (`HandTells`), what the gate is promoting beats the head it will replace
(`ChallengerBeats`), and a head that is behind the lineage is so only inside a promotion,
or after one a kill has torn (`HeadTells`). `LaneKept` proves it for each lane l, whatever
the others do to each other, from two conditions on their steps:
- `Unshared(l)`: only l and `core` score an entry that counts for l;
- `UnsharedStamps(l)`: only l stamps an entry that counts for l, and no scoring changes
  whether an entry with a stamp counts for l.

`HeadFollowsLineage` is `HeadIsLastPromotion` for any number of lanes of which all meet
both (`Apart`); `PromotionImproves` is `PromotionBeatsHead` and needs only the first
(`ScoredApart`): promotions of `core` are allowed. `OneLaneApart` shows that an
archive of one lane meets both, which ties the run `evolution` to the theorems. That stale
finalize records do no harm rests on two things: a holdout score is kept as long as its
variant is, and a record made against another baseline is not promoted
(`FinalizeStatus`).

Which archives meet the conditions? `run_all_lanes` goes through `LANES` in order, `core`
first. Once `core` has scored the common seed, `baseline_seeded` holds for every
workflow lane, none scores it again, and each lane goes on to score variants it minted
itself: `ScoredApart`. The code does not enforce this. It fails when a workflow
lane runs before `core` has scored the seed and another follows it (`shared_baseline`), or
when a resume names a variant of another lane. `Apart` fails as soon as `core`
promotes, since that stamp counts for every lane while only `current.json`'s `core`
entry moves; the head of a workflow lane is then not its last stamped promotion by the
definition the code itself uses to choose a baseline (`_promotion_baseline`).

The hypotheses are needed; TLC finds these behaviours of two lanes. With commands side
by side a discarded id can be minted by both: one lane's resume, killed after its
discard and told the old id by its hint, archives a directory the other lane then
rejects and removes, and a scorer of one lane that writes back an old entry of its
parent erases the stamp another has just set. With commands one after another
`ArchiveOnDisk` holds (6,232,391 states of two lanes), yet a lane whose head is also the
head of another loses its stamps when `ensure_baseline_seed` scores that variant for the
other lane. The theorems were tried first on `core` and one workflow lane (3 variants,
scores up to 2, 3 commands; a variant of the run `evolution` that takes longer), with their hypothesis as the constraint: 4,425,476 states
under `Apart`, 6,207,917 under `ScoredApart` with both lanes promoting.

**What `shared_baseline` shows** is quoted in `PROJECT.json`. It needs only the
state every archive starts in, two lanes at one seed.

**Seen on the way.** Two processes that promote on two lanes together lose one head:
`_LINEAGE_LOCK` (`evolve_ops.py:842`) is a threading lock, and `set_current_head`
replaces the manifest of all lanes. In the same way a line of the lineage written
from an old copy can lose a `promoted_at`. A second undo goes back to the variant the
first one left, and the next finalize promotes again what was rolled back. A live
rollback restores the last promotion but one, which may differ from the prior head
the judge compared. `_cmd_run_resume` runs none of the quality gates. A torn
`current.json` falls back to the legacy layout. After a discard a resume hint may
name a directory that is gone (`evolve.py:2770`).

## 8. The studio

**State and actions.** `scene` are the rows of a project's scenes, `anchor`,
`revision`, `status` its own columns, `job` its latest generation job, `request` the
preview and verification requests in flight. Every transaction takes the row lock of
the project and compares the revision the client expects; it is one action, and a
conflict is no step. `PreviewAnchor`, `PreviewScenes`, `RegenerateScene`,
`VerifyScene` are first transactions, `FinishPreview`, `FinishVerify` second ones;
`FailVerify` is the reset without the lock, `Abandon` a conflict, an error or a dead
process in between. `SubmitRender` commits a job, `DispatchJob` follows it unless the
process dies, `EndJob` is the generation service, which is outside the repository.

**Abstractions.** A picture is known by the prompt it was made from. `details`
alternates to stand for all else a composition is made from. The states of a job are
pending, completed, failed; only the latest is kept. Scores, captions and texts of
errors are left out. A draft project without scenes stays so: no handler adds one.

**The refinement.** `StudioBoard` has no requests, no locks and no marks: an `Edit`
makes a new revision of a board on which pictures show their prompts, a `Render`
makes a video of a board whose scenes all have pictures. `StudioProperties` maps
the rows to a board and the job to a video; `ImplementsBoard` says that every
transaction is an edit, a render or invisible, so that no handler changes what is
rendered without a new revision. `OfferedVideoCurrent` is the theorem of the board
read through the mapping.

**Bounds.** `MaxRevision` 4 with two scenes: edits, overlapping previews, a
verification overtaken by an edit, and renders of one-scene projects; a render of two
scenes (two previews, two approvals, the submission) needs revision 5 and is covered
by the theorems only. `MaxPayload` 3 admits reorder payloads that list a scene twice.
Scenes, prompts and requests are symmetric. No deadlock check: at the last revision
a project without requests rests.

**What is proved.** `StudioTypes`, `PicturesHonest`, `ProjectImplementsBoard`,
`VideoIsCurrent` (on the board) and, from the last two, `OfferedVideo`, for any
scenes, prompts and requests. The inductive invariant `StudioInv` says of a request
that nothing has overtaken (its revision is the project's) that it still holds the
scenes and prompts it took: `Overtaken` shows that a new revision frees a step from
that obligation, `TouchKeepsInv` that the steps without one leave prompts alone.
`BoardStaysInOrder`, `DeletionKeepsAnchor` and `ApprovalNeedsRevision` are `BoardInOrder`,
`DeleteKeepsAnchor` and `ApprovalsNeedRevision`. A reorder gives every scene a place of
its own, and a deletion, which renumbers first, finds an heir for the anchor at position
0 even where a reorder with a duplicate has left none there.

**Seen on the way.** A failed verification marks `ready` a scene that has lost its
picture or is being made anew (`service.py:972`). A request that conflicts, fails or
dies leaves its scenes generating or verifying; the project may stay
`ready_to_render` meanwhile. `render_is_stale` is true wherever it is asked, so that
the service never sets `render_complete`. A reorder payload with a duplicate is
accepted though the message asks for "every scene exactly once" (`service.py:638`),
and leaves a gap in the positions. Previews keep the old scores and suggestion
(`service.py:774`). A crash between the commit of a render and its dispatch leaves
the job pending and the project rendering. A render may be submitted while another
job is active.

## 9. The audit pipeline

**State.** `status`, `completed`, `session` and `charged` are `state.json` (`session[s]`
is `sessions[key].session_id`, for the deliverable the slug; `charged` are the stages
whose entry has a cost above 0), `booked` is `cost_actual.json` by the last session
whose cost was added for a stage, `torn` says that it no longer parses, `doc[s]` are
the files of a stage, without `gap_report.md`, of which `gap` says whether it is there.
A run starts a stage once at most, so the number of the run stands for session id, slug
and time of writing. `leg` and `phase` are the process: the stage or the fan-out it is
at, and how far each has come; `billed` are its stages whose sessions told their cost.
`seen` are the gates a run has halted at, `uploaded` is what the customer's link shows:
the prefix it is under, and the rendering (with its slug) that is there.

**Actions.** `Run` begins `freddy audit run`, at intake or, once paid, at the fan-out.
`Skip` and `StartPlain`, `Start`, `CrossStarts` are the ways into a stage: without a
session, with one, and for the synthesis with two. `CrossEnds` is the end of its first
session, after which it clears its files for the second, all but `gap_report.md`
(`stages.py:733`). `SessionWrites` is the agent; `SessionEnds`, `FilesTaken` and
`SessionFails` are the ends of `AgentRunner.run`: an exit code of 0, a failure taken for
a success because the expected files are there (`agent_runner.py:175-184`, with a cost
of 0), and the exception. The first two go with the scaffolding of what the session left
out (`Scaffold`). `RecordStageCost` and `MarkStageComplete` follow, and for an agent
`ScaffoldOutput`. `StageRaises` is any other exception; the fan-out keeps one of an
agent and everything else dies of it. `Proceed` goes to the next stage, `HaltAtGate`
ends the run. `Kill` is a process that dies between two steps, `KillInCosts` and
`KillInOutput` one that dies inside a write that is not atomic. `ConfirmBrief`,
`MarkPaid`, `CloseEngagement`, `Publish` and `Reinit` are the other commands, none of
which checks anything.

**Abstractions.** A stage's files are one document, on disk when all of them are: a
stage that finds some missing clears and makes them anew, so a partial set is as good as
none. The exception is `gap_report.md`, one of the five files the synthesis skips on:
it is kept whoever wrote it, so only its presence is modelled. `report.json` is not
cleared either, but is always written again before the mark. `usable` says that the JSON
later code parses does parse. `state.mutate` is atomic: it replaces the file, and one
process works on an audit, as `state.py` documents. `Operator` is an assumption about
the user and not the code: commands are given between two runs, and a gate is passed
only after a run has halted at it. An upload may fail without a trace in the state. A
session does not outlive its process. Preflight, the health score, the mirror of the
deliverable into the session directory and alerts are left out.

**Fairness.** Weak fairness of `Advance`, the steps a live process takes where it waits
for no session. Sessions themselves are not in it: `communicate()` has no timeout
(`agent_runner.py:375-378`), and an agent that hangs hangs the run. `RunEnds` therefore
says that a run ends if no stage stays in a session for ever. Nothing is assumed of
kills, commands or of what a session writes.

**Bounds.** `MaxRuns` 3: both halves of a full audit and one crash and resumption, or a
fresh init and half an audit in the same directory. Two agents are one that fails beside
one that does not, in either order. `Silent` is one of them: an exit code of 0 with an
envelope that tells no cost is possible for every stage, and one is enough to tell the
two apart. One agent and four runs (both halves twice) pass as well, in an instance not
kept. No deadlock check: an audit whose runs are used up rests.

**What is proved.** `AuditInvariant`, and from it `AuditTypes`, `NoStaleOutputHolds`,
`ChainCurrentHolds`, `BooksBeforeMarksHolds`, `PublishedAsRenderedHolds`, and
`CompletedStaysHolds`, for any set of agents, silent stages and number of runs, under
`AuditAssumption` (agents are none of the other stages). `ChainCurrent` is the one
that needs an invariant: what keeps a stage from being rewritten under a later one is
that a stage starts only when it is not intact, and then nothing complete that was
made from it can exist (`Unread` in `AtWork`), because `ChainCurrent` itself says that
what a complete stage read is intact. A synthesis that is not intact because its
`gap_report.md` is gone would break this; `Behind` has that file stay once the synthesis
is complete. Everything the process has passed is complete (`Behind`), so a session's
inputs are (`WrittenFromComplete`). `FileStep` and `PhaseStep` say once what a step of
one stage does to the others; `RunOver` what any end of a run does. `RunEnds` is
model-checked only: it needs fairness.

**Seen on the way.** A `gap_report.md` of a dead attempt, or of an audit before a fresh
init, is kept and counts as this session's (`stages.py:683-685`, 733, 768); hence
`NoStaleOutput` does not speak of it. A session taken for a success by its files is
booked with a cost of 0, in `state.json` and in `cost_actual.json`, whatever it has
cost; so is one whose envelope does not parse, and a stage with several attempts is
booked with the last one. `BooksBeforeMarks` says that the two books agree, not that
they are complete. `cost_actual.json` is written in place (`cost_observability.py:49`):
one kill inside the write and every later stage pays for its session and then raises, in
each run, until someone repairs the file; hence `~torn` in `BooksBeforeMarks`. An agent
that fails while its siblings succeed is run again by the next run, but synthesis,
proposal and deliverable are complete and never include it; when all agents fail, an
empty synthesis is marked complete, and `failures` is read by nobody. The gap report
covers only agents with output (`stages.py:769`), while
`docs/plans/2026-05-06-001-marketing-audit-v1-master-plan.md` (lines 295 and 366) has
failed agents flagged there. An agent whose file does not parse is complete for ever. A
brief or a proposal whose JSON does not parse blocks every later stage, while its own
stage is skipped. An agent is marked complete before its output is scaffolded: a crash
between makes it run again (hence `>=` for agents in `NoStaleOutput`). `audit init` on
an existing slug resets `state.json` and leaves the files. `engagement_closed` sends
`run` back to intake. `publish` uploads whatever `deliverable/` holds
(`audit.py:365-392`), whether or not a run has reached the ship gate. A `claude` process
that outlives a killed parent could write into a cleared directory.

## 10. The events log and the transcript tailer

**State.** `EventLog`: `file` are the lines of every file there was, an inode each;
`current` is the one the path names, `segments` the rotated ones that still have a
name, `op[p]` where process p is in `log_event`. `TranscriptTailer`: `transcript` are
the files the agents write (size, age of the last write, and whether a terminal event
is in it), `registry` is `sessions.jsonl`, `rows` and `marked` are
`SessionRegistry.rows` and `_registered_only`, `tick` is where the tailer is in
`run_tailer` (`Over` when that task has ended). `unsaved` is a history variable: the
sessions of which this process failed to append a row. A death of the API process
loses `rows`, `marked`, `tick` and its call; files stay.

**Actions.** `Begin` (the size check), `Rename`, `Open`, `WriteLine`, `Raise` are
`log_event` in its steps, any process between any two of them: the check, the rename
and the open are outside the lock. `BeginTick` is the listing of the roots;
`SkipFile`, `UpdateActivity`, `CodexEnds`, `BeginAttribution` the ways of
`_handle_cc_file` and `_handle_codex_file`; `AttributionFails`, `RegisterOnly`,
`EmitSessionStart` what follows the database lookup, `Started` the search for a
terminal event after it; `BeginSweep`, `IdleTimeout`, `TimedOut`, `EndTick` the sweep.
`Kill` and `Bootstrap` are a restart. An append to `sessions.jsonl` may raise wherever
`_append_registry_row` is called (`AppendFails`, `EndUnsaved`): the row is then in
memory only. What a handler of a file raises, `tick` catches and logs an alert
(`Caught`); if that raises, or the sweep does, the tick is over and `run_tailer` logs
another alert; if that raises too, `run_tailer` has ended (`Aborted`). `IngestStart` is a hook that posts through
`portal_ingest`, `LogOther` any other line, of this process or of an audit.
The API is one event loop: the endpoint runs only where the tailer waits, in its sleep
and in the lookup; `log_event` blocks the loop, so the tailer goes on only when its
call has returned.

**Abstractions.** One client, so one log and one registry. The age of a file is
fresh, past the idle timeout, or past the active window; ages do not change within a
tick, which takes far less than either. The first write of an agent is a line that is
not whole yet. A rotation's name is its second: `sameSecond` says that the last
rotation was in this one, and no file is filled to the threshold (100 MB, each line
synced) within a second of a rotation. An append, to the registry or to the log, is
whole or nothing: a process that dies inside `write` is not modelled (a torn row
without its newline would swallow the next one). Alerts go to the operator's log,
another file: of them only whether they raise is kept. Left out are attribution
moments, paths that leave the roots, and the pool that is not ready yet (a tick then
does nothing).

**Fairness.** Weak fairness of the tailer and of its calls (system calls return, so
the task goes on until it is over), and strong fairness of `TimePasses`, which waits
between two ticks: the loop sleeps after each tick. Nothing is assumed of agents,
hooks, other processes, kills, restarts, or of writes, appends, alerts and lookups
succeeding; nor that the loop survives them. `SessionsClose` has the premise it needs
instead: that ticks reach their sweep again and again. It is false of a task that has
ended, and of one whose every tick is cut short by a lookup that fails and an alert
that fails after it, which TLC found with two sessions: the first file starves the
second session for good.

**Bounds.** `Threshold` is one line, so that four lines make three rotations;
`MaxSize` 3 is a file half written, one that is a session, and growth after that;
`StableTicks` 1 (3 in the code); `MaxKills` 2, a restart and its restart; `MaxOther`
1. All of it at once is more than TLC finishes, so `MCInit` takes three instances
together: one session from its first line on, with a hook, with another line and one
death; the same with two deaths and no other line; and two sessions whose transcripts
are complete before the tailer sees them, of which one can fail, by any write or
append, in the tick in which the other is due. No deadlock check: a transcript that is
gone leaves nothing to do.

**What is proved.** `TypeCorrect`, `RestartSafe`, `AnnouncesOnce`, `AnnouncesResolve`,
`SegmentsStay`, for any sessions, writers, threshold and bounds. None of the first
four is inductive. `RegistryKeepsRows` compares what the disk can tell: that a session
is known, hooked, ended. It says nothing of `_registered_only`, which the code keeps
in memory only, and of a session whose row could not be appended it says only that
the disk has nothing false. `TailerInv` adds that the registry has one start row per
session at most and end rows after it (`RegistryShape`; an end row alone where the
append of the start failed), how rows in memory and on disk go together field by field
(`RegistryCurrent`), that the session being looked up is not in it (`Attributing`:
the ingest endpoint runs meanwhile, but writes no row), that a rotation leaves the
current file short (`LogShape`), and of the line the tailer is about to write that
it is recorded, is nowhere in the log, and will come last, whatever file it is
in (`Announcing`). `NoNewLine` treats every step that writes nothing, `OpenAnnounces`
and `WriteAnnounces` the two that do; `BeginAnnounces` shows that a session without
rows has no line of the tailer's; `UnsavedKeeps` treats an append that fails.
`SessionsClose` is model-checked only: it needs
fairness.

**Seen on the way.** Two processes that find the log full together: the second renames
the file the first has just begun, and within the second its name replaces the first
segment's, with all lines in it; hence the exception in `OnlyStaleRotationLoses`. A
death or a failing `log_event` between the row and the line loses the start or the end
for the log: the row is there, and nothing writes the line again. The hook's start
after the tailer's, or before a rotation, makes two in the log: `AnnouncedOnce` is of
the tailer's own lines. A session that grows again after `idle_timeout` stays ended. A
row of a transcript that was cleared away is never closed, since nothing counts its
ticks. Sessions that were registered only become ordinary rows after a restart
(`_registered_only` is in memory) and then get a `session_end`, though the docstring
(lines 14-17) says that they emit none. An append of a start row that fails leaves a
session that this process follows and the next one does not know; its end row, if
there is one, stands alone and is read back as a stub that is ended. A failing alert
leaves `run_tailer`: the `except` of the loop itself calls `log_event`, and the task is
over until the API is restarted. `tail_events_sse`
misses what is appended between its last read and a rotation.

## 11. Not modelled

See `components` in `PROJECT.json`: every part not named in sections 3, 6 and 10 is
listed there with its reason. By size most of the repository is scoring, rubrics,
report rendering, provider adapters, HTTP routers and frontend: transformations of
data and I/O, with no state that outlives a call beyond a row that one statement
writes. The hazards of those parts that a model would reach are among `hazards`.
