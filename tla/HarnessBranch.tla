---------------------------- MODULE HarnessBranch ----------------------------
(***************************************************************************)
(* What the fix harness keeps in git: the commits fixers produce on their  *)
(* worker branches, the staging branch `harness/run-<ts>` they are cherry- *)
(* picked onto, and the questions the orchestrator asks of that branch by  *)
(* grepping commit subjects.                                               *)
(*                                                                         *)
(* A commit's content is abstracted to "the change of this attempt": the   *)
(* tree of the staging branch is the set of changes in force.              *)
(***************************************************************************)
EXTENDS Naturals, Sequences

CONSTANTS
  Finding,        \* findings evaluators can report
  Id,             \* finding ids, e.g. F-a-1-1
  Track,          \* evaluator tracks
  IdOf,           \* id of a finding
  CycleOf,        \* evaluator cycle of a finding
  TrackOf,        \* track of a finding
  Advisory,       \* findings route() sends to review, not to a fixer
  IdPrefix,       \* pairs <<i, j>> such that the text of id i begins that of j
  MaxCycle,       \* bound: evaluator cycles
  MaxInvocation   \* bound: invocations of the harness on one branch

Cycle == 1..MaxCycle
Invocation == 1..MaxInvocation

ASSUME BranchAssumption ==
  /\ MaxCycle \in Nat \ {0}
  /\ MaxInvocation \in Nat \ {0}
  /\ IdOf \in [Finding -> Id]
  /\ CycleOf \in [Finding -> Cycle]
  /\ TrackOf \in [Finding -> Track]
  /\ Advisory \subseteq Finding
  /\ \A i \in Id : <<i, i>> \in IdPrefix
  /\ \A f, g \in Finding : IdOf[f] = IdOf[g] => TrackOf[f] = TrackOf[g]

(***************************************************************************)
(* A commit made while fixing finding f in the n-th invocation:            *)
(*   "fix"     the orchestrator's commit of the fixer's edits,             *)
(*   "bypass"  a commit the fixer made itself,                             *)
(*   "marker"  the empty NO-OP commit for a cascade-resolved finding.      *)
(* tagged: the subject starts with `harness: fix <id>@c<cycle>`.           *)
(* good (history): the attempt's own verdict is `passed` and the commit    *)
(* was not rejected by surface_check.                                      *)
(***************************************************************************)
Commit == [f : Finding, n : Invocation, kind : {"fix", "bypass", "marker"},
           tagged : BOOLEAN, good : BOOLEAN]

(* One commit of the staging branch: a cherry-pick or a revert of c.       *)
(* eff: the commit is not empty, it changed the tree when it was made.     *)
Entry == [op : {"pick", "revert"}, c : Commit, eff : BOOLEAN]

(* A review.CommitRecord.  at = 0: its sha is the commit object on the     *)
(* worker branch; at > 0: its sha is the at-th commit of staging.          *)
Record == [f : Finding, c : Commit, at : Nat]

(* A conflicts/<dir>/<id>.yaml file.  The handler of a finding writes it   *)
(* under the finding's track, the orphan scan under "unknown".             *)
ConflictFile == [id : Id, dir : {"track", "unknown"}, c : Commit]

-----------------------------------------------------------------------------
Pick(c, tree) == [op |-> "pick", c |-> c, eff |-> c.kind # "marker" /\ c \notin tree]
PickedTree(c, tree) == IF c.kind = "marker" THEN tree ELSE tree \cup {c}

(* The subject of e contains `harness: fix <id>@c<cycle> `; the subject    *)
(* of a revert quotes the subject of the commit it reverts.                *)
NamesFinding(e, f) ==
  /\ e.c.tagged
  /\ IdOf[e.c.f] = IdOf[f]
  /\ CycleOf[e.c.f] = CycleOf[f]

(* _commit_exists_for_finding on branch log. *)
CommitExists(log, f) == \E i \in DOMAIN log : NamesFinding(log[i], f)

(* `git log --grep "harness: fix <id>" -n 1`: the newest commit whose      *)
(* subject contains the id, with no cycle and no end of the id required.   *)
NewestNaming(log, f, i) ==
  LET Hit(j) == log[j].c.tagged /\ <<IdOf[f], IdOf[log[j].c.f]>> \in IdPrefix
  IN  /\ i \in DOMAIN log
      /\ Hit(i)
      /\ \A j \in DOMAIN log : Hit(j) => j <= i

(* MUTANTS: the grep matches nothing, or any fix commit. *)
NoRevertedIds(log) == {}
IdsOfAnyFix(log) == {IdOf[log[i].c.f] : i \in {j \in DOMAIN log : log[j].c.tagged}}

(* Ids whose `Revert "harness: fix <id>@c` commit is on the branch. *)
RevertedIds(log) ==
  {IdOf[log[i].c.f] : i \in {j \in DOMAIN log : log[j].op = "revert" /\ log[j].c.tagged}}

(* `git revert` of the sha of record r: undoing a pick is a revert, undoing *)
(* a revert applies the change again.  It is refused when the commit is     *)
(* empty or there is nothing left to undo.                                  *)
Undo(r, log) ==
  [op |-> IF r.at # 0 /\ log[r.at].op = "revert" THEN "pick" ELSE "revert",
   c |-> r.c, eff |-> TRUE]
Undone(r, log, tree) ==
  IF Undo(r, log).op = "pick" THEN tree \cup {r.c} ELSE tree \ {r.c}
Undoable(r, log, tree) ==
  /\ Undone(r, log, tree) # tree
  /\ r.at # 0 => log[r.at].eff

(* Writing a conflict file replaces the one of the same path. *)
WithConflict(files, x) ==
  {y \in files : ~(y.id = x.id /\ y.dir = x.dir)} \cup {x}
=============================================================================
