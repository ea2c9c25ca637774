----------------------------- MODULE HarnessBooks -----------------------------
(***************************************************************************)
(* The invariant behind what an invocation reports: how verdicts, records, *)
(* reverts and the tree of the staging branch keep in step, for findings   *)
(* whose ids the greps of the harness tell apart: the definitions below    *)
(* look at commits and records of such findings only.                      *)
(***************************************************************************)
EXTENDS HarnessInvariant

Running == {"assigned", "cleared", "syncing", "fixing"}
Merging == {"merging", "recording", "conflicted"}

(* c exists: on staging, on a worker, or about to be picked.               *)
Held(c) ==
  /\ c.f \in Apart
  /\ \/ OnStaging(c)
     \/ \E w \in Worker : c \in branch[w] \cup orphans[w] \/ c = pending[w]

Reverted(c) ==
  c.f \in Apart /\ \E i \in DOMAIN staging : staging[i].op = "revert" /\ staging[i].c = c

OfApart(X) == {x \in X : x.f \in Apart \/ x.c.f \in Apart}
Records == OfApart(commits \cup to_revert)
Settled == OfApart(reverted_commits \cup revert_conflicts)
Booked(f) == \E x \in Records \cup Settled : x.f = f

(* This invocation has something to show for f.                            *)
Tried(f) ==
  Booked(f) \/ \E c \in Commit : c.f = f /\ c.n = invocation /\ Held(c)

-----------------------------------------------------------------------------
(* No commit is of a later invocation, and a verdict `passed` is that of   *)
(* the attempt whose commits are to be judged by it.                       *)
VerdictsTell ==
  \A c \in Commit :
    \/ /\ c.n <= invocation
       /\ (c.tagged \/ c.n = invocation) /\ verdicts[IdOf[c.f]] = "passed" => c.good
    \/ ~Held(c)

(* An invocation works on a finding at most once, in one thread.           *)
TriedOnce ==
  /\ \A f \in queue : ~Tried(f)
  /\ \A w \in Worker : stage[w] # "idle" =>
       /\ task[w] \notin queue
       /\ ~Booked(task[w])
       /\ stage[w] \in Running => ~Tried(task[w])
       /\ \A v \in Worker \ {w} : stage[v] # "idle" => task[v] # task[w]

(* What a thread knows of its finding.                                     *)
ThreadTells ==
  \A w \in Worker :
    /\ IF stage[w] \in Merging THEN pending[w].f = task[w] ELSE pending[w] = None
    /\ stage[w] = "fixing" /\ task[w] \in Apart => verdicts[IdOf[task[w]]] # "passed"
    /\ stage[w] = "landing" /\ task[w] \in Apart /\ verdicts[IdOf[task[w]]] = "passed"
         => outcome[w].verdict = "passed"

(* Findings are worked on in the cycle they were found in; what a cycle    *)
(* has tried is behind the next.                                           *)
InCycle == phase \notin {"publish", "done", "crashed"}

CyclesApart ==
  /\ phase # "fix" => queue = {}
  /\ fixers_only => phase \notin {"cycle", "evaluate"} /\ results = {}
  /\ InCycle /\ ~fixers_only =>
       /\ \A f \in Finding : Tried(f) => CycleOf[f] <= cycle
       /\ phase = "evaluate" => \A f \in Finding : Tried(f) => CycleOf[f] < cycle
       /\ phase # "cycle" => \A f \in results : CycleOf[f] = cycle
       /\ \A f \in queue : CycleOf[f] <= cycle
       /\ \A w \in Worker : stage[w] # "idle" => CycleOf[task[w]] <= cycle
       /\ IF phase = "cycle" THEN last_cycle <= cycle + 1 ELSE last_cycle = cycle

(* A record is of a commit of its finding, and of the only one to revert   *)
(* for it.                                                                 *)
Backed(r) ==
  /\ r.c.f = r.f
  /\ r.c.tagged \/ r.c.n = invocation
  /\ r.at # 0 => r.at \in DOMAIN staging /\ staging[r.at].c = r.c /\ r.c.tagged

RecordsTell ==
  /\ to_revert # {} => phase = "reverting"
  /\ commits \cap to_revert = {}
  /\ \A r \in Records : Backed(r)
  /\ \A r, s \in Records : s.f = r.f => s = r
  /\ \A r \in Records, x \in Settled : x.f # r.f
  /\ \A x \in OfApart(revert_conflicts) : x.c.f = x.f

(* What was reverted before this invocation tried f, and when.             *)
Unreverted(f) == \A c \in Commit : c.f = f /\ Reverted(c) => ~c.tagged /\ c.n # invocation

RevertsTell ==
  /\ \A w \in Worker : stage[w] \notin {"idle", "assigned"} => Unreverted(task[w])
  /\ \A r \in commits : r.c.n = invocation => Unreverted(r.f)
  /\ \A r \in OfApart(to_revert) :
       ~Reverted(r.c) /\ \A c \in Commit : Reverted(c) /\ c.f = r.f => ~c.tagged

(* A pick of what was reverted is an attempt of a later cycle.             *)
RevertsPast ==
  /\ phase \in {"fix", "revert"} =>
       \A c \in Commit : Reverted(c) /\ c.n = invocation => ~fixers_only /\ CycleOf[c.f] < cycle
  /\ \A i, j \in DOMAIN staging :
       /\ i < j /\ staging[i].op = "revert" /\ staging[j].op = "pick"
       /\ staging[i].c = staging[j].c /\ staging[i].c.f \in Apart
       => CycleOf[staging[i].c.f] < last_cycle

(* The tree is what the picks and reverts of staging make it.              *)
TreeTells ==
  /\ \A c \in tree : c.f \in Apart => c.kind # "marker" /\ Reached(c)
  /\ \A c \in Commit \ tree :
       c.f \in Apart /\ c.kind # "marker" /\ Reached(c) => Reverted(c)
  /\ \A i \in DOMAIN staging :
       staging[i].op = "revert" /\ staging[i].c \in tree /\ staging[i].c.f \in Apart =>
       \E j \in DOMAIN staging : j > i /\ staging[j].op = "pick" /\ staging[j].c = staging[i].c

(* Every change put in force is recorded, or about to be.                  *)
Merged(c) == \E w \in Worker : stage[w] = "recording" /\ pending[w] = c
Reported(c) == c \in recovered_commits \/ \E x \in revert_conflicts : x.c = c

Accounted ==
  phase # "crashed" =>
    \A i \in DOMAIN staging : i > start_at /\ staging[i].op = "pick" /\ staging[i].c.f \in Apart =>
      /\ staging[i].c.n = invocation
      /\ staging[i].c \in tree =>
           \/ \E r \in Records : r.c = staging[i].c
           \/ Reported(staging[i].c) \/ Merged(staging[i].c)

(* Outside the fix phase the records that are left are verified.           *)
RecordsVerified ==
  phase \in {"cycle", "evaluate", "reverting", "settle", "publish"} /\ ~graceful_stop_requested
    => \A r \in OfApart(commits) : r.c.good

(* A failed fix in force is still to be looked at, recorded or reported.   *)
Waits(f) == f \in queue \/ \E w \in Worker : stage[w] = "assigned" /\ task[w] = f

RollbackDue ==
  ~fixers_only /\ ~graceful_stop_requested /\ ~late =>
    \A c \in tree : FailedFix(c) /\ c.f \in Apart =>
      /\ phase \in {"fix", "revert"} =>
           Waits(c.f) \/ Merged(c) \/ (\E r \in commits : r.c = c) \/ Reported(c)
      /\ phase \in {"reverting", "settle"} =>
           (\E r \in to_revert : r.c = c) \/ Reported(c)

BooksInv ==
  /\ VerdictsTell /\ TriedOnce /\ ThreadTells /\ CyclesApart
  /\ RecordsTell /\ RevertsTell /\ RevertsPast /\ TreeTells
  /\ Accounted /\ RecordsVerified /\ RollbackDue /\ RevertConflictsInForce
=============================================================================
