--------------------------- MODULE AuditProperties ----------------------------
(* What the audit pipeline promises, over its crashes, retries and resumes. *)
EXTENDS AuditPipeline

Docs == [run : 0..MaxRuns, usable : BOOLEAN, from : [Stages -> 0..MaxRuns]]

(* The types of the state.                                                 *)
TypeOK ==
  /\ status \in Statuses /\ completed \subseteq Stages
  /\ session \in [Stages -> 0..MaxRuns]
  /\ charged \subseteq Stages
  /\ doc \in [Stages -> Docs] /\ gap \in BOOLEAN
  /\ booked \in [Stages -> 0..MaxRuns] /\ torn \in BOOLEAN
  /\ leg \in 0..8 /\ phase \in [Stages -> Phases]
  /\ billed \subseteq Stages
  /\ runs \in 0..MaxRuns /\ seen \subseteq {"intake", "ship"}
  /\ uploaded \in [prefix : 0..MaxRuns, html : 0..MaxRuns]

(* A stage that state.json calls complete has its files, and they are of   *)
(* the session state.json names: what a dead attempt left behind never     *)
(* passes for the work of the attempt that counts, though AgentRunner      *)
(* takes files on disk for success.  The file of an agent may be newer, or *)
(* missing, since an agent is marked before its file is seen to.  Not said *)
(* of gap_report.md, which no attempt clears (stages.py:733, 768) and      *)
(* which may be of any earlier one.                                        *)
NoStaleOutput ==
  /\ \A s \in completed \ Agents : OnDisk(s) /\ doc[s].run = session[s]
  /\ \A a \in completed \cap Agents : OnDisk(a) => doc[a].run >= session[a]

(* What a complete stage was made from is on disk as it was then, and the  *)
(* stages it came from are complete: the report is never built on an agent *)
(* that failed or on a file that did not parse, and no earlier stage runs  *)
(* again under a later one that is skipped.                                *)
Sound(s) ==
  \A u \in Reads(s) :
    \/ u \in Agents /\ doc[s].from[u] = 0
    \/ /\ u \in completed /\ OnDisk(u) /\ doc[u].usable
       /\ doc[s].from[u] = doc[u].run
ChainCurrent == \A s \in completed : OnDisk(s) => Sound(s)

(* The two places a cost is kept in agree, whatever step a process died    *)
(* at: what state.json says a complete stage has cost is in                *)
(* cost_actual.json, as long as that can be read.  A session whose failure *)
(* was taken for a success is in neither.                                  *)
BooksBeforeMarks ==
  ~torn => \A s \in completed \cap charged : session[s] <= booked[s]

(* The prefix a report is published under is the slug printed in it, after *)
(* any number of re-renderings and fresh starts.                           *)
PublishedAsRendered == uploaded.prefix = uploaded.html

(* Resuming is idempotent: no step of any run changes the files of a stage *)
(* that is complete, other than the session of that stage itself.          *)
CompletedStays ==
  [][\A s \in completed \cap completed' :
       OnDisk(s) /\ phase[s] # "session" => doc'[s] = doc[s]]_vars

(* If no session runs for ever (nothing in the code cuts one short), every *)
(* run comes to an end, at a gate or with an error: a failed agent does    *)
(* not hold up the fan-out, nor one agent another.                         *)
InSession(s) == phase[s] \in {"cross", "session"}
RunEnds == (\A s \in Stages : []<>~InSession(s)) => (leg # 0 ~> leg = 0)

-----------------------------------------------------------------------------
(* What makes these hold, step by step.                                    *)
Active(s) == phase[s] \in {"cross", "session", "record", "mark", "scaffold"}

Unread(s) ==
  \A t \in completed : s \in Reads(t) /\ OnDisk(t) =>
    s \in Agents /\ doc[t].from[s] = 0

(* A stage at work is at its place, only this run has written its files    *)
(* once they were cleared, and nothing complete was made from them.        *)
AtWork(s) ==
  Active(s) =>
    /\ At(s) /\ InputsParse(s)
    /\ phase[s] # "cross" => doc[s].run \in {0, runs} /\ (OnDisk(s) => Sound(s))
    /\ Unread(s)
    /\ s \notin Agents => s \notin completed /\ phase[s] # "scaffold"
    /\ s \notin Agents /\ ~InSession(s) => OnDisk(s) /\ GapThere(s)
    /\ phase[s] = "cross" => s = "synthesis"
    /\ phase[s] = "scaffold" => s \in completed
    /\ phase[s] = "mark" /\ s \in billed /\ ~torn => booked[s] = runs

(* A stage that is done has its files; only an agent may have failed.      *)
Over(s) ==
  /\ phase[s] = "done" => Intact(s) /\ (s \in Agents => doc[s].usable)
  /\ phase[s] = "failed" => s \in Agents

(* What lies behind the run is complete, and so is what a gate was reached *)
(* by.                                                                     *)
Behind ==
  /\ leg = 0 => \A s \in Stages : phase[s] = "waiting"
  /\ leg # 0 => runs # 0
  /\ \A s \in Solo : leg > LegOf(s) => s \in completed
  /\ "synthesis" \in completed => gap
  /\ seen # {} => {"intake", "warmup", "prediscovery", "brief"} \subseteq completed
  /\ "ship" \in seen => "deliverable" \in completed
  /\ status # "pending" => seen # {}

Past(s) == doc[s].run <= runs /\ session[s] <= runs /\ booked[s] <= runs

(* The inductive invariant: the properties above with what they rest on.   *)
AuditInv ==
  /\ TypeOK /\ NoStaleOutput /\ ChainCurrent /\ BooksBeforeMarks
  /\ PublishedAsRendered /\ Behind
  /\ \A s \in Stages : AtWork(s) /\ Over(s) /\ Past(s)
=============================================================================
