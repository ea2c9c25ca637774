---------------------------- MODULE AuditPipeline -----------------------------
(***************************************************************************)
(* The marketing audit of src/audit/stages.py, as `freddy audit run` drives *)
(* it: stages in order, each of which skips when state.json lists it and    *)
(* its files exist, or else clears its files, runs an agent session,        *)
(* scaffolds what the session left out, books the cost and marks itself     *)
(* complete.  Any step may be the last one of its process; the next run     *)
(* starts from state.json and from the files as they are.  The run halts at *)
(* gates that other commands open.  The synthesis has two sessions, and one *)
(* file, gap_report.md, that it writes where it is missing and never clears. *)
(*                                                                          *)
(* A run starts a stage once at most, so that the number of the run stands  *)
(* for the session id, for the slug of a report, and for the time a file    *)
(* was written.                                                             *)
(***************************************************************************)
EXTENDS Naturals

CONSTANTS
  Agents,     \* STAGE_2_AGENTS
  MaxRuns,    \* bound on the invocations of `freddy audit run`
  Silent      \* bound: stages whose CLI may exit with 0 and tell no cost

Plain == {"intake", "warmup", "deliverable"}        \* no agent session
Solo == Plain \cup {"prediscovery", "brief", "synthesis", "proposal"}
Stages == Solo \cup Agents

ASSUME AuditAssumption ==
  /\ MaxRuns \in Nat
  /\ Agents \cap Solo = {}
  /\ Silent \subseteq Stages

VARIABLES
  status, completed, session,   \* state.json
  charged,                      \* the stages whose entry there has a cost
  doc,                          \* the files of every stage but gap_report.md
  gap,                          \* gap_report.md is there, of whatever run
  booked, torn,                 \* cost_actual.json: the last session added
  leg, phase,                   \* the running process
  billed,                       \* its stages whose sessions told their cost
  runs,
  seen,                         \* gates a run has halted at
  uploaded                      \* the report offered to the customer

stateFile == <<status, completed, session, charged>>
files == <<doc, gap>>
costFile == <<booked, torn>>
outside == <<runs, seen, uploaded>>
vars == <<stateFile, files, costFile, leg, phase, billed, outside>>

Statuses == {"pending", "brief_confirmed", "paid", "published",
             "engagement_closed"}
Phases == {"waiting", "cross", "session", "scaffold", "record", "mark",
           "done", "failed"}
Absent == [run |-> 0, usable |-> FALSE, from |-> [u \in Stages |-> 0]]

(* The order of the stages; the agents share a place.                      *)
LegOf(s) == CASE s = "intake" -> 1
              [] s = "warmup" -> 2
              [] s = "prediscovery" -> 3
              [] s = "brief" -> 4
              [] s = "synthesis" -> 6
              [] s = "proposal" -> 7
              [] s = "deliverable" -> 8
              [] OTHER -> 5

(* The stages whose files a stage puts in its prompt or its page.          *)
Reads(s) == CASE s \in {"intake", "warmup"} -> {}
              [] s = "prediscovery" -> {"warmup"}
              [] s = "brief" -> {"prediscovery"}
              [] s = "synthesis" -> Agents \cup {"brief"}
              [] s = "proposal" -> {"synthesis"}
              [] s = "deliverable" -> {"synthesis", "proposal", "brief"}
              [] OTHER -> {"brief"}

(* Sessions write JSON that later code parses.                             *)
Parsed == Agents \cup {"brief", "proposal"}

At(s) == leg = LegOf(s)
OnDisk(s) == doc[s].run > 0           \* all of its files
GapThere(s) == s = "synthesis" => gap
(* Mutant: the fan-out starts every agent again on a resume.               *)
IntactButAgents(s) ==
  s \in completed /\ OnDisk(s) /\ GapThere(s) /\ s \notin Agents
Intact(s) == s \in completed /\ OnDisk(s) /\ GapThere(s)

Init ==
  /\ status = "pending" /\ completed = {}
  /\ session = [s \in Stages |-> 0]
  /\ charged = {} /\ doc = [s \in Stages |-> Absent] /\ gap = FALSE
  /\ booked = [s \in Stages |-> 0] /\ torn = FALSE
  /\ leg = 0 /\ phase = [s \in Stages |-> "waiting"] /\ billed = {}
  /\ runs = 0 /\ seen = {} /\ uploaded = [prefix |-> 0, html |-> 0]

-----------------------------------------------------------------------------
(* Mutant: the synthesis takes any output file there is.                   *)
FromAnyFile(s) == [u \in Stages |-> IF u \in Reads(s) THEN doc[u].run ELSE 0]

(* What a stage is made from: of the agents, those whose artifact the run  *)
(* holds; nothing a stage reads changes while it runs.                     *)
From(s) == [u \in Stages |->
             IF u \in Reads(s) /\ (u \in Agents => phase[u] = "done")
               THEN doc[u].run ELSE 0]
Put(s, usable) ==
  doc' = [doc EXCEPT ![s] =
           [run |-> runs, usable |-> usable, from |-> From(s)]]

InputsParse(s) == \A u \in Reads(s) \ Agents : doc[u].usable

Move(s, to) == phase' = [phase EXCEPT ![s] = to]
Parsing(usable) == IF usable THEN "done" ELSE "failed"
EndRun ==
  leg' = 0 /\ phase' = [s \in Stages |-> "waiting"] /\ billed' = {}

(* With the brief confirmed and not paid for, the run only says so.        *)
Run ==
  /\ leg = 0 /\ runs < MaxRuns /\ status # "brief_confirmed"
  /\ runs' = runs + 1
  /\ leg' = IF status \in {"paid", "published"} THEN 5 ELSE 1
  /\ UNCHANGED <<stateFile, files, costFile, phase, billed, seen, uploaded>>

Skip(s) ==
  /\ At(s) /\ phase[s] = "waiting" /\ Intact(s)
  /\ Move(s, IF s \in Agents THEN Parsing(doc[s].usable) ELSE "done")
  /\ UNCHANGED <<stateFile, files, costFile, leg, billed, outside>>

(* The envelope tells what the session cost, if it parses.                  *)
TellsCost(s) ==
  \/ billed' = billed \cup {s}
  \/ s \in Silent /\ UNCHANGED billed

(* Mutants: a report that is there is not rendered again; files of an       *)
(* earlier attempt are not cleared, by a stage or by the narrative.        *)
StartOverReport(s) ==
  /\ At(s) /\ s \in Plain /\ phase[s] = "waiting" /\ ~Intact(s) /\ InputsParse(s)
  /\ IF OnDisk(s) THEN UNCHANGED doc ELSE Put(s, TRUE)
  /\ Move(s, "record")
  /\ UNCHANGED <<stateFile, gap, costFile, leg, billed, outside>>
StartUncleared(s) ==
  /\ At(s) /\ s \notin Plain \cup {"synthesis"} /\ phase[s] = "waiting"
  /\ ~Intact(s) /\ InputsParse(s)
  /\ Move(s, "session")
  /\ UNCHANGED <<stateFile, files, costFile, leg, billed, outside>>
CrossEndsUncleared(s) ==
  /\ At(s) /\ phase[s] = "cross"
  /\ Move(s, "session")
  /\ TellsCost(s)
  /\ UNCHANGED <<stateFile, files, costFile, leg, outside>>

(* A stage without a session writes its files.                             *)
StartPlain(s) ==
  /\ At(s) /\ s \in Plain /\ phase[s] = "waiting" /\ ~Intact(s) /\ InputsParse(s)
  /\ Put(s, TRUE)
  /\ Move(s, "record")
  /\ UNCHANGED <<stateFile, gap, costFile, leg, billed, outside>>

(* The stages with one session clear their files before it, so that what   *)
(* is there when it ends is the session's.                                 *)
Start(s) ==
  /\ At(s) /\ s \notin Plain \cup {"synthesis"} /\ phase[s] = "waiting"
  /\ ~Intact(s) /\ InputsParse(s)
  /\ doc' = [doc EXCEPT ![s] = Absent]
  /\ Move(s, "session")
  /\ UNCHANGED <<stateFile, gap, costFile, leg, billed, outside>>

(* The synthesis has the findings merged first, and clears nothing yet.    *)
CrossStarts(s) ==
  /\ At(s) /\ s = "synthesis" /\ phase[s] = "waiting"
  /\ ~Intact(s) /\ InputsParse(s)
  /\ Move(s, "cross")
  /\ UNCHANGED <<stateFile, files, costFile, leg, billed, outside>>

(* Then it clears all files but gap_report.md for the narrative; its       *)
(* report.json, left as it was, is written again before the mark.          *)
CrossEnds(s) ==
  /\ At(s) /\ phase[s] = "cross"
  /\ doc' = [doc EXCEPT ![s] = Absent]
  /\ Move(s, "session")
  /\ TellsCost(s)
  /\ UNCHANGED <<stateFile, gap, costFile, leg, outside>>

(* Every file of the stage, or the last one that was missing.              *)
SessionWrites(s) ==
  /\ At(s) /\ phase[s] = "session"
  /\ \/ /\ \E usable \in IF s \in Parsed THEN BOOLEAN ELSE {TRUE} : Put(s, usable)
        /\ UNCHANGED gap
     \/ s = "synthesis" /\ gap' = TRUE /\ UNCHANGED doc
  /\ UNCHANGED <<stateFile, costFile, leg, phase, billed, outside>>

(* The files a session left out are scaffolded, and parse; those it wrote  *)
(* of several may not.  A gap report that is there stays.                  *)
Scaffold(s) ==
  /\ IF OnDisk(s)
       THEN UNCHANGED doc
       ELSE \E usable \in IF s \in Parsed \ Agents THEN BOOLEAN ELSE {TRUE} :
              Put(s, usable)
  /\ gap' = (gap \/ s = "synthesis")

(* From the end of its session to its own a stage awaits nothing.          *)
AfterSession(s) ==
  /\ At(s) /\ phase[s] = "session"
  /\ \A t \in Agents : phase[t] \notin {"record", "mark", "scaffold"}
  /\ IF s \in Agents THEN UNCHANGED files ELSE Scaffold(s)
  /\ UNCHANGED <<stateFile, costFile, leg, outside>>

(* Mutant: the stage is marked and its cost never booked.                  *)
SessionEndsUnbooked(s) ==
  /\ AfterSession(s)
  /\ TellsCost(s)
  /\ Move(s, "mark")

(* The CLI exits with 0, whatever it wrote.                                *)
SessionEnds(s) ==
  /\ AfterSession(s)
  /\ TellsCost(s)
  /\ Move(s, "record")

(* The CLI fails, and AgentRunner takes the expected files on disk for a   *)
(* success: one that cost nothing.                                         *)
FilesTaken(s) ==
  /\ AfterSession(s) /\ OnDisk(s)
  /\ Move(s, "record")
  /\ UNCHANGED billed

RecordStageCost(s) ==
  /\ At(s) /\ phase[s] = "record" /\ ~torn
  /\ booked' = IF s \in billed THEN [booked EXCEPT ![s] = runs] ELSE booked
  /\ Move(s, "mark")
  /\ UNCHANGED <<stateFile, files, torn, leg, billed, outside>>

(* An agent is marked before its output is parsed or scaffolded.           *)
MarkStageComplete(s) ==
  /\ At(s) /\ phase[s] = "mark"
  /\ completed' = completed \cup {s}
  /\ session' = [session EXCEPT ![s] = runs]
  /\ charged' = IF s \in billed THEN charged \cup {s} ELSE charged \ {s}
  /\ Move(s, IF s \in Agents THEN "scaffold" ELSE "done")
  /\ UNCHANGED <<status, files, costFile, leg, billed, outside>>

(* The fan-out keeps the exception of an agent as its result; any other    *)
(* ends the run.                                                           *)
Raise(s) ==
  IF s \in Agents /\ InputsParse(s)
    THEN Move(s, "failed") /\ UNCHANGED <<leg, billed>>
    ELSE EndRun

(* The retries are used up, or the failure is terminal.                    *)
SessionFails(s) ==
  /\ At(s) /\ phase[s] \in {"cross", "session"}
  /\ Raise(s)
  /\ UNCHANGED <<stateFile, files, costFile, outside>>

(* An input does not parse, or cost_actual.json does not.                  *)
StageRaises(s) ==
  /\ At(s)
  /\ \/ phase[s] = "waiting" /\ ~InputsParse(s)
     \/ phase[s] = "record" /\ torn
  /\ Raise(s)
  /\ UNCHANGED <<stateFile, files, costFile, outside>>

ScaffoldOutput(s) ==
  /\ At(s) /\ s \in Agents /\ phase[s] = "scaffold"
  /\ Scaffold(s)
  /\ Move(s, Parsing(doc'[s].usable))
  /\ UNCHANGED <<stateFile, costFile, leg, billed, outside>>

(* Mutant: the fan-out waits for every agent to succeed.                   *)
LegDoneAll == \A s \in Stages : At(s) => phase[s] = "done"

LegDone == \A s \in Stages : At(s) => phase[s] \in {"done", "failed"}

(* Mutant: the run goes on past its gates.                                 *)
ProceedPastGate ==
  /\ leg # 0 /\ LegDone
  /\ leg' = leg + 1
  /\ UNCHANGED <<stateFile, files, costFile, phase, billed, outside>>

Proceed ==
  /\ leg \in {1, 2, 3, 5, 6, 7} /\ LegDone
  /\ leg' = leg + 1
  /\ UNCHANGED <<stateFile, files, costFile, phase, billed, outside>>

HaltAtGate ==
  /\ leg \in {4, 8} /\ LegDone
  /\ seen' = seen \cup {IF leg = 4 THEN "intake" ELSE "ship"}
  /\ EndRun
  /\ UNCHANGED <<stateFile, files, costFile, runs, uploaded>>

-----------------------------------------------------------------------------
(* state.json is replaced, all other files are written in place: a process *)
(* that dies inside a write leaves a file that does not parse.  The files  *)
(* of a stage that is not complete are written again.                      *)
Kill ==
  /\ leg # 0 /\ EndRun
  /\ UNCHANGED <<stateFile, files, costFile, outside>>

KillInCosts(s) ==
  /\ At(s) /\ phase[s] = "record" /\ ~torn
  /\ torn' = TRUE /\ booked' = [t \in Stages |-> 0]
  /\ EndRun
  /\ UNCHANGED <<stateFile, files, outside>>

KillInOutput(s) ==
  /\ At(s) /\ s \in Agents /\ phase[s] = "scaffold" /\ ~OnDisk(s)
  /\ Put(s, FALSE)
  /\ EndRun
  /\ UNCHANGED <<stateFile, gap, costFile, outside>>

-----------------------------------------------------------------------------
(* The commands check nothing: each flips the status, whatever it is.      *)
Gate(new) ==
  /\ status' = new
  /\ UNCHANGED <<completed, session, charged, files, costFile, leg, phase,
                 billed, runs, seen>>

ConfirmBrief == Gate("brief_confirmed") /\ UNCHANGED uploaded
MarkPaid == Gate("paid") /\ UNCHANGED uploaded
CloseEngagement == Gate("engagement_closed") /\ UNCHANGED uploaded

(* The prefix is the slug in state.json, or the audit id (0); the upload   *)
(* may fail.                                                               *)
Publish ==
  /\ Gate("published")
  /\ \/ uploaded' = [prefix |-> session["deliverable"],
                     html   |-> doc["deliverable"].run]
     \/ UNCHANGED uploaded

(* `freddy audit init` replaces state.json and leaves all other files.     *)
Reinit ==
  /\ status' = "pending" /\ completed' = {} /\ charged' = {}
  /\ session' = [s \in Stages |-> 0] /\ seen' = {}
  /\ UNCHANGED <<files, costFile, leg, phase, billed, runs, uploaded>>

(* Not the code but its user: commands are given between two runs, and a    *)
(* gate is passed after a run has halted at it, once or more.              *)
Operator ==
  /\ leg = 0
  /\ \/ "intake" \in seen /\ ConfirmBrief
     \/ status # "pending" /\ MarkPaid
     \/ "ship" \in seen /\ (Publish \/ CloseEngagement)
     \/ Reinit

StageStep(s) ==
  \/ Skip(s) \/ StartPlain(s) \/ Start(s) \/ CrossStarts(s)
  \/ RecordStageCost(s) \/ MarkStageComplete(s) \/ ScaffoldOutput(s)
  \/ StageRaises(s)
SessionStep(s) ==
  \/ SessionWrites(s) \/ CrossEnds(s) \/ SessionEnds(s) \/ FilesTaken(s)
  \/ SessionFails(s)
Advance == Proceed \/ HaltAtGate \/ \E s \in Stages : StageStep(s)

Next ==
  \/ Run \/ Advance \/ Kill \/ Operator
  \/ \E s \in Stages : SessionStep(s) \/ KillInCosts(s) \/ KillInOutput(s)

(* A process that is not killed runs on wherever it waits for no session:  *)
(* communicate() has no timeout, and a session need not end.               *)
Spec == Init /\ [][Next]_vars /\ WF_vars(Advance)
=============================================================================
