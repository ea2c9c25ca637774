--------------------------- MODULE TranscriptTailer ---------------------------
(* The transcript tailer of src/portal/transcript_tailer.py in the API        *)
(* process: it polls the transcripts that agent sessions write, keeps the     *)
(* registry of sessions, and announces their start and end in the events log  *)
(* of the client.  The log is also written by the ingest endpoint of the same *)
(* process and by other processes.                                           *)
EXTENDS EventLog

CONSTANTS
  Session, Codex,   \* the sessions, and those of the Codex agent
  Hooked,           \* the sessions whose agent posts its own start
  Api,              \* the process of the tailer
  None,
  StableTicks,      \* _IDLE_TIMEOUT_STABLE_TICKS
  MaxSize,          \* bound: how often a transcript grows
  MaxKills,         \* bound: how often the API process dies
  MaxOther          \* bound: other lines

(* Ages of a modification time: 1 is past idle_timeout_s, 2 is also past      *)
(* active_window_s.                                                          *)
Fresh == 0
IdleAge == 1
OldAge == 2
Ages == {Fresh, IdleAge, OldAge}

(* RegistryRow: the first two fields come back from the disk.                 *)
Rows == [hook : BOOLEAN, ended : BOOLEAN, seen : 0..MaxSize, age : Ages,
         stable : 0..StableTicks]

ASSUME TailerAssumption ==
  /\ Api \in Writer /\ Codex \subseteq Session /\ Hooked \subseteq Session
  /\ None \notin Session /\ None \notin Rows
  /\ StableTicks \in Nat \ {0} /\ MaxSize \in Nat /\ MaxKills \in Nat /\ MaxOther \in Nat

VARIABLES
  transcript,    \* the file of each session, written by its agent
  rows,          \* SessionRegistry.rows
  marked,        \* SessionRegistry._registered_only
  registry,      \* sessions.jsonl
  unsaved,       \* history: the sessions of which this process failed to
                 \* append a row
  tick,          \* where the tailer is in its loop
  posted,        \* the sessions whose start the hook has posted
  others, kills  \* counts of the bounded actions

tailerVars == <<transcript, rows, marked, registry, unsaved, tick>>
vars == <<logVars, tailerVars, posted, others, kills>>

(* Size 1 is a file whose first line is not yet whole.                        *)
NoFile == [size |-> 0, age |-> Fresh, final |-> FALSE]
Present(s) == transcript[s].size > 0
Parseable(s) == transcript[s].size > 1
Gone(s) == ~Present(s) /\ transcript[s].age = OldAge

Start(s, by) == [kind |-> "start", sid |-> s, by |-> by]
End(s) == [kind |-> "end", sid |-> s, by |-> "tailer"]
Other == [kind |-> "other", sid |-> None, by |-> "other"]

StartRow(s, hook) == [kind |-> "start", sid |-> s, hook |-> hook]
EndRow(s) == [kind |-> "end", sid |-> s, hook |-> FALSE]

(* rebuild_registry_from_disk: the last start row of a session, and an end    *)
(* row after it; a stub for an end row without a start.  What the ticks keep  *)
(* of a file is not on disk.                                                 *)
StartRows(s) == {i \in DOMAIN registry : registry[i].sid = s /\ registry[i].kind = "start"}
EndRows(s) == {i \in DOMAIN registry : registry[i].sid = s /\ registry[i].kind = "end"}
LastStart(s) == CHOOSE i \in StartRows(s) : \A j \in StartRows(s) : j <= i

(* Mutants: end rows are passed over; what is not on disk has no default.     *)
RebuiltOpen(s) ==
  IF StartRows(s) = {} THEN None
  ELSE [hook |-> registry[LastStart(s)].hook, ended |-> FALSE,
        seen |-> 0, age |-> OldAge, stable |-> 0]
RebuiltBare(s) ==
  IF StartRows(s) = {} THEN None
  ELSE [hook |-> registry[LastStart(s)].hook,
        ended |-> \E j \in EndRows(s) : j > LastStart(s),
        seen |-> None, age |-> None, stable |-> 0]

FromDisk(hook, ended) ==
  [hook |-> hook, ended |-> ended, seen |-> 0, age |-> OldAge, stable |-> 0]
Rebuilt(s) ==
  IF StartRows(s) # {}
    THEN FromDisk(registry[LastStart(s)].hook, \E j \in EndRows(s) : j > LastStart(s))
  ELSE IF EndRows(s) # {} THEN FromDisk(FALSE, TRUE)
  ELSE None

Sleeping == [at |-> "sleep", todo |-> {}, sid |-> None, size |-> 0, age |-> Fresh]
Down == [Sleeping EXCEPT !.at = "down"]
Over == [Sleeping EXCEPT !.at = "over"]

(* rows.get(sid) is a row that is not ended.                                 *)
IsOpen(s) == rows[s] # None /\ ~rows[s].ended

NothingSeen ==
  /\ LogInit
  /\ rows = [s \in Session |-> None]
  /\ marked = {} /\ registry = <<>> /\ unsaved = {} /\ tick = Sleeping
Init ==
  /\ NothingSeen
  /\ transcript = [s \in Session |-> NoFile]
  /\ posted = {} /\ others = 0 /\ kills = 0

-----------------------------------------------------------------------------
(* The agents write their transcripts, and old transcripts are cleared.       *)
AgentWrites(s) ==
  /\ transcript[s].size < MaxSize /\ ~Gone(s)
  /\ \E last \in IF s \in Codex THEN BOOLEAN ELSE {FALSE} :
       /\ last => Present(s)
       /\ transcript' = [transcript EXCEPT ![s] =
            [size |-> @.size + 1, age |-> Fresh, final |-> @.final \/ last]]
  /\ UNCHANGED <<logVars, rows, marked, registry, unsaved, tick, posted, others, kills>>

Cleared(s) ==
  /\ Present(s) /\ transcript[s].age = OldAge
  /\ transcript' = [transcript EXCEPT ![s].size = 0]
  /\ UNCHANGED <<logVars, rows, marked, registry, unsaved, tick, posted, others, kills>>

(* Time passes between ticks, which take far less than the idle timeout.      *)
Older(a) == IF a = OldAge THEN a ELSE a + 1
TimePasses ==
  /\ tick.at \in {"sleep", "down", "over"}
  /\ transcript' = [s \in Session |->
       IF Present(s) THEN [transcript[s] EXCEPT !.age = Older(@)] ELSE transcript[s]]
  /\ rows' = [s \in Session |->
       IF rows[s] = None THEN None ELSE [rows[s] EXCEPT !.age = Older(@)]]
  /\ UNCHANGED <<logVars, marked, registry, unsaved, tick, posted, others, kills>>

-----------------------------------------------------------------------------
(* The event loop of the API runs something else only where the tailer waits. *)
LoopFree == tick.at \in {"sleep", "attribute", "over"} /\ Free(Api)

(* portal_ingest: a hook posts the start of a session, or any other event.    *)
IngestStart(s) ==
  /\ LoopFree /\ s \in Hooked \ posted
  /\ Begin(Api, Start(s, "hook"))
  /\ posted' = posted \cup {s}
  /\ UNCHANGED <<tailerVars, others, kills>>

LogOther(p) ==
  /\ p = Api => LoopFree
  /\ others < MaxOther /\ others' = others + 1
  /\ Begin(p, Other)
  /\ UNCHANGED <<tailerVars, posted, kills>>

-----------------------------------------------------------------------------
Goto(at) == tick' = [tick EXCEPT !.at = at]
Ready(at) == tick.at = at /\ Free(Api)

(* The listing of the two roots.                                             *)
BeginTick ==
  /\ Ready("sleep")
  /\ tick' = [Sleeping EXCEPT !.at = "scan", !.todo = {s \in Session : Present(s)}]
  /\ UNCHANGED <<logVars, transcript, rows, marked, registry, unsaved, posted, others, kills>>

(* Files of Claude Code come first.                                          *)
NextFile(s) ==
  /\ Ready("scan") /\ s \in tick.todo
  /\ s \in Codex => tick.todo \subseteq Codex

(* An exception in the handler of a file is caught in tick, which logs an     *)
(* alert; if that raises the tick is over, and run_tailer logs another; if    *)
(* that one raises, run_tailer has ended.  Alerts go to the operator's log.   *)
Aborted == tick' \in {Sleeping, Over}
Caught(t) == tick' = [t EXCEPT !.at = "scan"] \/ Aborted

(* _append_registry_row, which may raise.                                    *)
Appended(row) == registry' = Append(registry, row) /\ UNCHANGED unsaved
AppendFails(s) == UNCHANGED registry /\ unsaved' = unsaved \cup {s}

(* Mutants: the registry is not told; a row stays open until it is on disk.   *)
EndInMemory(s) ==
  /\ rows' = [rows EXCEPT ![s].ended = TRUE]
  /\ UNCHANGED <<registry, unsaved>>
  /\ Begin(Api, End(s))
EndNotKept(s) == AppendFails(s) /\ UNCHANGED <<logVars, rows>>

(* A row is ended in memory, then in the registry, then the end is logged.    *)
EmitSessionEnd(s) ==
  /\ rows' = [rows EXCEPT ![s].ended = TRUE]
  /\ Appended(EndRow(s))
  /\ Begin(Api, End(s))
EndUnsaved(s) ==
  /\ rows' = [rows EXCEPT ![s].ended = TRUE]
  /\ AppendFails(s)
  /\ UNCHANGED logVars

(* _handle_cc_file and _handle_codex_file pass over a file.                   *)
SkipFile(s) ==
  /\ NextFile(s)
  /\ s \in marked \/ ~Present(s) \/ (rows[s] = None /\ ~Parseable(s))
  /\ tick' = [tick EXCEPT !.todo = @ \ {s}]
  /\ UNCHANGED <<logVars, transcript, rows, marked, registry, unsaved, posted, others, kills>>

(* _update_activity.                                                         *)
Updated(s) ==
  IF ~IsOpen(s) THEN rows[s]
  ELSE IF transcript[s].size > rows[s].seen \/ transcript[s].age < rows[s].age
    THEN [rows[s] EXCEPT !.seen = transcript[s].size, !.age = transcript[s].age, !.stable = 0]
    ELSE [rows[s] EXCEPT !.stable = IF @ = StableTicks THEN @ ELSE @ + 1]

(* detect_codex_terminal_event on a row that is open.                         *)
Finished(s) == s \in Codex /\ IsOpen(s) /\ Present(s) /\ transcript[s].final

UpdateActivity(s) ==
  /\ NextFile(s) /\ s \notin marked /\ Present(s) /\ rows[s] # None
  /\ ~Finished(s)
  /\ rows' = [rows EXCEPT ![s] = Updated(s)]
  /\ tick' = [tick EXCEPT !.todo = @ \ {s}]
  /\ UNCHANGED <<logVars, transcript, marked, registry, unsaved, posted, others, kills>>

CodexEnds(s) ==
  /\ NextFile(s) /\ s \notin marked /\ Finished(s)
  /\ rows' = [rows EXCEPT ![s] = [Updated(s) EXCEPT !.ended = TRUE]]
  /\ LET t == [tick EXCEPT !.todo = @ \ {s}] IN
       \/ /\ Appended(EndRow(s)) /\ Begin(Api, End(s))
          /\ tick' = [t EXCEPT !.at = "ending"]
       \/ AppendFails(s) /\ UNCHANGED logVars /\ Caught(t)
  /\ UNCHANGED <<transcript, marked, posted, others, kills>>

(* A new session: its client is looked up in the database.                    *)
BeginAttribution(s) ==
  /\ NextFile(s) /\ s \notin marked /\ rows[s] = None /\ Parseable(s)
  /\ tick' = [tick EXCEPT !.todo = @ \ {s}, !.at = "attribute", !.sid = s,
                          !.size = transcript[s].size, !.age = transcript[s].age]
  /\ UNCHANGED <<logVars, transcript, rows, marked, registry, unsaved, posted, others, kills>>

AttributionFails ==
  /\ Ready("attribute") /\ Caught(tick)
  /\ UNCHANGED <<logVars, transcript, rows, marked, registry, unsaved, posted, others, kills>>

NewRow(hook) ==
  [hook |-> hook, ended |-> FALSE, seen |-> tick.size, age |-> tick.age, stable |-> 0]

(* _register_only: a transcript older than the active window.                 *)
RegisterOnly(s) ==
  /\ Ready("attribute") /\ tick.sid = s /\ tick.age = OldAge
  /\ rows' = [rows EXCEPT ![s] = NewRow(FALSE)]
  /\ marked' = marked \cup {s}
  /\ \/ Appended(StartRow(s, FALSE)) /\ Goto("scan")
     \/ AppendFails(s) /\ Caught(tick)
  /\ UNCHANGED <<logVars, transcript, posted, others, kills>>

(* is_session_already_started: the file the path names, not the segments.     *)
AlreadyStarted(s) == \E by \in {"hook", "tailer"} :
  \E i \in DOMAIN CurrentLines : CurrentLines[i] = Start(s, by)

EmitSessionStart(s) ==
  /\ Ready("attribute") /\ tick.sid = s /\ tick.age # OldAge
  /\ rows' = [rows EXCEPT ![s] = NewRow(AlreadyStarted(s))]
  /\ \/ /\ Appended(StartRow(s, AlreadyStarted(s)))
        /\ IF AlreadyStarted(s) THEN Settle(Api) ELSE Begin(Api, Start(s, "tailer"))
        /\ Goto("starting")
     \/ AppendFails(s) /\ UNCHANGED logVars /\ Caught(tick)
  /\ UNCHANGED <<transcript, marked, posted, others, kills>>

(* After the start of a Codex session its transcript is searched at once,     *)
(* unless the write of the start raised.                                     *)
Started(s) ==
  /\ Ready("starting") /\ tick.sid = s
  /\ op[Api].at = "idle" /\ Finished(s)
  /\ \/ EmitSessionEnd(s) /\ Goto("ending")
     \/ EndUnsaved(s) /\ Caught(tick)
  /\ UNCHANGED <<transcript, marked, posted, others, kills>>

StartedOpen(s) ==
  /\ Ready("starting") /\ tick.sid = s
  /\ \/ op[Api].at = "failed" /\ Caught(tick)
     \/ op[Api].at = "idle" /\ ~Finished(s) /\ Goto("scan")
  /\ UNCHANGED <<logVars, transcript, rows, marked, registry, unsaved, posted, others, kills>>

Ended ==
  /\ Ready("ending")
  /\ IF op[Api].at = "failed" THEN Caught(tick) ELSE Goto("scan")
  /\ UNCHANGED <<logVars, transcript, rows, marked, registry, unsaved, posted, others, kills>>

(* _sweep_idle_timeouts: a write that raises ends the tick.                   *)
Due(s) ==
  /\ IsOpen(s) /\ s \notin marked
  /\ rows[s].age >= IdleAge /\ rows[s].stable >= StableTicks

BeginSweep ==
  /\ Ready("scan") /\ tick.todo = {} /\ Goto("sweep")
  /\ UNCHANGED <<logVars, transcript, rows, marked, registry, unsaved, posted, others, kills>>

IdleTimeout(s) ==
  /\ Ready("sweep") /\ Due(s)
  /\ \/ EmitSessionEnd(s) /\ Goto("timing_out")
     \/ EndUnsaved(s) /\ Aborted
  /\ UNCHANGED <<transcript, marked, posted, others, kills>>

TimedOut ==
  /\ Ready("timing_out")
  /\ IF op[Api].at = "failed" THEN Aborted ELSE Goto("sweep")
  /\ UNCHANGED <<logVars, transcript, rows, marked, registry, unsaved, posted, others, kills>>

EndTick ==
  /\ Ready("sweep") /\ \A s \in Session : ~Due(s)
  /\ tick' = Sleeping
  /\ UNCHANGED <<logVars, transcript, rows, marked, registry, unsaved, posted, others, kills>>

-----------------------------------------------------------------------------
(* The API process dies at any point, and comes back with run_tailer.         *)
Kill ==
  /\ tick.at # "down" /\ kills < MaxKills /\ kills' = kills + 1
  /\ tick' = Down
  /\ op' = [op EXCEPT ![Api] = Idle]
  /\ rows' = [s \in Session |-> None] /\ marked' = {} /\ unsaved' = {}
  /\ UNCHANGED <<file, current, segments, sameSecond, transcript, registry, posted, others>>

Bootstrap ==
  /\ tick.at = "down" /\ tick' = Sleeping
  /\ rows' = [s \in Session |-> Rebuilt(s)] /\ marked' = {}
  /\ UNCHANGED <<logVars, transcript, registry, unsaved, posted, others, kills>>

-----------------------------------------------------------------------------
HandleFile(s) ==
  \/ SkipFile(s) \/ UpdateActivity(s) \/ CodexEnds(s) \/ BeginAttribution(s)
  \/ RegisterOnly(s) \/ EmitSessionStart(s) \/ Started(s) \/ StartedOpen(s)
  \/ IdleTimeout(s)

Tailer ==
  \/ BeginTick \/ (\E s \in Session : HandleFile(s)) \/ AttributionFails
  \/ Ended \/ BeginSweep \/ TimedOut \/ EndTick

Log(p) == LogStep(p) /\ UNCHANGED <<tailerVars, posted, others, kills>>
Clock == SecondPasses /\ UNCHANGED <<tailerVars, posted, others, kills>>

Next ==
  \/ \E s \in Session : AgentWrites(s) \/ Cleared(s) \/ IngestStart(s)
  \/ \E p \in Writer : LogOther(p) \/ Log(p)
  \/ Tailer \/ TimePasses \/ Clock \/ Kill \/ Bootstrap

(* While run_tailer lasts the loop goes round, its system calls return, and   *)
(* time passes.                                                              *)
Fairness == WF_vars(Tailer \/ Log(Api)) /\ SF_vars(TimePasses)
Spec == Init /\ [][Next]_vars /\ Fairness
=============================================================================
