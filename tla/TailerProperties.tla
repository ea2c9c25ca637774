--------------------------- MODULE TailerProperties ---------------------------
(* What the transcript tailer and the log under it promise.                   *)
EXTENDS TranscriptTailer

Lines == [kind : {"start"}, sid : Session, by : {"hook", "tailer"}]
         \cup [kind : {"end"}, sid : Session, by : {"tailer"}] \cup {Other}
DiskRows == [kind : {"start", "end"}, sid : Session, hook : BOOLEAN]
Places == {"down", "sleep", "scan", "attribute", "starting", "ending", "sweep", "timing_out",
           "over"}

LogTypeOK ==
  /\ file \in Seq(Seq(Lines)) /\ current \in Nat
  /\ segments \in Seq(Nat) /\ sameSecond \in BOOLEAN
  /\ op \in [Writer -> [at : Steps, to : Nat, event : Lines \cup {<<>>}]]

TailerTypeOK ==
  /\ transcript \in [Session -> [size : 0..MaxSize, age : Ages, final : BOOLEAN]]
  /\ rows \in [Session -> Rows \cup {None}] /\ marked \subseteq Session
  /\ registry \in Seq(DiskRows) /\ unsaved \subseteq Session
  /\ tick \in [at : Places, todo : SUBSET Session, sid : Session \cup {None},
               size : 0..MaxSize, age : Ages]
  /\ posted \subseteq Session /\ others \in 0..MaxOther /\ kills \in 0..MaxKills

(* The types of the state.                                                   *)
TypeOK == LogTypeOK /\ TailerTypeOK

(* What bootstrap would read from sessions.jsonl is what the process has in   *)
(* memory, whenever it dies, but for the sessions of which it failed to       *)
(* append a row; of those the disk knows less, and nothing that is not so.    *)
(* Not said of the mark of a session that was registered only, which is not   *)
(* on disk: the next process follows such a session like any other.           *)
Facts(row) ==
  IF row = None THEN {}
  ELSE {"known"} \cup (IF row.hook THEN {"hook"} ELSE {})
                 \cup (IF row.ended THEN {"ended"} ELSE {})
RegistryKeepsRows ==
  tick.at # "down" => \A s \in Session :
    /\ Facts(Rebuilt(s)) \subseteq Facts(rows[s])
    /\ s \notin unsaved => Facts(rows[s]) \subseteq Facts(Rebuilt(s))

(* The tailer announces the start and the end of a session at most once each, *)
(* the start first, over any number of restarts, rotations and hooks.         *)
Own(line) == line.by = "tailer"
Before(i, j, k, l) == i < k \/ (i = k /\ j < l)
AnnouncedOnce ==
  \A i, k \in DOMAIN file : \A j \in DOMAIN file[i], l \in DOMAIN file[k] :
    LET a == file[i][j]
        b == file[k][l]
    IN Own(a) /\ Own(b) /\ a.sid = b.sid =>
         /\ a = b => i = k /\ j = l
         /\ a.kind = "start" /\ b.kind = "end" => Before(i, j, k, l)

(* A session whose start the tailer announced is in the registry, where the   *)
(* drill-down route looks it up, and one whose end it announced is ended      *)
(* there: the row is written before the line, whatever dies or fails in       *)
(* between.                                                                  *)
EndedOnDisk(s) == EndRows(s) # {}
Recorded(line) ==
  /\ line.kind = "start" => StartRows(line.sid) # {}
  /\ line.kind = "end" => EndedOnDisk(line.sid)
AnnouncedResolves ==
  \A i \in DOMAIN file : \A j \in DOMAIN file[i] :
    Own(file[i][j]) => Recorded(file[i][j])

(* A rotation takes the name of an earlier segment, whose lines are gone with *)
(* it, only when another process has rotated since the size was looked at.    *)
OnlyStaleRotationLoses ==
  [][IsPrefix(segments, segments') \/ Len(CurrentLines) < Threshold]_vars

(* As long as ticks reach their sweep (an alert that cannot be written cuts   *)
(* one short, or ends run_tailer), a session that the tailer follows is ended *)
(* at last, unless its transcript is cleared away or the process dies (the    *)
(* next one follows it again): whatever other writes and lookups fail, for    *)
(* this session or for another one that the sweep comes to first.             *)
SessionsClose ==
  []<>(tick.at = "sweep") =>
    \A s \in Session : IsOpen(s) /\ s \notin marked ~> ~IsOpen(s) \/ Gone(s)

-----------------------------------------------------------------------------
(* What makes these hold, step by step.                                      *)

(* A session has one start row, and its end rows come after it.               *)
RegistryShape ==
  \A s \in Session :
    /\ \A i, j \in StartRows(s) : i = j
    /\ \A i \in StartRows(s), j \in EndRows(s) : i < j

(* RegistryKeepsRows, field by field.                                        *)
RegistryCurrent ==
  tick.at # "down" => \A s \in Session :
    /\ rows[s] = None => StartRows(s) = {} /\ EndRows(s) = {}
    /\ rows[s] # None =>
         /\ EndRows(s) # {} => rows[s].ended
         /\ \A i \in StartRows(s) : registry[i].hook = rows[s].hook
         /\ s \notin unsaved =>
              /\ rows[s].ended => EndRows(s) # {}
              /\ StartRows(s) = {} => rows[s].ended /\ ~rows[s].hook

(* The session looked up is not in the registry yet.                          *)
Attributing ==
  tick.at = "attribute" => tick.sid \in Session /\ rows[tick.sid] = None

(* The path names the newest file, and this second's is not full.            *)
LogShape ==
  /\ current \in {0, Len(file)}
  /\ sameSecond => segments # <<>> /\ Len(CurrentLines) < Threshold
  /\ \A p \in Writer : op[p].at = "append" => op[p].to \in 1..Len(file)
  /\ \A p \in Writer : ~Free(p) => op[p].event \in Lines

(* Only the tailer's process writes the tailer's lines, one at a time: what   *)
(* it is about to write is recorded, is not in the log, and comes last.       *)
Announcing ==
  \A p \in Writer : ~Free(p) /\ Own(op[p].event) =>
    /\ p = Api /\ Recorded(op[p].event)
    /\ \A i \in DOMAIN file : \A j \in DOMAIN file[i] :
         LET line == file[i][j] IN
         /\ Own(line) => op[p].event # line
         /\ Own(line) /\ line.sid = op[p].event.sid => line.kind = "start"
         /\ Own(line) /\ op[p].at = "append" => i <= op[p].to

TailerInv ==
  /\ TypeOK /\ RegistryShape /\ RegistryCurrent /\ Attributing
  /\ LogShape /\ Announcing /\ AnnouncedOnce /\ AnnouncedResolves
=============================================================================
