----------------------------- MODULE TailerProofs -----------------------------
(* Theorems about the transcript tailer and its log, for any sessions,        *)
(* writers, rotations, failures and restarts.                                *)
EXTENDS TailerProperties, TLAPS

LEMMA Rowless == None \notin Rows /\ None \notin Session
  BY TailerAssumption

(* What is appended to the registry is the only row that is new.              *)
LEMMA OneMoreRow ==
  ASSUME TypeOK, NEW s \in Session, NEW r, registry' = Append(registry, r), r.sid = s
  PROVE  /\ DOMAIN registry' = 1..(Len(registry) + 1)
         /\ DOMAIN registry = 1..Len(registry) /\ Len(registry) \in Nat
         /\ registry'[Len(registry) + 1] = r
         /\ \A i \in DOMAIN registry : registry'[i] = registry[i]
  BY DEF TypeOK, TailerTypeOK

LEMMA MoreStartRows ==
  ASSUME TypeOK, NEW s \in Session, NEW h \in BOOLEAN,
         registry' = Append(registry, StartRow(s, h))
  PROVE  /\ StartRows(s)' = StartRows(s) \cup {Len(registry) + 1}
         /\ \A t \in Session \ {s} : StartRows(t)' = StartRows(t)
         /\ \A t \in Session : EndRows(t)' = EndRows(t)
<1>1. StartRow(s, h).sid = s /\ StartRow(s, h).kind = "start"
  BY DEF StartRow
<1> QED
  BY <1>1, OneMoreRow DEF StartRows, EndRows

LEMMA MoreEndRows ==
  ASSUME TypeOK, NEW s \in Session, registry' = Append(registry, EndRow(s))
  PROVE  /\ EndRows(s)' = EndRows(s) \cup {Len(registry) + 1}
         /\ \A t \in Session \ {s} : EndRows(t)' = EndRows(t)
         /\ \A t \in Session : StartRows(t)' = StartRows(t)
<1>1. EndRow(s).sid = s /\ EndRow(s).kind = "end"
  BY DEF EndRow
<1> QED
  BY <1>1, OneMoreRow DEF StartRows, EndRows

-----------------------------------------------------------------------------
(* Types.                                                                    *)
LEMMA LineTypes ==
  /\ Other \in Lines
  /\ \A s \in Session : End(s) \in Lines
  /\ \A s \in Session, by \in {"hook", "tailer"} : Start(s, by) \in Lines
  BY DEF Lines, Other, End, Start

LEMMA BeginTypes ==
  ASSUME TypeOK, LogShape, NEW p \in Writer, NEW e \in Lines, Begin(p, e)
  PROVE  LogTypeOK' /\ LogShape'
<1>1. LogTypeOK'
  BY DEF Begin, TypeOK, LogTypeOK, Steps
<1>2. \A q \in Writer : q # p => op'[q] = op[q]
  BY DEF Begin, TypeOK, LogTypeOK
<1>3. op'[p].event = e /\ op'[p].at # "append"
  BY DEF Begin, TypeOK, LogTypeOK
<1> QED
  BY <1>1, <1>2, <1>3 DEF Begin, LogShape, Free, CurrentLines

LEMMA SettleTypes ==
  ASSUME TypeOK, LogShape, NEW p \in Writer, Settle(p)
  PROVE  LogTypeOK' /\ LogShape'
<1>1. LogTypeOK'
  BY DEF Settle, Idle, TypeOK, LogTypeOK, Steps
<1>2. \A q \in Writer : q # p => op'[q] = op[q]
  BY DEF Settle, TypeOK, LogTypeOK
<1>3. op'[p].at = "idle"
  BY DEF Settle, Idle, TypeOK, LogTypeOK
<1> QED
  BY <1>1, <1>2, <1>3 DEF Settle, LogShape, Free, CurrentLines

LEMMA LogSame ==
  ASSUME TypeOK, LogShape, UNCHANGED logVars
  PROVE  LogTypeOK' /\ LogShape'
  BY DEF TypeOK, LogTypeOK, LogShape, logVars, Free, CurrentLines

LEMMA RenameTypes ==
  ASSUME TypeOK, LogShape, NEW p \in Writer, Rename(p)
  PROVE  LogTypeOK' /\ LogShape'
<1>1. Front(segments) \in Seq(Nat)
  BY DEF Front, TypeOK, LogTypeOK
<1>2. segments' \in Seq(Nat) /\ segments' # <<>>
  BY <1>1 DEF Rename, TypeOK, LogTypeOK
<1>3. LogTypeOK'
  BY <1>2 DEF Rename, TypeOK, LogTypeOK, Steps
<1>4. /\ \A q \in Writer : q # p => op'[q] = op[q]
      /\ op'[p].at = "open" /\ op'[p].event = op[p].event /\ ~Free(p)
  BY DEF Rename, TypeOK, LogTypeOK, Free
<1> QED
  BY <1>2, <1>3, <1>4, LogAssumption DEF Rename, LogShape, Free, CurrentLines

LEMMA OpenTypes ==
  ASSUME TypeOK, LogShape, NEW p \in Writer, Open(p)
  PROVE  LogTypeOK' /\ LogShape'
<1>1. /\ file' \in Seq(Seq(Lines)) /\ current' = Len(file')
      /\ Len(file') \in Nat \ {0} /\ Len(file) \in Nat /\ Len(file) <= Len(file')
  <2>1. CASE current = 0
    <3>1. <<>> \in Seq(Lines) /\ file \in Seq(Seq(Lines))
      BY DEF TypeOK, LogTypeOK
    <3>2. file' = Append(file, <<>>) /\ current' = Len(file) + 1
      BY <2>1 DEF Open
    <3> QED
      BY <3>1, <3>2
  <2>2. CASE current # 0
    BY <2>2 DEF Open, TypeOK, LogTypeOK, LogShape
  <2> QED
    BY <2>1, <2>2
<1>2. op' \in [Writer -> [at : Steps, to : Nat, event : Lines \cup {<<>>}]]
  <2>1. [op[p] EXCEPT !.at = "append", !.to = current']
          \in [at : Steps, to : Nat, event : Lines \cup {<<>>}]
    <3>1. op[p] \in [at : Steps, to : Nat, event : Lines \cup {<<>>}]
      BY DEF TypeOK, LogTypeOK
    <3>2. current' \in Nat /\ "append" \in Steps
      BY <1>1 DEF Steps
    <3> QED
      BY <3>1, <3>2
  <2> QED
    BY <2>1 DEF Open, TypeOK, LogTypeOK
<1>3. /\ \A q \in Writer : q # p => op'[q] = op[q]
      /\ op'[p].at = "append" /\ op'[p].to = current'
      /\ op'[p].event = op[p].event /\ ~Free(p)
  BY DEF Open, TypeOK, LogTypeOK, Free
<1>4. sameSecond' => segments' # <<>> /\ Len(CurrentLines') < Threshold
  <2>1. CASE current = 0
    <3>1. CurrentLines' = <<>>
      BY <1>1, <2>1 DEF Open, CurrentLines, TypeOK, LogTypeOK
    <3> QED
      BY <3>1, LogAssumption DEF Open, LogShape
  <2>2. CASE current # 0
    BY <2>2 DEF Open, LogShape, CurrentLines
  <2> QED
    BY <2>1, <2>2
<1>5. LogTypeOK'
  BY <1>1, <1>2 DEF Open, TypeOK, LogTypeOK
<1>6. /\ \A q \in Writer : op'[q].at = "append" => op'[q].to \in 1..Len(file')
      /\ \A q \in Writer : op'[q].at \notin {"idle", "failed"} => op'[q].event \in Lines
  <2>1. current' \in 1..Len(file')
    BY <1>1
  <2>2. \A q \in Writer : op[q].at = "append" => op[q].to \in 1..Len(file')
    BY <1>1 DEF LogShape
  <2> QED
    BY <1>3, <2>1, <2>2 DEF LogShape, Free
<1> QED
  BY <1>1, <1>4, <1>5, <1>6 DEF LogShape, Free

LEMMA WriteTypes ==
  ASSUME TypeOK, LogShape, NEW p \in Writer, WriteLine(p)
  PROVE  LogTypeOK' /\ LogShape'
<1>1. op[p].to \in 1..Len(file) /\ op[p].event \in Lines
  BY DEF LogShape, WriteLine, Free
<1>2. file' \in Seq(Seq(Lines)) /\ Len(file') = Len(file)
  BY <1>1 DEF WriteLine, TypeOK, LogTypeOK
<1>3. LogTypeOK'
  BY <1>2 DEF WriteLine, TypeOK, LogTypeOK, Steps, Idle
<1>4. /\ \A q \in Writer : q # p => op'[q] = op[q]
      /\ op'[p].at = "idle"
  BY DEF WriteLine, TypeOK, LogTypeOK, Idle
<1>5. sameSecond' => segments' # <<>> /\ Len(CurrentLines') < Threshold
  <2>1. CASE op[p].to = current
    <3>1. CurrentLines' = Append(CurrentLines, op[p].event) /\ CurrentLines \in Seq(Lines)
      BY <1>1, <2>1 DEF WriteLine, CurrentLines, TypeOK, LogTypeOK
    <3>2. Len(CurrentLines') = Len(CurrentLines) + 1 /\ Len(CurrentLines) \in Nat
      BY <3>1, <1>1
    <3>3. CurrentLines = file[op[p].to]
      BY <1>1, <2>1 DEF CurrentLines, TypeOK, LogTypeOK
    <3> QED
      BY <3>2, <3>3, LogAssumption DEF WriteLine, LogShape
  <2>2. CASE op[p].to # current
    <3>1. CurrentLines' = CurrentLines
      BY <1>1, <2>2 DEF WriteLine, CurrentLines, TypeOK, LogTypeOK
    <3> QED
      BY <3>1 DEF WriteLine, LogShape
  <2> QED
    BY <2>1, <2>2
<1> QED
  BY <1>2, <1>3, <1>4, <1>5 DEF LogShape, Free, WriteLine

LEMMA RaiseTypes ==
  ASSUME TypeOK, LogShape, NEW p \in Writer, Raise(p)
  PROVE  LogTypeOK' /\ LogShape'
<1>1. LogTypeOK'
  BY DEF Raise, Idle, TypeOK, LogTypeOK, Steps
<1>2. /\ \A q \in Writer : q # p => op'[q] = op[q]
      /\ op'[p].at = "failed"
  BY DEF Raise, TypeOK, LogTypeOK, Idle
<1> QED
  BY <1>1, <1>2 DEF Raise, LogShape, Free, CurrentLines

(* What bootstrap reads of a session.                                         *)
LEMMA RebuiltIs ==
  ASSUME TypeOK, RegistryShape, NEW s \in Session
  PROVE  /\ Rebuilt(s) \in Rows \cup {None}
         /\ Rebuilt(s) = None <=> StartRows(s) = {} /\ EndRows(s) = {}
         /\ Rebuilt(s) # None => (Rebuilt(s).ended <=> EndRows(s) # {})
         /\ \A i \in StartRows(s) : Rebuilt(s).hook = registry[i].hook
         /\ StartRows(s) = {} /\ EndRows(s) # {} => ~Rebuilt(s).hook
<1>0. \A h, e \in BOOLEAN : /\ FromDisk(h, e) \in Rows
                            /\ FromDisk(h, e).hook = h /\ FromDisk(h, e).ended = e
  BY TailerAssumption DEF FromDisk, Rows, Ages
<1>1. CASE StartRows(s) = {} /\ EndRows(s) = {}
  BY <1>1, Rowless DEF Rebuilt
<1>2. CASE StartRows(s) = {} /\ EndRows(s) # {}
  <2>1. Rebuilt(s) = FromDisk(FALSE, TRUE)
    BY <1>2 DEF Rebuilt
  <2> QED
    BY <1>0, <1>2, <2>1, Rowless
<1>3. ASSUME NEW i \in StartRows(s)
      PROVE  /\ Rebuilt(s) \in Rows /\ Rebuilt(s).hook = registry[i].hook
             /\ Rebuilt(s).ended <=> EndRows(s) # {}
  <2>1. i \in DOMAIN registry /\ DOMAIN registry \subseteq Nat /\ registry[i].hook \in BOOLEAN
    <3>1. i \in DOMAIN registry
      BY <1>3 DEF StartRows
    <3>2. registry \in Seq(DiskRows)
      BY DEF TypeOK, TailerTypeOK
    <3>3. registry[i] \in DiskRows
      BY <3>1, <3>2
    <3> QED
      BY <3>1, <3>2, <3>3 DEF DiskRows
  <2>2. \A j \in StartRows(s) : j = i
    BY <1>3 DEF RegistryShape
  <2>3. LastStart(s) = i
    BY <1>3, <2>1, <2>2 DEF LastStart
  <2>4. \A j \in EndRows(s) : j > i
    BY <1>3, <2>1 DEF RegistryShape, EndRows
  <2>5. (\E j \in EndRows(s) : j > i) <=> EndRows(s) # {}
    BY <2>4
  <2>6. Rebuilt(s) = FromDisk(registry[i].hook, \E j \in EndRows(s) : j > i)
    BY <1>3, <2>3 DEF Rebuilt
  <2> QED
    BY <1>0, <2>1, <2>5, <2>6
<1> QED
  BY <1>1, <1>2, <1>3, Rowless

-----------------------------------------------------------------------------
(* Where the tailer can be after a step.                                      *)
Ticks == [at : Places, todo : SUBSET Session, sid : Session \cup {None},
          size : 0..MaxSize, age : Ages]

LEMMA TickTypes ==
  ASSUME TypeOK
  PROVE  /\ tick \in Ticks /\ Sleeping \in Ticks /\ Down \in Ticks /\ Over \in Ticks
         /\ \A t \in Ticks, a \in Places : [t EXCEPT !.at = a] \in Ticks
         /\ \A a \in Places : Goto(a) => tick' \in Ticks /\ tick'.at = a
         /\ Aborted => tick' \in Ticks /\ tick'.at \in {"sleep", "over"}
         /\ \A t \in Ticks : Caught(t) => tick' \in Ticks /\ tick'.at \in {"scan", "sleep", "over"}
<1>1. tick \in Ticks
  BY DEF TypeOK, TailerTypeOK, Ticks
<1>2. \A t \in Ticks, a \in Places : [t EXCEPT !.at = a] \in Ticks /\ [t EXCEPT !.at = a].at = a
  BY DEF Ticks
<1>3. Sleeping \in Ticks /\ Sleeping.at = "sleep"
  BY TailerAssumption DEF Sleeping, Ticks, Places, Ages
<1>4. "scan" \in Places /\ "down" \in Places /\ "over" \in Places
  BY DEF Places
<1>5. Down \in Ticks /\ Over \in Ticks /\ Over.at = "over"
  BY <1>2, <1>3, <1>4 DEF Down, Over
<1>6. Aborted => tick' \in Ticks /\ tick'.at \in {"sleep", "over"}
  BY <1>3, <1>5 DEF Aborted
<1>7. ASSUME NEW a \in Places, Goto(a) PROVE tick' \in Ticks /\ tick'.at = a
  BY <1>1, <1>2, <1>7 DEF Goto
<1>8. ASSUME NEW t \in Ticks, Caught(t)
      PROVE  tick' \in Ticks /\ tick'.at \in {"scan", "sleep", "over"}
  BY <1>2, <1>4, <1>6, <1>8 DEF Caught
<1> QED
  BY <1>1, <1>2, <1>3, <1>5, <1>6, <1>7, <1>8

LEMMA DiskTypes ==
  ASSUME TypeOK, NEW s \in Session, NEW r \in DiskRows, Appended(r) \/ AppendFails(s)
  PROVE  registry' \in Seq(DiskRows) /\ unsaved' \subseteq Session
<1>1. registry \in Seq(DiskRows) /\ unsaved \subseteq Session
  BY DEF TypeOK, TailerTypeOK
<1> QED
  BY <1>1 DEF Appended, AppendFails

LEMMA DiskRowTypes ==
  ASSUME NEW s \in Session
  PROVE  EndRow(s) \in DiskRows /\ \A h \in BOOLEAN : StartRow(s, h) \in DiskRows
  BY DEF EndRow, StartRow, DiskRows

LEMMA TodoTypes ==
  ASSUME TypeOK, NEW s \in Session
  PROVE  [tick EXCEPT !.todo = @ \ {s}] \in Ticks
  BY DEF TypeOK, TailerTypeOK, Ticks

LEMMA RowTypes ==
  ASSUME TypeOK, NEW s \in Session
  PROVE  /\ rows[s] # None => rows[s] \in Rows /\ Updated(s) \in Rows
         /\ \A h \in BOOLEAN : NewRow(h) \in Rows
         /\ \A a \in Ages : Older(a) \in Ages
<1>1. transcript[s].size \in 0..MaxSize /\ transcript[s].age \in Ages
  BY DEF TypeOK, TailerTypeOK
<1>2. ASSUME rows[s] # None PROVE rows[s] \in Rows
  BY <1>2 DEF TypeOK, TailerTypeOK
<1>3. ASSUME rows[s] # None PROVE Updated(s) \in Rows
  <2>1. rows[s] \in Rows /\ StableTicks \in Nat
    BY <1>2, <1>3, TailerAssumption
  <2>2. rows[s].stable \in 0..StableTicks
    BY <2>1 DEF Rows
  <2>3. CASE ~IsOpen(s)
    BY <2>1, <2>3 DEF Updated
  <2>4. CASE IsOpen(s) /\ (transcript[s].size > rows[s].seen \/ transcript[s].age < rows[s].age)
    <3>1. Updated(s) = [rows[s] EXCEPT !.seen = transcript[s].size, !.age = transcript[s].age, !.stable = 0]
      BY <2>4 DEF Updated
    <3>2. 0 \in 0..StableTicks
      BY <2>1
    <3> QED
      BY <1>1, <2>1, <3>1, <3>2 DEF Rows
  <2>5. CASE IsOpen(s) /\ ~(transcript[s].size > rows[s].seen \/ transcript[s].age < rows[s].age)
    <3>1. Updated(s) = [rows[s] EXCEPT !.stable = IF @ = StableTicks THEN @ ELSE @ + 1]
      BY <2>5 DEF Updated
    <3>2. rows[s].stable # StableTicks => rows[s].stable + 1 \in 0..StableTicks
      BY <2>1, <2>2
    <3> QED
      BY <2>1, <3>1, <3>2 DEF Rows
  <2> QED
    BY <2>3, <2>4, <2>5
<1>4. \A h \in BOOLEAN : NewRow(h) \in Rows
  BY TailerAssumption DEF NewRow, Rows, TypeOK, TailerTypeOK
<1>5. \A a \in Ages : Older(a) \in Ages
  BY DEF Ages, Older, Fresh, IdleAge, OldAge
<1> QED
  BY <1>2, <1>3, <1>4, <1>5

(* Every step keeps the types and the shape of the log.                       *)
LEMMA LogKeepsTypes ==
  ASSUME TypeOK, LogShape, NEW p \in Writer, LogStep(p)
  PROVE  LogTypeOK' /\ LogShape'
  BY RenameTypes, OpenTypes, WriteTypes, RaiseTypes DEF LogStep

LEMMA StepKeepsTypes ==
  ASSUME TypeOK, LogShape, RegistryShape, [Next]_vars
  PROVE  TypeOK' /\ LogShape'
<1> USE DEF TypeOK, TailerTypeOK
<1> DEFINE Goal == TypeOK' /\ LogShape'
<1>0. Api \in Writer /\ Sleeping.at \in Places
  BY TailerAssumption DEF Places, Sleeping
<1>1. CASE \E s \in Session : AgentWrites(s)
  <2>1. PICK s \in Session : AgentWrites(s)
    BY <1>1
  <2>2. \A z \in 0..MaxSize : z < MaxSize => z + 1 \in 0..MaxSize
    BY TailerAssumption
  <2>3. transcript' \in [Session -> [size : 0..MaxSize, age : Ages, final : BOOLEAN]]
    BY <2>1, <2>2 DEF AgentWrites, Ages
  <2> QED
    BY <2>1, <2>3, LogSame DEF AgentWrites
<1>2. CASE \E s \in Session : Cleared(s)
  <2>1. PICK s \in Session : Cleared(s)
    BY <1>2
  <2>2. transcript' \in [Session -> [size : 0..MaxSize, age : Ages, final : BOOLEAN]]
    <3>1. transcript[s] \in [size : 0..MaxSize, age : Ages, final : BOOLEAN] /\ 0 \in 0..MaxSize
      BY TailerAssumption
    <3> QED
      BY <2>1, <3>1 DEF Cleared
  <2> QED
    BY <2>1, <2>2, LogSame DEF Cleared
<1>3. CASE \E s \in Session : IngestStart(s)
  BY <1>0, <1>3, BeginTypes, LineTypes DEF IngestStart, tailerVars
<1>4. CASE \E p \in Writer : LogOther(p)
  BY <1>4, BeginTypes, LineTypes, TailerAssumption DEF LogOther, tailerVars
<1>5. CASE \E p \in Writer : Log(p)
  BY <1>5, LogKeepsTypes DEF Log, tailerVars
<1>6. CASE TimePasses
  <2>1. transcript' \in [Session -> [size : 0..MaxSize, age : Ages, final : BOOLEAN]]
    BY <1>6, RowTypes DEF TimePasses
  <2>2. rows' \in [Session -> Rows \cup {None}]
    BY <1>6, RowTypes DEF TimePasses, Rows
  <2> QED
    BY <1>6, <2>1, <2>2, LogSame DEF TimePasses
<1>7. CASE Clock
  BY <1>7 DEF Clock, SecondPasses, tailerVars, LogTypeOK, LogShape, Free, CurrentLines
<1>8. CASE Kill
  <2>1. LogTypeOK'
    BY <1>8 DEF Kill, LogTypeOK, Idle, Steps
  <2>2. LogShape'
    <3>1. \A q \in Writer : op'[q] = op[q] \/ op'[q] = Idle
      BY <1>8 DEF Kill, LogTypeOK
    <3> QED
      BY <1>8, <3>1 DEF Kill, LogShape, Free, Idle, CurrentLines
  <2>3. TailerTypeOK'
    BY <1>8, TailerAssumption DEF Kill, Down, Sleeping, Places, Ages
  <2> QED
    BY <2>1, <2>2, <2>3
<1>9. CASE Tailer
  <2>0. TailerTypeOK' <=>
          /\ transcript' \in [Session -> [size : 0..MaxSize, age : Ages, final : BOOLEAN]]
          /\ rows' \in [Session -> Rows \cup {None}] /\ marked' \subseteq Session
          /\ registry' \in Seq(DiskRows) /\ unsaved' \subseteq Session /\ tick' \in Ticks
          /\ posted' \subseteq Session /\ others' \in 0..MaxOther /\ kills' \in 0..MaxKills
    BY DEF Ticks
  <2>1. CASE BeginTick \/ AttributionFails \/ Ended \/ BeginSweep \/ TimedOut \/ EndTick
    <3>1. "scan" \in Places /\ "sweep" \in Places
      BY DEF Places
    <3>2. tick' \in Ticks
      <4>1. CASE BeginTick
        <5>1. {s \in Session : Present(s)} \in SUBSET Session
          OBVIOUS
        <5> QED
          BY <3>1, <4>1, <5>1, TickTypes DEF BeginTick, Ticks
      <4>2. CASE AttributionFails \/ Ended \/ BeginSweep \/ TimedOut \/ EndTick
        BY <3>1, <4>2, TickTypes DEF AttributionFails, Ended, BeginSweep, TimedOut, EndTick
      <4> QED
        BY <2>1, <4>1, <4>2
    <3> QED
      BY <2>0, <2>1, <3>2, LogSame DEF BeginTick, AttributionFails, Ended, BeginSweep,
         TimedOut, EndTick
  <2>3. ASSUME NEW s \in Session, HandleFile(s) PROVE Goal
    <3>0. /\ "scan" \in Places /\ "ending" \in Places /\ "starting" \in Places
          /\ "timing_out" \in Places /\ "attribute" \in Places
      BY DEF Places
    <3>1. CASE SkipFile(s) \/ StartedOpen(s)
      <4>1. tick' \in Ticks
        BY <3>0, <3>1, TickTypes, TodoTypes DEF SkipFile, StartedOpen
      <4> QED
        BY <2>0, <3>1, <4>1, LogSame DEF SkipFile, StartedOpen
    <3>2. CASE UpdateActivity(s)
      <4>1. tick' \in Ticks
        BY <3>2, TodoTypes DEF UpdateActivity
      <4> QED
        BY <2>0, <3>2, <4>1, LogSame, RowTypes DEF UpdateActivity
    <3>3. CASE BeginAttribution(s)
      BY <3>3, LogSame DEF BeginAttribution, Places
    <3>4. CASE CodexEnds(s)
      <4> DEFINE t == [tick EXCEPT !.todo = @ \ {s}]
      <4>1. rows[s] # None /\ Updated(s) \in Rows
        BY <3>4, RowTypes DEF CodexEnds, Finished, IsOpen
      <4>2. rows' \in [Session -> Rows \cup {None}]
        BY <3>4, <4>1 DEF CodexEnds, Rows
      <4>3. \/ /\ Appended(EndRow(s)) /\ Begin(Api, End(s))
               /\ tick' = [t EXCEPT !.at = "ending"]
            \/ AppendFails(s) /\ UNCHANGED logVars /\ Caught(t)
        BY <3>4 DEF CodexEnds
      <4>4. LogTypeOK' /\ LogShape'
        BY <1>0, <4>3, BeginTypes, LogSame, LineTypes
      <4>5. tick' \in Ticks
        <5> HIDE DEF t
        <5>1. t \in Ticks
          BY TodoTypes DEF t
        <5> QED
          BY <3>0, <4>3, <5>1, TickTypes
      <4>6. registry' \in Seq(DiskRows) /\ unsaved' \subseteq Session
        BY <4>3, DiskTypes, DiskRowTypes
      <4> QED
        BY <2>0, <3>4, <4>2, <4>4, <4>5, <4>6 DEF CodexEnds
    <3>5. CASE RegisterOnly(s)
      <4>1. rows' \in [Session -> Rows \cup {None}]
        BY <3>5, RowTypes DEF RegisterOnly
      <4>2. registry' \in Seq(DiskRows) /\ unsaved' \subseteq Session
        BY <3>5, DiskTypes, DiskRowTypes DEF RegisterOnly
      <4>3. tick' \in Ticks
        BY <3>0, <3>5, TickTypes DEF RegisterOnly
      <4> QED
        BY <2>0, <3>5, <4>1, <4>2, <4>3, LogSame DEF RegisterOnly
    <3>6. CASE EmitSessionStart(s)
      <4>1. AlreadyStarted(s) \in BOOLEAN
        BY DEF AlreadyStarted
      <4>2. rows' \in [Session -> Rows \cup {None}]
        BY <3>6, <4>1, RowTypes DEF EmitSessionStart
      <4>3. registry' \in Seq(DiskRows) /\ unsaved' \subseteq Session
        BY <3>6, <4>1, DiskTypes, DiskRowTypes DEF EmitSessionStart
      <4>4. LogTypeOK' /\ LogShape'
        BY <1>0, <3>6, BeginTypes, SettleTypes, LogSame, LineTypes DEF EmitSessionStart
      <4>5. tick' \in Ticks
        BY <3>0, <3>6, TickTypes DEF EmitSessionStart
      <4> QED
        BY <2>0, <3>6, <4>2, <4>3, <4>4, <4>5 DEF EmitSessionStart
    <3>7. CASE Started(s) \/ IdleTimeout(s)
      <4>1. rows[s] \in Rows /\ (EmitSessionEnd(s) \/ EndUnsaved(s))
        BY <3>7, RowTypes DEF Started, IdleTimeout, Finished, Due, IsOpen
      <4>2. rows' \in [Session -> Rows \cup {None}]
        BY <4>1 DEF EmitSessionEnd, EndUnsaved, Rows
      <4>3. registry' \in Seq(DiskRows) /\ unsaved' \subseteq Session
        BY <4>1, DiskTypes, DiskRowTypes DEF EmitSessionEnd, EndUnsaved
      <4>4. LogTypeOK' /\ LogShape'
        BY <1>0, <4>1, BeginTypes, LogSame, LineTypes DEF EmitSessionEnd, EndUnsaved
      <4>5. tick' \in Ticks
        BY <3>0, <3>7, TickTypes DEF Started, IdleTimeout
      <4> QED
        BY <2>0, <3>7, <4>2, <4>3, <4>4, <4>5 DEF Started, IdleTimeout
    <3> QED
      BY <2>3, <3>1, <3>2, <3>3, <3>4, <3>5, <3>6, <3>7 DEF HandleFile
  <2> QED
    BY <1>9, <2>1, <2>3 DEF Tailer
<1>11. CASE Bootstrap
  BY <1>11, LogSame, RebuiltIs, TailerAssumption DEF Bootstrap, Sleeping, Places, Ages
<1>10. CASE UNCHANGED vars
  BY <1>10, LogSame DEF vars, tailerVars
<1> QED
  BY <1>1, <1>2, <1>3, <1>4, <1>5, <1>6, <1>7, <1>8, <1>9, <1>10, <1>11 DEF Next

-----------------------------------------------------------------------------
(* The registry on disk and in memory.                                       *)
OnDisk == RegistryShape /\ RegistryCurrent /\ Attributing

(* Steps that write no row and change nothing of one that is kept on disk.    *)
SameRows ==
  /\ registry' = registry /\ unsaved' = unsaved
  /\ \A s \in Session : /\ rows'[s] = None <=> rows[s] = None
                        /\ rows[s] # None => rows'[s].hook = rows[s].hook
                                             /\ rows'[s].ended = rows[s].ended
  /\ tick'.at # "down" => tick.at # "down"
  /\ tick'.at = "attribute" =>
       \/ tick'.sid = tick.sid /\ tick.at = "attribute"
       \/ tick'.sid \in Session /\ rows[tick'.sid] = None

LEMMA SameRowsKeep ==
  ASSUME TypeOK, OnDisk, SameRows
  PROVE  OnDisk'
  BY DEF OnDisk, SameRows, RegistryShape, RegistryCurrent, Attributing, StartRows, EndRows

LEMMA StartRowKeeps ==
  ASSUME TypeOK, OnDisk, NEW s \in Session, NEW h \in BOOLEAN, rows[s] = None,
         tick.at # "down", Appended(StartRow(s, h)),
         rows' = [rows EXCEPT ![s] = NewRow(h)], tick'.at \in {"scan", "starting"}
  PROVE  OnDisk'
<1>1. StartRows(s) = {} /\ EndRows(s) = {}
  BY DEF OnDisk, RegistryCurrent, RegistryShape
<1>2. /\ StartRows(s)' = {Len(registry) + 1} /\ EndRows(s)' = {}
      /\ \A t \in Session \ {s} : StartRows(t)' = StartRows(t) /\ EndRows(t)' = EndRows(t)
  BY <1>1, MoreStartRows DEF Appended
<1>3. /\ registry'[Len(registry) + 1].hook = h
      /\ \A i \in DOMAIN registry : registry'[i] = registry[i]
  BY OneMoreRow DEF StartRow, Appended
<1>4. rows'[s] # None /\ rows'[s].hook = h /\ rows'[s].ended = FALSE
  BY RowTypes, Rowless DEF NewRow, TypeOK, TailerTypeOK
<1>5. \A t \in Session \ {s} : rows'[t] = rows[t]
  BY DEF TypeOK, TailerTypeOK
<1>6. RegistryShape'
  BY <1>2 DEF OnDisk, RegistryShape
<1>7. RegistryCurrent'
  <2>1. ASSUME NEW t \in Session \ {s}
        PROVE  \A i \in StartRows(t) : i \in DOMAIN registry
    BY DEF StartRows
  <2> QED
    BY <1>2, <1>3, <1>4, <1>5, <2>1 DEF OnDisk, RegistryCurrent, Appended
<1> QED
  BY <1>6, <1>7 DEF OnDisk, Attributing

LEMMA EndRowKeeps ==
  ASSUME TypeOK, OnDisk, NEW s \in Session, IsOpen(s), tick.at # "down",
         Appended(EndRow(s)),
         \A t \in Session \ {s} : rows'[t] = rows[t],
         rows'[s] # None, rows'[s].hook = rows[s].hook, rows'[s].ended = TRUE,
         tick'.at \in {"ending", "timing_out"}
  PROVE  OnDisk'
<1>1. s \notin unsaved => StartRows(s) # {}
  BY DEF OnDisk, RegistryCurrent, IsOpen
<1>2. /\ EndRows(s)' = EndRows(s) \cup {Len(registry) + 1}
      /\ \A t \in Session \ {s} : EndRows(t)' = EndRows(t)
      /\ \A t \in Session : StartRows(t)' = StartRows(t)
  BY MoreEndRows DEF Appended
<1>3. \A i \in DOMAIN registry : registry'[i] = registry[i] /\ i < Len(registry) + 1
  BY OneMoreRow DEF EndRow, Appended
<1>4. \A t \in Session : \A i \in StartRows(t) : i \in DOMAIN registry
  BY DEF StartRows
<1>5. RegistryShape'
  BY <1>2, <1>3, <1>4 DEF OnDisk, RegistryShape
<1>6. RegistryCurrent'
  BY <1>1, <1>2, <1>3, <1>4 DEF OnDisk, RegistryCurrent, IsOpen, Appended
<1> QED
  BY <1>5, <1>6 DEF OnDisk, Attributing

(* A row that could not be written: memory runs ahead of the disk.            *)
LEMMA UnsavedKeeps ==
  ASSUME TypeOK, OnDisk, NEW s \in Session, tick.at # "down", AppendFails(s),
         \A t \in Session \ {s} : rows'[t] = rows[t], rows'[s] # None,
         rows[s] # None => rows'[s].hook = rows[s].hook /\ rows'[s].ended = TRUE,
         tick'.at \in {"scan", "sleep", "over"}
  PROVE  OnDisk'
<1>1. \A t \in Session : StartRows(t)' = StartRows(t) /\ EndRows(t)' = EndRows(t)
  BY DEF AppendFails, StartRows, EndRows
<1>2. RegistryShape'
  BY <1>1 DEF OnDisk, RegistryShape
<1>3. RegistryCurrent'
  BY <1>1 DEF OnDisk, RegistryCurrent, AppendFails
<1> QED
  BY <1>2, <1>3 DEF OnDisk, Attributing

LEMMA StepKeepsOnDisk ==
  ASSUME TypeOK, OnDisk, [Next]_vars
  PROVE  OnDisk'
<1> USE DEF TypeOK, TailerTypeOK
<1>1. CASE \E s \in Session : AgentWrites(s) \/ Cleared(s) \/ IngestStart(s)
  BY <1>1, SameRowsKeep DEF AgentWrites, Cleared, IngestStart, tailerVars, SameRows, OnDisk, Attributing
<1>2. CASE \E p \in Writer : LogOther(p) \/ Log(p)
  BY <1>2, SameRowsKeep DEF LogOther, Log, tailerVars, SameRows, OnDisk, Attributing
<1>3. CASE TimePasses
  <2>1. ASSUME NEW s \in Session
        PROVE  /\ rows'[s] = None <=> rows[s] = None
               /\ rows[s] # None => rows'[s].hook = rows[s].hook /\ rows'[s].ended = rows[s].ended
    <3>1. CASE rows[s] = None
      BY <1>3, <3>1 DEF TimePasses
    <3>2. CASE rows[s] # None
      <4>1. rows'[s] = [rows[s] EXCEPT !.age = Older(@)] /\ rows[s] \in Rows
        BY <1>3, <3>2, RowTypes DEF TimePasses
      <4>2. rows[s].age \in Ages /\ Older(rows[s].age) \in Ages
        BY <4>1, RowTypes DEF Rows
      <4>3. rows'[s] \in Rows
        BY <4>1, <4>2 DEF Rows
      <4> QED
        BY <3>2, <4>1, <4>3, Rowless DEF Rows
    <3> QED
      BY <3>1, <3>2
  <2> QED
    BY <1>3, <2>1, SameRowsKeep DEF TimePasses, SameRows
<1>4. CASE Clock \/ UNCHANGED vars
  BY <1>4, SameRowsKeep DEF Clock, vars, tailerVars, SameRows, OnDisk, Attributing
<1>5. CASE Kill
  BY <1>5 DEF Kill, Down, Sleeping, OnDisk, RegistryShape, RegistryCurrent, Attributing,
     StartRows, EndRows
<1>6. CASE Tailer
  <2>1. CASE BeginTick \/ AttributionFails \/ Ended \/ BeginSweep \/ TimedOut \/ EndTick
    <3>1. registry' = registry /\ unsaved' = unsaved /\ rows' = rows /\ tick.at # "down"
      BY <2>1 DEF BeginTick, AttributionFails, Ended, BeginSweep, TimedOut, EndTick, Ready
    <3>2. tick'.at \in {"sleep", "scan", "sweep", "over"}
      <4>1. CASE BeginTick \/ EndTick
        <5>1. Sleeping \in Ticks /\ Sleeping.at = "sleep"
          BY TickTypes DEF Sleeping
        <5>2. \A t \in Ticks, z \in SUBSET Session :
                [t EXCEPT !.at = "scan", !.todo = z].at = "scan"
          BY DEF Ticks
        <5>3. BeginTick => tick'.at = "scan"
          BY <5>1, <5>2 DEF BeginTick
        <5> QED
          BY <4>1, <5>1, <5>3 DEF EndTick
      <4>2. CASE AttributionFails \/ Ended \/ BeginSweep \/ TimedOut
        <5>1. "scan" \in Places /\ "sweep" \in Places
          BY DEF Places
        <5>2. CASE Goto("scan") \/ Goto("sweep")
          BY <5>1, <5>2, TickTypes
        <5>3. CASE Caught(tick) \/ Aborted
          BY <5>3, TickTypes
        <5> QED
          BY <4>2, <5>2, <5>3 DEF AttributionFails, Ended, BeginSweep, TimedOut
      <4> QED
        BY <2>1, <4>1, <4>2
    <3> QED
      BY <3>1, <3>2, SameRowsKeep DEF SameRows
  <2>3. ASSUME NEW s \in Session, HandleFile(s) PROVE OnDisk'
    <3>1. CASE SkipFile(s) \/ StartedOpen(s)
      <4>1. tick'.at \in {"sleep", "scan", "over"} /\ tick.at # "down"
        <5>1. "scan" \in Places /\ (SkipFile(s) => tick'.at = tick.at)
          BY DEF Places, SkipFile
        <5> QED
          BY <3>1, <5>1, TickTypes DEF SkipFile, NextFile, StartedOpen, Ready
      <4> QED
        BY <3>1, <4>1, SameRowsKeep DEF SkipFile, StartedOpen, SameRows
    <3>2. CASE UpdateActivity(s)
      <4>1. rows[s] # None /\ rows[s] \in Rows /\ Updated(s) \in Rows
        BY <3>2, RowTypes DEF UpdateActivity
      <4>2. Updated(s).hook = rows[s].hook /\ Updated(s).ended = rows[s].ended
        BY <4>1 DEF Updated, Rows
      <4>3. rows'[s] = Updated(s) /\ \A t \in Session \ {s} : rows'[t] = rows[t]
        BY <3>2 DEF UpdateActivity
      <4>4. tick'.at = "scan" /\ tick.at = "scan"
        BY <3>2 DEF UpdateActivity, NextFile, Ready
      <4> QED
        BY <3>2, <4>1, <4>2, <4>3, <4>4, Rowless, SameRowsKeep DEF UpdateActivity, SameRows
    <3>3. CASE BeginAttribution(s)
      BY <3>3, SameRowsKeep DEF BeginAttribution, NextFile, Ready, SameRows
    <3>4. CASE CodexEnds(s)
      <4>1. IsOpen(s) /\ rows[s] \in Rows /\ Updated(s) \in Rows
        BY <3>4, RowTypes DEF CodexEnds, Finished, IsOpen
      <4>2. Updated(s).hook = rows[s].hook
        BY <4>1 DEF Updated, Rows
      <4>3. rows'[s] = [Updated(s) EXCEPT !.ended = TRUE]
            /\ \A t \in Session \ {s} : rows'[t] = rows[t]
        BY <3>4 DEF CodexEnds
      <4>4. rows'[s] \in Rows /\ rows'[s].hook = rows[s].hook /\ rows'[s].ended = TRUE
        BY <4>1, <4>2, <4>3 DEF Rows
      <4>5. tick.at # "down"
        BY <3>4 DEF CodexEnds, NextFile, Ready
      <4>6. CASE Appended(EndRow(s)) /\ tick'.at = "ending"
        BY <4>1, <4>3, <4>4, <4>5, <4>6, Rowless, EndRowKeeps
      <4>7. CASE AppendFails(s) /\ tick'.at \in {"scan", "sleep", "over"}
        BY <4>3, <4>4, <4>5, <4>7, Rowless, UnsavedKeeps
      <4>8. CASE AppendFails(s) /\ Caught([tick EXCEPT !.todo = @ \ {s}])
        BY <4>7, <4>8, TickTypes, TodoTypes
      <4> QED
        BY <3>4, <4>6, <4>8 DEF CodexEnds
    <3>5. CASE RegisterOnly(s)
      <4>1. /\ rows[s] = None /\ tick.at # "down" /\ rows' = [rows EXCEPT ![s] = NewRow(FALSE)]
            /\ NewRow(FALSE) \in Rows /\ "scan" \in Places
        BY <3>5, RowTypes DEF RegisterOnly, Ready, OnDisk, Attributing, Places
      <4>2. CASE Appended(StartRow(s, FALSE)) /\ Goto("scan")
        BY <4>1, <4>2, TickTypes, StartRowKeeps
      <4>3. CASE AppendFails(s) /\ Caught(tick)
        BY <4>1, <4>3, TickTypes, Rowless, UnsavedKeeps
      <4> QED
        BY <3>5, <4>2, <4>3 DEF RegisterOnly
    <3>6. CASE EmitSessionStart(s)
      <4>1. /\ rows[s] = None /\ tick.at # "down"
            /\ rows' = [rows EXCEPT ![s] = NewRow(AlreadyStarted(s))]
            /\ AlreadyStarted(s) \in BOOLEAN /\ "starting" \in Places
        BY <3>6 DEF EmitSessionStart, Ready, OnDisk, Attributing, Places, AlreadyStarted
      <4>2. NewRow(AlreadyStarted(s)) \in Rows
        BY <4>1, RowTypes
      <4>3. CASE Appended(StartRow(s, AlreadyStarted(s))) /\ Goto("starting")
        BY <4>1, <4>3, TickTypes, StartRowKeeps
      <4>4. CASE AppendFails(s) /\ Caught(tick)
        BY <4>1, <4>2, <4>4, TickTypes, Rowless, UnsavedKeeps
      <4> QED
        BY <3>6, <4>3, <4>4 DEF EmitSessionStart
    <3>7. CASE Started(s) \/ IdleTimeout(s)
      <4>1. /\ IsOpen(s) /\ rows[s] \in Rows /\ tick.at # "down"
            /\ rows' = [rows EXCEPT ![s].ended = TRUE]
        BY <3>7, RowTypes DEF Started, IdleTimeout, Finished, Due, IsOpen, Ready,
           EmitSessionEnd, EndUnsaved
      <4>2. /\ rows'[s] \in Rows /\ rows'[s].hook = rows[s].hook /\ rows'[s].ended = TRUE
            /\ \A t \in Session \ {s} : rows'[t] = rows[t]
        BY <4>1 DEF Rows
      <4>3. \/ Appended(EndRow(s)) /\ (Goto("ending") \/ Goto("timing_out"))
            \/ AppendFails(s) /\ (Caught(tick) \/ Aborted)
        BY <3>7 DEF Started, IdleTimeout, EmitSessionEnd, EndUnsaved
      <4>4. CASE Appended(EndRow(s)) /\ (Goto("ending") \/ Goto("timing_out"))
        <5>1. tick'.at \in {"ending", "timing_out"}
          BY <4>4, TickTypes DEF Places
        <5> QED
          BY <4>1, <4>2, <4>4, <5>1, Rowless, EndRowKeeps
      <4>5. CASE AppendFails(s) /\ (Caught(tick) \/ Aborted)
        BY <4>1, <4>2, <4>5, TickTypes, Rowless, UnsavedKeeps
      <4> QED
        BY <4>3, <4>4, <4>5
    <3> QED
      BY <2>3, <3>1, <3>2, <3>3, <3>4, <3>5, <3>6, <3>7 DEF HandleFile
  <2> QED
    BY <1>6, <2>1, <2>3 DEF Tailer
<1>7. CASE Bootstrap
  <2>1. \A s \in Session : StartRows(s)' = StartRows(s) /\ EndRows(s)' = EndRows(s)
                           /\ rows'[s] = Rebuilt(s)
    BY <1>7 DEF Bootstrap, StartRows, EndRows
  <2>2. RegistryCurrent'
    BY <1>7, <2>1, RebuiltIs DEF Bootstrap, RegistryCurrent, OnDisk
  <2> QED
    BY <1>7, <2>1, <2>2 DEF Bootstrap, Sleeping, OnDisk, RegistryShape, Attributing
<1> QED
  BY <1>1, <1>2, <1>3, <1>4, <1>5, <1>6, <1>7 DEF Next

-----------------------------------------------------------------------------
(* The lines of the tailer in the log.                                       *)
Announced == Announcing /\ AnnouncedOnce /\ AnnouncedResolves

(* No row leaves the registry.                                               *)
Grows ==
  \A s \in Session : /\ StartRows(s) # {} => StartRows(s)' # {}
                     /\ EndRows(s) # {} => EndRows(s)' # {}

LEMMA OwnLines ==
  /\ \A l \in Lines : Own(l) => l.sid \in Session /\ l.kind \in {"start", "end"}
  /\ \A s \in Session :
       /\ Own(End(s)) /\ End(s).sid = s /\ End(s).kind = "end"
       /\ Own(Start(s, "tailer")) /\ Start(s, "tailer").sid = s
       /\ Start(s, "tailer").kind = "start" /\ ~Own(Start(s, "hook"))
  /\ ~Own(Other)
  BY DEF Lines, Own, End, Start, Other

LEMMA RowsStay ==
  ASSUME TypeOK,
         \/ registry' = registry
         \/ \E s \in Session : \E h \in BOOLEAN : registry' = Append(registry, StartRow(s, h))
         \/ \E s \in Session : registry' = Append(registry, EndRow(s))
  PROVE  Grows
<1>1. CASE registry' = registry
  BY <1>1 DEF Grows, StartRows, EndRows
<1>2. ASSUME NEW s \in Session, NEW h \in BOOLEAN, registry' = Append(registry, StartRow(s, h))
      PROVE  Grows
  BY <1>2, MoreStartRows DEF Grows
<1>3. ASSUME NEW s \in Session, registry' = Append(registry, EndRow(s)) PROVE Grows
  BY <1>3, MoreEndRows DEF Grows
<1> QED
  BY <1>1, <1>2, <1>3

LEMMA StepGrows ==
  ASSUME TypeOK, [Next]_vars
  PROVE  Grows
<1>1. ASSUME NEW s \in Session, HandleFile(s)
      PROVE  \/ registry' = registry
             \/ \E h \in BOOLEAN : registry' = Append(registry, StartRow(s, h))
             \/ registry' = Append(registry, EndRow(s))
  <2>1. AlreadyStarted(s) \in BOOLEAN
    BY DEF AlreadyStarted
  <2> QED
    BY <1>1, <2>1 DEF HandleFile, SkipFile, UpdateActivity, CodexEnds, BeginAttribution,
       RegisterOnly, EmitSessionStart, Started, StartedOpen, IdleTimeout, EmitSessionEnd,
       EndUnsaved, Appended, AppendFails
<1>2. CASE Tailer
  BY <1>1, <1>2, RowsStay DEF Tailer, BeginTick, AttributionFails, Ended, BeginSweep, TimedOut,
     EndTick
<1>3. CASE ~Tailer
  <2>1. registry' = registry
    BY <1>3 DEF Next, AgentWrites, Cleared, IngestStart, LogOther, Log, TimePasses, Clock, Kill,
       Bootstrap, vars, tailerVars
  <2> QED
    BY <2>1, RowsStay
<1> QED
  BY <1>2, <1>3

LEMMA RecordsStay ==
  ASSUME Grows
  PROVE  \A l \in Lines : Own(l) /\ Recorded(l) =>
           /\ l.kind = "start" => StartRows(l.sid)' # {}
           /\ l.kind = "end" => EndRows(l.sid)' # {}
  BY OwnLines DEF Grows, Recorded, EndedOnDisk

LEMMA FileLines ==
  ASSUME TypeOK
  PROVE  /\ DOMAIN file = 1..Len(file) /\ Len(file) \in Nat
         /\ \A i \in DOMAIN file : /\ file[i] \in Seq(Lines) /\ Len(file[i]) \in Nat
                                   /\ DOMAIN file[i] = 1..Len(file[i])
                                   /\ \A j \in DOMAIN file[i] : file[i][j] \in Lines
<1>1. file \in Seq(Seq(Lines))
  BY DEF TypeOK, LogTypeOK
<1>2. DOMAIN file = 1..Len(file) /\ Len(file) \in Nat
  BY <1>1
<1>3. ASSUME NEW i \in DOMAIN file PROVE file[i] \in Seq(Lines)
  BY <1>1, <1>3
<1> QED
  BY <1>2, <1>3

(* A step that writes no line: each call of log_event is over, or is not the  *)
(* tailer's, or goes on with its line, or begins with one that is recorded    *)
(* and is new.                                                               *)
GoesOn(p) ==
  \/ op'[p].at \in {"idle", "failed"}
  \/ ~Own(op'[p].event)
  \/ /\ ~Free(p) /\ op'[p].event = op[p].event
     /\ op'[p].at = "append" => op[p].at = "append" /\ op'[p].to = op[p].to
NewCall(p) ==
  /\ p = Api /\ op'[p].at # "append" /\ op'[p].event \in Lines
  /\ Recorded(op[p].event)'
  /\ \A i \in DOMAIN file : \A j \in DOMAIN file[i] :
       /\ Own(file[i][j]) => op'[p].event # file[i][j]
       /\ Own(file[i][j]) /\ file[i][j].sid = op'[p].event.sid => file[i][j].kind = "start"

LEMMA NoNewLine ==
  ASSUME TypeOK, LogShape, Announced, Grows, file' = file,
         \A p \in Writer : GoesOn(p) \/ NewCall(p)
  PROVE  Announced'
<1>1. AnnouncedOnce'
  BY DEF Announced, AnnouncedOnce
<1>2. AnnouncedResolves'
  BY FileLines, RecordsStay DEF Announced, AnnouncedResolves, Recorded, EndedOnDisk
<1>3. Announcing'
  <2> SUFFICES ASSUME NEW p \in Writer, op'[p].at \notin {"idle", "failed"}, Own(op'[p].event)
      PROVE  /\ p = Api /\ Recorded(op[p].event)'
             /\ \A i \in DOMAIN file : \A j \in DOMAIN file[i] :
                  /\ Own(file[i][j]) => op'[p].event # file[i][j]
                  /\ Own(file[i][j]) /\ file[i][j].sid = op'[p].event.sid => file[i][j].kind = "start"
                  /\ Own(file[i][j]) /\ op'[p].at = "append" => i <= op'[p].to
    BY DEF Announcing, Free
  <2>1. CASE GoesOn(p)
    <3>1. /\ ~Free(p) /\ op'[p].event = op[p].event
          /\ op'[p].at = "append" => op[p].at = "append" /\ op'[p].to = op[p].to
      BY <2>1 DEF GoesOn
    <3>2. op[p].event \in Lines
      BY <3>1 DEF LogShape
    <3> QED
      BY <3>1, <3>2, RecordsStay DEF Announced, Announcing, Recorded, EndedOnDisk
  <2>2. CASE NewCall(p)
    BY <2>2 DEF NewCall
  <2> QED
    BY <2>1, <2>2
<1> QED
  BY <1>1, <1>2, <1>3 DEF Announced

LEMMA OpenAnnounces ==
  ASSUME TypeOK, LogShape, Announced, Grows, NEW p \in Writer, Open(p)
  PROVE  Announced'
<1>1. /\ \A i \in DOMAIN file : i \in DOMAIN file' /\ file'[i] = file[i]
      /\ \A i \in DOMAIN file' \ DOMAIN file : DOMAIN file'[i] = {}
      /\ current' = Len(file') /\ Len(file') \in Nat /\ DOMAIN file' = 1..Len(file')
  <2>1. CASE current = 0
    <3>1. file' = Append(file, <<>>) /\ current' = Len(file) + 1 /\ file \in Seq(Seq(Lines))
      BY <2>1 DEF Open, TypeOK, LogTypeOK
    <3>2. file'[Len(file) + 1] = <<>> /\ DOMAIN file' = 1..(Len(file) + 1)
      BY <3>1
    <3> QED
      BY <3>1, <3>2
  <2>2. CASE current # 0
    BY <2>2, FileLines DEF Open, LogShape
  <2> QED
    BY <2>1, <2>2
<1>2. /\ \A q \in Writer : q # p => op'[q] = op[q]
      /\ op'[p].at = "append" /\ op'[p].to = current'
      /\ op'[p].event = op[p].event /\ ~Free(p)
  BY DEF Open, TypeOK, LogTypeOK, Free
<1>3. AnnouncedOnce'
  BY <1>1 DEF Announced, AnnouncedOnce
<1>4. AnnouncedResolves'
  <2> SUFFICES ASSUME NEW i \in DOMAIN file', NEW j \in DOMAIN file'[i], Own(file'[i][j])
      PROVE  Recorded(file[i][j])'
    BY DEF AnnouncedResolves
  <2>1. i \in DOMAIN file /\ file'[i] = file[i]
    BY <1>1
  <2> QED
    BY <2>1, FileLines, RecordsStay DEF Announced, AnnouncedResolves, Recorded, EndedOnDisk
<1>5. Announcing'
  <2> SUFFICES ASSUME NEW q \in Writer, op'[q].at \notin {"idle", "failed"}, Own(op'[q].event)
      PROVE  /\ q = Api /\ Recorded(op[q].event)'
             /\ \A i \in DOMAIN file' : \A j \in DOMAIN file'[i] :
                  /\ Own(file'[i][j]) => op'[q].event # file'[i][j]
                  /\ Own(file'[i][j]) /\ file'[i][j].sid = op'[q].event.sid
                       => file'[i][j].kind = "start"
                  /\ Own(file'[i][j]) /\ op'[q].at = "append" => i <= op'[q].to
    BY DEF Announcing, Free
  <2>1. op'[q].event = op[q].event /\ ~Free(q) /\ op[q].event \in Lines
    BY <1>2 DEF LogShape, Free
  <2>2. q = Api /\ Recorded(op[q].event)'
    BY <2>1, RecordsStay DEF Announced, Announcing, Recorded, EndedOnDisk
  <2>3. ASSUME NEW i \in DOMAIN file', NEW j \in DOMAIN file'[i]
        PROVE  /\ Own(file'[i][j]) => op'[q].event # file'[i][j]
               /\ Own(file'[i][j]) /\ file'[i][j].sid = op'[q].event.sid
                    => file'[i][j].kind = "start"
               /\ Own(file'[i][j]) /\ op'[q].at = "append" => i <= op'[q].to
    <3>1. i \in DOMAIN file /\ file'[i] = file[i] /\ i <= current'
      BY <1>1
    <3> QED
      BY <2>1, <3>1, <1>2 DEF Announced, Announcing
  <2> QED
    BY <2>2, <2>3
<1> QED
  BY <1>3, <1>4, <1>5 DEF Announced

LEMMA WriteAnnounces ==
  ASSUME TypeOK, LogShape, Announced, Grows, NEW p \in Writer, WriteLine(p)
  PROVE  Announced'
<1> DEFINE to == op[p].to
           e  == op[p].event
           n  == Len(file[to]) + 1
<1>1. /\ to \in DOMAIN file /\ e \in Lines /\ ~Free(p) /\ op[p].at = "append"
      /\ file[to] \in Seq(Lines) /\ Len(file[to]) \in Nat /\ DOMAIN file \subseteq Nat
      /\ DOMAIN file[to] = 1..Len(file[to])
  <2>1. to \in 1..Len(file) /\ e \in Lines /\ ~Free(p) /\ op[p].at = "append"
    BY DEF WriteLine, LogShape, Free
  <2>2. to \in DOMAIN file /\ DOMAIN file \subseteq Nat
    BY <2>1, FileLines
  <2> QED
    BY <2>1, <2>2, FileLines
<1>2. /\ DOMAIN file' = DOMAIN file /\ file'[to] = Append(file[to], e)
      /\ \A i \in DOMAIN file : i # to => file'[i] = file[i]
  BY <1>1 DEF WriteLine, TypeOK, LogTypeOK
<1>3. /\ DOMAIN file'[to] = DOMAIN file[to] \cup {n} /\ file'[to][n] = e
      /\ \A j \in DOMAIN file[to] : file'[to][j] = file[to][j] /\ j < n
  BY <1>1, <1>2
<1>4. ASSUME NEW i \in DOMAIN file', NEW j \in DOMAIN file'[i]
      PROVE  \/ i \in DOMAIN file /\ j \in DOMAIN file[i] /\ file'[i][j] = file[i][j]
                /\ (i = to => j < n)
             \/ i = to /\ j = n /\ file'[i][j] = e
  BY <1>2, <1>3
<1>5. Own(e) => p = Api /\ Recorded(e)
  BY <1>1 DEF Announced, Announcing
<1>6. ASSUME NEW i \in DOMAIN file, NEW j \in DOMAIN file[i], Own(e), Own(file[i][j])
      PROVE  e # file[i][j] /\ (file[i][j].sid = e.sid => file[i][j].kind = "start") /\ i <= to
  BY <1>1, <1>6 DEF Announced, Announcing
<1>7. AnnouncedOnce'
  <2> SUFFICES ASSUME NEW i \in DOMAIN file', NEW k \in DOMAIN file',
                      NEW j \in DOMAIN file'[i], NEW l \in DOMAIN file'[k],
                      Own(file'[i][j]), Own(file'[k][l]), file'[i][j].sid = file'[k][l].sid
      PROVE  /\ file'[i][j] = file'[k][l] => i = k /\ j = l
             /\ file'[i][j].kind = "start" /\ file'[k][l].kind = "end" => Before(i, j, k, l)
    BY DEF AnnouncedOnce
  <2> DEFINE Old(x, y) == x \in DOMAIN file /\ y \in DOMAIN file[x] /\ file'[x][y] = file[x][y]
                          /\ (x = to => y < n)
             New(x, y) == x = to /\ y = n /\ file'[x][y] = e
  <2>1. (Old(i, j) \/ New(i, j)) /\ (Old(k, l) \/ New(k, l))
    BY <1>4
  <2>2. CASE Old(i, j) /\ Old(k, l)
    BY <2>2 DEF Announced, AnnouncedOnce
  <2>3. CASE Old(i, j) /\ New(k, l)
    <3>1. e # file[i][j] /\ i <= to
      BY <1>6, <2>3
    <3>2. i \in Nat /\ to \in Nat
      BY <1>1, <2>3
    <3>3. Before(i, j, k, l)
      BY <2>3, <3>1, <3>2 DEF Before
    <3> QED
      BY <2>3, <3>1, <3>3
  <2>4. CASE New(i, j) /\ Old(k, l)
    <3>1. e # file[k][l] /\ file[k][l].kind = "start"
      BY <1>6, <2>4
    <3> QED
      BY <2>4, <3>1
  <2>5. CASE New(i, j) /\ New(k, l)
    BY <2>5
  <2> QED
    BY <2>1, <2>2, <2>3, <2>4, <2>5
<1>8. AnnouncedResolves'
  <2> SUFFICES ASSUME NEW i \in DOMAIN file', NEW j \in DOMAIN file'[i], Own(file'[i][j])
      PROVE  Recorded(file[i][j])'
    BY DEF AnnouncedResolves
  <2>1. file'[i][j] \in Lines /\ Recorded(file'[i][j])
    <3>1. CASE i \in DOMAIN file /\ j \in DOMAIN file[i] /\ file'[i][j] = file[i][j]
      BY <3>1, FileLines DEF Announced, AnnouncedResolves
    <3>2. CASE file'[i][j] = e
      BY <3>2, <1>1, <1>5
    <3> QED
      BY <1>4, <3>1, <3>2
  <2> QED
    BY <2>1, RecordsStay DEF Recorded, EndedOnDisk
<1>9. Announcing'
  <2> SUFFICES ASSUME NEW q \in Writer, op'[q].at \notin {"idle", "failed"}, Own(op'[q].event)
      PROVE  /\ q = Api /\ Recorded(op[q].event)'
             /\ \A i \in DOMAIN file' : \A j \in DOMAIN file'[i] :
                  /\ Own(file'[i][j]) => op'[q].event # file'[i][j]
                  /\ Own(file'[i][j]) /\ file'[i][j].sid = op'[q].event.sid
                       => file'[i][j].kind = "start"
                  /\ Own(file'[i][j]) /\ op'[q].at = "append" => i <= op'[q].to
    BY DEF Announcing, Free
  <2>1. q # p /\ op'[q] = op[q]
    BY DEF WriteLine, Idle, TypeOK, LogTypeOK
  <2>2. q = Api /\ Recorded(op[q].event) /\ op[q].event \in Lines /\ ~Free(q)
    BY <2>1 DEF Announced, Announcing, LogShape, Free
  <2>3. ~Own(e)
    BY <1>5, <2>1, <2>2
  <2>4. Recorded(op[q].event)'
    BY <2>1, <2>2, RecordsStay DEF Recorded, EndedOnDisk
  <2>5. ASSUME NEW i \in DOMAIN file', NEW j \in DOMAIN file'[i], Own(file'[i][j])
        PROVE  /\ op'[q].event # file'[i][j]
               /\ file'[i][j].sid = op'[q].event.sid => file'[i][j].kind = "start"
               /\ op'[q].at = "append" => i <= op'[q].to
    <3>1. i \in DOMAIN file /\ j \in DOMAIN file[i] /\ file'[i][j] = file[i][j]
      BY <1>4, <2>3, <2>5
    <3> QED
      BY <2>1, <2>2, <2>5, <3>1 DEF Announced, Announcing
  <2> QED
    BY <2>2, <2>4, <2>5
<1> QED
  BY <1>7, <1>8, <1>9 DEF Announced

(* The tailer begins to announce only what no line of the log says yet.       *)
LEMMA BeginGoesOn ==
  ASSUME TypeOK, NEW p \in Writer, NEW e \in Lines, Begin(p, e), ~Own(e)
  PROVE  file' = file /\ \A q \in Writer : GoesOn(q)
<1>1. \A q \in Writer : q # p => op'[q] = op[q]
  BY DEF Begin, TypeOK, LogTypeOK
<1>2. op'[p].event = e /\ file' = file
  BY DEF Begin, TypeOK, LogTypeOK
<1> QED
  BY <1>1, <1>2 DEF GoesOn, Free

LEMMA BeginAnnounces ==
  ASSUME TypeOK, LogShape, Announced, Grows, NEW s \in Session, NEW e \in Lines,
         Begin(Api, e), Own(e), e.sid = s, Recorded(e)', EndRows(s) = {},
         e.kind = "start" => StartRows(s) = {}
  PROVE  Announced'
<1>0. Api \in Writer
  BY TailerAssumption
<1>1. \A q \in Writer \ {Api} : GoesOn(q)
  BY DEF Begin, TypeOK, LogTypeOK, GoesOn, Free
<1>2. op'[Api].event = e /\ op'[Api].at # "append" /\ file' = file
  BY <1>0 DEF Begin, TypeOK, LogTypeOK
<1>3. ASSUME NEW i \in DOMAIN file, NEW j \in DOMAIN file[i], Own(file[i][j]), file[i][j].sid = s
      PROVE  file[i][j].kind = "start" /\ e # file[i][j]
  <2>1. file[i][j] \in Lines /\ Recorded(file[i][j])
    BY <1>3, FileLines DEF Announced, AnnouncedResolves
  <2>2. file[i][j].kind \in {"start", "end"}
    BY <1>3, <2>1, OwnLines
  <2> QED
    BY <1>3, <2>1, <2>2, OwnLines DEF Recorded, EndedOnDisk
<1>4. NewCall(Api)
  <2>1. Recorded(op[Api].event)'
    BY <1>2 DEF Recorded, EndedOnDisk
  <2> QED
    BY <1>2, <1>3, <2>1 DEF NewCall
<1> QED
  BY <1>1, <1>2, <1>4, NoNewLine

LEMMA EndAnnounces ==
  ASSUME TypeOK, LogShape, OnDisk, Announced, Grows, NEW s \in Session, IsOpen(s),
         tick.at # "down", Appended(EndRow(s)), Begin(Api, End(s))
  PROVE  Announced'
<1>1. EndRows(s) = {}
  BY DEF OnDisk, RegistryCurrent, IsOpen
<1>2. EndRows(s)' # {}
  BY MoreEndRows DEF Appended
<1>3. Recorded(End(s))'
  BY <1>2, OwnLines DEF Recorded, EndedOnDisk, End
<1> QED
  BY <1>1, <1>3, OwnLines, LineTypes, BeginAnnounces

LEMMA StepAnnounces ==
  ASSUME TypeOK, LogShape, OnDisk, Announced, [Next]_vars
  PROVE  Announced'
<1>0. Grows /\ Api \in Writer
  BY StepGrows, TailerAssumption
<1>1. ASSUME file' = file, op' = op PROVE Announced'
  BY <1>0, <1>1, NoNewLine DEF GoesOn, Free
<1>2. CASE \E s \in Session : AgentWrites(s) \/ Cleared(s)
  BY <1>1, <1>2 DEF AgentWrites, Cleared, logVars
<1>3. CASE \E s \in Session : IngestStart(s)
  <2>1. PICK s \in Session : IngestStart(s)
    BY <1>3
  <2>2. Begin(Api, Start(s, "hook")) /\ Start(s, "hook") \in Lines /\ ~Own(Start(s, "hook"))
    BY <2>1, LineTypes, OwnLines DEF IngestStart
  <2> QED
    BY <1>0, <2>2, BeginGoesOn, NoNewLine
<1>4. CASE \E p \in Writer : LogOther(p)
  BY <1>0, <1>4, BeginGoesOn, NoNewLine, LineTypes, OwnLines DEF LogOther
<1>5. ASSUME NEW p \in Writer, Log(p) PROVE Announced'
  <2>1. CASE Rename(p) \/ Raise(p)
    <3>1. file' = file /\ ~Free(p)
      BY <2>1 DEF Rename, Raise, Free
    <3>2. \A q \in Writer : q # p => op'[q] = op[q]
      BY <2>1 DEF Rename, Raise, TypeOK, LogTypeOK
    <3>3. op'[p].at = "failed" \/ (op'[p].at = "open" /\ op'[p].event = op[p].event)
      BY <2>1 DEF Rename, Raise, Idle, TypeOK, LogTypeOK
    <3>4. \A q \in Writer : GoesOn(q)
      BY <3>1, <3>2, <3>3 DEF GoesOn, Free
    <3> QED
      BY <1>0, <3>1, <3>4, NoNewLine
  <2> QED
    BY <1>0, <1>5, <2>1, OpenAnnounces, WriteAnnounces DEF Log, LogStep
<1>6. CASE TimePasses \/ Clock \/ UNCHANGED vars
  BY <1>1, <1>6 DEF TimePasses, Clock, SecondPasses, vars, logVars
<1>7. CASE Kill
  <2>1. file' = file /\ \A q \in Writer : op'[q] = op[q] \/ op'[q] = Idle
    BY <1>7 DEF Kill, TypeOK, LogTypeOK
  <2>2. \A q \in Writer : GoesOn(q)
    BY <2>1 DEF GoesOn, Free, Idle
  <2> QED
    BY <1>0, <2>1, <2>2, NoNewLine
<1>8. CASE Tailer
  <2>1. CASE \/ BeginTick \/ AttributionFails \/ Ended \/ BeginSweep \/ TimedOut \/ EndTick
    BY <1>1, <2>1 DEF BeginTick, AttributionFails, Ended, BeginSweep, TimedOut, EndTick,
       logVars
  <2>2. ASSUME NEW s \in Session, HandleFile(s) PROVE Announced'
    <3>1. CASE \/ SkipFile(s) \/ UpdateActivity(s) \/ BeginAttribution(s) \/ RegisterOnly(s)
               \/ StartedOpen(s)
      BY <1>1, <3>1 DEF SkipFile, UpdateActivity, BeginAttribution, RegisterOnly, StartedOpen,
         logVars
    <3>0. ASSUME UNCHANGED logVars PROVE Announced'
      BY <1>1, <3>0 DEF logVars
    <3>2. CASE CodexEnds(s)
      BY <1>0, <3>0, <3>2, EndAnnounces DEF CodexEnds, NextFile, Ready, Finished
    <3>3. CASE Started(s) \/ IdleTimeout(s)
      <4>1. IsOpen(s) /\ (EmitSessionEnd(s) \/ EndUnsaved(s)) /\ tick.at # "down"
        BY <3>3 DEF Started, IdleTimeout, Finished, Due, Ready
      <4> QED
        BY <1>0, <3>0, <4>1, EndAnnounces DEF EmitSessionEnd, EndUnsaved
    <3>6. CASE EmitSessionStart(s) /\ AppendFails(s) /\ UNCHANGED logVars
      BY <3>0, <3>6
    <3>4. CASE EmitSessionStart(s) /\ AlreadyStarted(s) /\ Settle(Api)
      <4>1. file' = file /\ \A q \in Writer : op'[q] = op[q] \/ op'[q] = Idle
        BY <3>4 DEF Settle, TypeOK, LogTypeOK
      <4>2. \A q \in Writer : GoesOn(q)
        BY <4>1 DEF GoesOn, Free, Idle
      <4> QED
        BY <1>0, <4>1, <4>2, NoNewLine
    <3>5. CASE /\ EmitSessionStart(s) /\ Appended(StartRow(s, AlreadyStarted(s)))
               /\ ~AlreadyStarted(s) /\ Begin(Api, Start(s, "tailer"))
      <4>1. StartRows(s) = {} /\ EndRows(s) = {}
        BY <3>5 DEF EmitSessionStart, Ready, OnDisk, Attributing, RegistryCurrent, RegistryShape
      <4>2. registry' = Append(registry, StartRow(s, FALSE)) /\ Begin(Api, Start(s, "tailer"))
        BY <3>5 DEF Appended, AlreadyStarted
      <4>3. StartRows(s)' # {}
        BY <4>2, MoreStartRows
      <4>4. Recorded(Start(s, "tailer"))'
        BY <4>3, OwnLines DEF Recorded, Start
      <4> QED
        BY <1>0, <4>1, <4>2, <4>4, OwnLines, LineTypes, BeginAnnounces
    <3> QED
      BY <2>2, <3>1, <3>2, <3>3, <3>4, <3>5, <3>6 DEF HandleFile, EmitSessionStart
  <2> QED
    BY <1>8, <2>1, <2>2 DEF Tailer
<1>9. CASE Bootstrap
  BY <1>1, <1>9 DEF Bootstrap, logVars
<1> QED
  BY <1>2, <1>3, <1>4, <1>5, <1>6, <1>7, <1>8, <1>9 DEF Next

-----------------------------------------------------------------------------
LEMMA InitHolds == Init => TailerInv
<1> SUFFICES ASSUME Init PROVE TailerInv
  OBVIOUS
<1>1. DOMAIN file = {} /\ DOMAIN registry = {} /\ Len(file) = 0
  BY DEF Init, NothingSeen, LogInit
<1>2. LogTypeOK
  <2>1. <<>> \in Seq(Seq(Lines)) /\ <<>> \in Seq(Nat)
    OBVIOUS
  <2>2. Idle \in [at : Steps, to : Nat, event : Lines \cup {<<>>}]
    BY DEF Idle, Steps
  <2>3. op \in [Writer -> [at : Steps, to : Nat, event : Lines \cup {<<>>}]]
    BY <2>2 DEF Init, NothingSeen, LogInit
  <2> QED
    BY <2>1, <2>3 DEF Init, NothingSeen, LogInit, LogTypeOK
<1>3. TailerTypeOK
  BY TailerAssumption DEF Init, NothingSeen, TailerTypeOK, NoFile, Sleeping, Places, Ages
<1>4. LogShape
  BY <1>1 DEF Init, NothingSeen, LogInit, LogShape, Idle, Free
<1>5. OnDisk
  BY <1>1 DEF Init, NothingSeen, OnDisk, RegistryShape, RegistryCurrent, Attributing, StartRows, EndRows, Sleeping
<1>6. Announced
  BY <1>1 DEF Init, NothingSeen, LogInit, Idle, Announced, Announcing, AnnouncedOnce, AnnouncedResolves, Free
<1> QED
  BY <1>2, <1>3, <1>4, <1>5, <1>6 DEF TailerInv, TypeOK, OnDisk, Announced

LEMMA StepHolds == TailerInv /\ [Next]_vars => TailerInv'
<1> SUFFICES ASSUME TailerInv, [Next]_vars PROVE TailerInv'
  OBVIOUS
<1>1. TypeOK /\ LogShape /\ OnDisk /\ Announced
  BY DEF TailerInv, OnDisk, Announced
<1>2. TypeOK' /\ LogShape'
  BY <1>1, StepKeepsTypes DEF OnDisk
<1>3. OnDisk' /\ Announced'
  BY <1>1, StepKeepsOnDisk, StepAnnounces
<1> QED
  BY <1>2, <1>3 DEF TailerInv, OnDisk, Announced

LEMMA Invariance == Spec => []TailerInv
<1>1. Init => TailerInv
  BY InitHolds
<1>2. TailerInv /\ [Next]_vars => TailerInv'
  BY StepHolds
<1> QED
  BY <1>1, <1>2, PTL DEF Spec

(* Every state has the types of the code's records, files and rows.           *)
THEOREM TypeCorrect == Spec => []TypeOK
<1>1. TailerInv => TypeOK
  BY DEF TailerInv
<1> QED
  BY <1>1, Invariance, PTL

(* A crash of the API process at any point loses nothing the tailer knows of  *)
(* which sessions there are and which are ended, but of those whose row it    *)
(* failed to append; and the next process takes nothing for so that was not.  *)
THEOREM RestartSafe == Spec => []RegistryKeepsRows
<1>1. TailerInv => RegistryKeepsRows
  <2> SUFFICES ASSUME TailerInv, tick.at # "down", NEW s \in Session
      PROVE  /\ Facts(Rebuilt(s)) \subseteq Facts(rows[s])
             /\ s \notin unsaved => Facts(rows[s]) \subseteq Facts(Rebuilt(s))
    BY DEF RegistryKeepsRows
  <2>1. /\ TypeOK /\ RegistryShape
        /\ rows[s] = None => StartRows(s) = {} /\ EndRows(s) = {}
        /\ rows[s] # None =>
             /\ EndRows(s) # {} => rows[s].ended
             /\ \A i \in StartRows(s) : registry[i].hook = rows[s].hook
             /\ s \notin unsaved =>
                  /\ rows[s].ended => EndRows(s) # {}
                  /\ StartRows(s) = {} => rows[s].ended /\ ~rows[s].hook
    BY DEF TailerInv, RegistryCurrent
  <2>2. CASE rows[s] = None
    BY <2>1, <2>2, RebuiltIs DEF Facts
  <2>3. CASE rows[s] # None /\ Rebuilt(s) = None
    <3>1. StartRows(s) = {} /\ EndRows(s) = {}
      BY <2>1, <2>3, RebuiltIs
    <3>2. s \in unsaved
      BY <2>1, <2>3, <3>1
    <3> QED
      BY <2>3, <3>2 DEF Facts
  <2>4. CASE rows[s] # None /\ Rebuilt(s) # None
    <3>1. StartRows(s) # {} \/ EndRows(s) # {}
      BY <2>1, <2>4, RebuiltIs
    <3>2. Rebuilt(s).ended => rows[s].ended
      BY <2>1, <2>4, RebuiltIs
    <3>3. Rebuilt(s).hook => rows[s].hook
      BY <2>1, <2>4, <3>1, RebuiltIs
    <3>4. s \notin unsaved =>
            (rows[s].ended => Rebuilt(s).ended) /\ (rows[s].hook => Rebuilt(s).hook)
      BY <2>1, <2>4, <3>1, RebuiltIs
    <3> QED
      <4>1. ASSUME NEW a, NEW b, a # None, b # None, a.hook => b.hook, a.ended => b.ended
            PROVE  Facts(a) \subseteq Facts(b)
        BY <4>1 DEF Facts
      <4> QED
        BY <2>4, <3>2, <3>3, <3>4, <4>1
  <2> QED
    BY <2>2, <2>3, <2>4
<1> QED
  BY <1>1, Invariance, PTL

(* No restart, rotation or hook makes the tailer announce a session twice,    *)
(* or its end before its start.                                              *)
THEOREM AnnouncesOnce == Spec => []AnnouncedOnce
<1>1. TailerInv => AnnouncedOnce
  BY DEF TailerInv
<1> QED
  BY <1>1, Invariance, PTL

(* What the tailer announced, the drill-down route finds in the registry.     *)
THEOREM AnnouncesResolve == Spec => []AnnouncedResolves
<1>1. TailerInv => AnnouncedResolves
  BY DEF TailerInv
<1> QED
  BY <1>1, Invariance, PTL

(* A rotated segment keeps its name unless two processes rotate at once.      *)
THEOREM SegmentsStay == Spec => OnlyStaleRotationLoses
<1>1. TailerInv /\ [Next]_vars => [IsPrefix(segments, segments') \/ Len(CurrentLines) < Threshold]_vars
  <2> SUFFICES ASSUME TailerInv, [Next]_vars
      PROVE  IsPrefix(segments, segments') \/ Len(CurrentLines) < Threshold
    OBVIOUS
  <2>0. segments \in Seq(Nat) /\ LogShape /\ Api \in Writer
    BY TailerAssumption DEF TailerInv, TypeOK, LogTypeOK
  <2>1. CASE segments' = segments
    BY <2>0, <2>1 DEF IsPrefix
  <2>2. ASSUME NEW p \in Writer, Rename(p)
        PROVE  IsPrefix(segments, segments') \/ Len(CurrentLines) < Threshold
    <3>1. CASE sameSecond
      BY <2>0, <3>1 DEF LogShape
    <3>2. CASE ~sameSecond
      <4>1. segments' = Append(segments, current) /\ current \in Nat
        BY <2>2, <3>2 DEF Rename, TailerInv, TypeOK, LogTypeOK
      <4> QED
        BY <2>0, <4>1 DEF IsPrefix
    <3> QED
      BY <3>1, <3>2
  <2>3. ASSUME NEW s \in Session, HandleFile(s) PROVE segments' = segments
    BY <2>3 DEF HandleFile, SkipFile, UpdateActivity, CodexEnds, BeginAttribution, RegisterOnly,
       EmitSessionStart, Started, StartedOpen, IdleTimeout, EmitSessionEnd,
       EndUnsaved, Begin, Settle, logVars
  <2>4. (\E p \in Writer : Rename(p)) \/ segments' = segments
    BY <2>3 DEF Next, AgentWrites, Cleared, IngestStart, LogOther, Log, LogStep, Open, WriteLine,
       Raise, Begin, TimePasses, Clock, SecondPasses, Kill, Tailer, BeginTick, AttributionFails,
       Ended, BeginSweep, TimedOut, EndTick, Bootstrap, vars, logVars
  <2> QED
    BY <2>1, <2>2, <2>4
<1> QED
  BY <1>1, Invariance, PTL DEF Spec, OnlyStaleRotationLoses
=============================================================================
