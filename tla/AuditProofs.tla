------------------------------ MODULE AuditProofs ------------------------------
(***************************************************************************)
(* Theorems about the audit pipeline, for any agents and any number of     *)
(* runs: whatever step each process dies at, the files of complete stages  *)
(* belong together, and so do they and the books.                          *)
(***************************************************************************)
EXTENDS AuditProperties, TLAPS

LEMMA Places ==
  /\ \A s \in Stages : LegOf(s) \in 1..8
  /\ \A s \in Solo : LegOf(s) # 5
  /\ \A s \in Agents : LegOf(s) = 5
  /\ \A s \in Solo, t \in Stages : LegOf(s) = LegOf(t) => s = t
  /\ \A s \in Solo : LegOf(s) <= 4 =>
       s \in {"intake", "warmup", "prediscovery", "brief"}
  /\ LegOf("brief") = 4 /\ LegOf("deliverable") = 8
  /\ {"intake", "warmup", "prediscovery", "brief", "deliverable"} \subseteq Solo
  BY AuditAssumption DEF LegOf, Stages, Solo, Plain

LEMMA Sources ==
  \A s \in Stages : \A u \in Reads(s) :
    u \in Stages /\ u # s /\ LegOf(u) < LegOf(s)
  BY AuditAssumption DEF LegOf, Reads, Stages, Solo, Plain

LEMMA Numbers ==
  ASSUME TypeOK
  PROVE  /\ runs \in Nat /\ leg \in 0..8 /\ MaxRuns \in Nat
         /\ \A s \in Stages : doc[s].run \in Nat /\ session[s] \in Nat
                              /\ booked[s] \in Nat
  BY AuditAssumption DEF TypeOK, Docs

(***************************************************************************)
(* A stage that finds its inputs and nothing made from its old files may   *)
(* clear them and write them anew.                                         *)
(***************************************************************************)
LEMMA WrittenFromComplete ==
  ASSUME AuditInv, NEW s \in Stages, At(s), InputsParse(s),
         NEW u \in Reads(s)
  PROVE  \/ u \in Agents /\ From(s)[u] = 0
         \/ /\ u \in completed /\ OnDisk(u) /\ doc[u].usable
            /\ From(s)[u] = doc[u].run
<1>1. u \in Stages /\ LegOf(u) < leg
  BY Sources DEF At
<1>2. CASE u \in Agents
  BY <1>1, <1>2 DEF From, AuditInv, Over, Intact
<1>3. CASE u \notin Agents
  <2>1. u \in completed /\ OnDisk(u)
    BY <1>1, <1>3, Places, Numbers DEF AuditInv, Behind, NoStaleOutput, Stages, At
  <2> QED
    BY <1>1, <1>3, <2>1 DEF From, InputsParse
<1> QED
  BY <1>2, <1>3

(* The files of one stage change, to none or to what this run makes.       *)
FilesOf(s) ==
  /\ At(s) /\ InputsParse(s) /\ Unread(s)
  /\ s \notin Agents => s \notin completed
  /\ doc' \in [Stages -> Docs]
  /\ \A t \in Stages \ {s} : doc'[t] = doc[t]
  /\ \/ doc'[s].run = 0
     \/ doc'[s].run = runs /\ doc'[s].from = From(s)
  /\ gap' \in BOOLEAN /\ (gap => gap')
  /\ UNCHANGED <<completed, session, charged, runs>>

LEMMA FilesKept ==
  ASSUME AuditInv, NEW s \in Stages, FilesOf(s)
  PROVE  /\ InputsParse(s)' /\ Unread(s)' /\ (OnDisk(s) => Sound(s))'
         /\ NoStaleOutput' /\ ChainCurrent'
<1> USE DEF FilesOf
<1>1. \A u \in Reads(s) : u \in Stages /\ u # s /\ doc'[u] = doc[u]
  BY Sources
<1>2. InputsParse(s)'
  BY <1>1 DEF InputsParse
<1>3. \A t \in completed : s \in Reads(t) => t # s /\ t \in Stages /\ doc'[t] = doc[t]
  BY Sources DEF AuditInv, TypeOK
<1>4. Unread(s)'
  BY <1>3 DEF Unread, OnDisk
<1>5. OnDisk(s)' => Sound(s)'
  <2> SUFFICES ASSUME OnDisk(s)', NEW u \in Reads(s)
               PROVE  \/ u \in Agents /\ doc'[s].from[u] = 0
                      \/ /\ u \in completed' /\ OnDisk(u)' /\ doc'[u].usable
                         /\ doc'[s].from[u] = doc'[u].run
    BY DEF Sound
  <2>1. doc'[s].from = From(s)
    BY Numbers DEF OnDisk, AuditInv
  <2> QED
    BY <2>1, <1>1, WrittenFromComplete DEF OnDisk
<1>6. NoStaleOutput'
  <2>1. \A t \in completed' \ Agents : OnDisk(t)' /\ doc'[t].run = session'[t]
    BY DEF AuditInv, NoStaleOutput, OnDisk, TypeOK
  <2>2. \A a \in completed' \cap Agents : OnDisk(a)' => doc'[a].run >= session'[a]
    BY Numbers DEF AuditInv, NoStaleOutput, OnDisk, Past, Stages, TypeOK
  <2> QED
    BY <2>1, <2>2 DEF NoStaleOutput
<1>7. ChainCurrent'
  <2> SUFFICES ASSUME NEW t \in completed, OnDisk(t)', t # s, NEW u \in Reads(t)
               PROVE  \/ u \in Agents /\ doc'[t].from[u] = 0
                      \/ /\ u \in completed' /\ OnDisk(u)' /\ doc'[u].usable
                         /\ doc'[t].from[u] = doc'[u].run
    BY <1>5 DEF ChainCurrent, Sound
  <2>1. t \in Stages /\ u \in Stages /\ doc'[t] = doc[t] /\ OnDisk(t)
    BY Sources DEF AuditInv, TypeOK, OnDisk
  <2>2. CASE u = s
    BY <2>1, <2>2 DEF Unread
  <2>3. CASE u # s
    BY <2>1, <2>3 DEF AuditInv, ChainCurrent, Sound, OnDisk
  <2> QED
    BY <2>2, <2>3
<1> QED
  BY <1>2, <1>4, <1>5, <1>6, <1>7

(* Another stage at work does not notice: it is another agent.             *)
LEMMA OthersKept ==
  ASSUME AuditInv, NEW s \in Stages, FilesOf(s),
         NEW t \in Stages \ {s}, Active(t)
  PROVE  InputsParse(t)' /\ Unread(t)' /\ (OnDisk(t) => Sound(t))'
<1> USE DEF FilesOf
<1>1. At(t) /\ t \in Agents /\ s \in Agents /\ phase[t] # "cross"
  BY Places, AuditAssumption DEF AuditInv, AtWork, At, Stages, Solo
<1>2. s \notin Reads(t) /\ (\A u \in Reads(t) : u \in Stages /\ doc'[u] = doc[u])
  BY <1>1, Sources, Places DEF At
<1>3. InputsParse(t)'
  BY <1>2 DEF AuditInv, AtWork, InputsParse
<1>4. OnDisk(t)' => Sound(t)'
  BY <1>1, <1>2 DEF AuditInv, AtWork, OnDisk, Sound
<1>5. Unread(t)'
  <2> SUFFICES ASSUME NEW v \in completed, t \in Reads(v), OnDisk(v)'
               PROVE  t \in Agents /\ doc'[v].from[t] = 0
    BY DEF Unread
  <2>1. v # s /\ v \in Stages
    BY <1>1, Sources, Places DEF AuditInv, TypeOK, At
  <2> QED
    BY <2>1 DEF AuditInv, AtWork, Unread, OnDisk
<1> QED
  BY <1>3, <1>4, <1>5

LEMMA FromType ==
  ASSUME TypeOK, NEW s
  PROVE  From(s) \in [Stages -> 0..MaxRuns]
<1>1. \A u \in Stages : doc[u].run \in 0..MaxRuns
  BY DEF TypeOK, Docs
<1>2. 0 \in 0..MaxRuns
  BY AuditAssumption
<1> QED
  BY <1>1, <1>2 DEF From

(* Files written, and files cleared, by a stage that may do so.            *)
LEMMA PutFiles ==
  ASSUME AuditInv, NEW s \in Stages, At(s), InputsParse(s), Unread(s),
         s \notin Agents => s \notin completed,
         UNCHANGED <<completed, session, charged, runs>>,
         gap' \in BOOLEAN, gap => gap',
         NEW usable \in BOOLEAN, Put(s, usable)
  PROVE  FilesOf(s) /\ doc'[s].run = runs /\ doc'[s].usable = usable
         /\ runs > 0
<1>1. doc' = [doc EXCEPT ![s] =
               [run |-> runs, usable |-> usable, from |-> From(s)]]
  BY DEF Put
<1>2. doc \in [Stages -> Docs] /\ runs \in 0..MaxRuns
  BY DEF AuditInv, TypeOK
<1>3. [run |-> runs, usable |-> usable, from |-> From(s)] \in Docs
  BY <1>2, FromType DEF Docs, AuditInv
<1>4. runs > 0
  BY Numbers, Places DEF AuditInv, Behind, At
<1> HIDE DEF Put
<1> QED
  BY <1>1, <1>2, <1>3, <1>4 DEF FilesOf

LEMMA ClearFiles ==
  ASSUME AuditInv, NEW s \in Stages, At(s), InputsParse(s), Unread(s),
         s \notin Agents => s \notin completed,
         UNCHANGED <<completed, session, charged, gap, runs>>,
         doc' = [doc EXCEPT ![s] = Absent]
  PROVE  FilesOf(s) /\ doc'[s].run = 0
<1>1. doc \in [Stages -> Docs] /\ gap \in BOOLEAN
  BY DEF AuditInv, TypeOK
<1>2. Absent \in Docs /\ Absent.run = 0
  <2>1. 0 \in 0..MaxRuns
    BY AuditAssumption
  <2>2. [u \in Stages |-> 0] \in [Stages -> 0..MaxRuns]
    BY <2>1
  <2> QED
    BY <2>1, <2>2 DEF Absent, Docs
<1>3. doc' \in [Stages -> Docs] /\ doc'[s] = Absent
      /\ \A t \in Stages \ {s} : doc'[t] = doc[t]
  BY <1>1, <1>2
<1>4. doc'[s].run = 0
  BY <1>2, <1>3
<1> QED
  BY <1>1, <1>3, <1>4 DEF FilesOf

(* A stage that does not move is where it was.                             *)
LEMMA OtherStage ==
  ASSUME AuditInv, NEW t \in Stages,
         phase'[t] = phase[t], doc'[t] = doc[t], booked'[t] = booked[t],
         t \in billed' => t \in billed, gap => gap',
         UNCHANGED <<completed, session, runs, leg, torn>>,
         Active(t) => InputsParse(t)' /\ Unread(t)',
         Active(t) /\ phase[t] # "cross" => (OnDisk(t) => Sound(t))'
  PROVE  AtWork(t)' /\ Over(t)' /\ Past(t)'
<1>1. AtWork(t) /\ Over(t) /\ Past(t)
  BY DEF AuditInv
<1>2. AtWork(t)'
  BY <1>1 DEF AtWork, Active, At, OnDisk, InSession, GapThere
<1> QED
  BY <1>1, <1>2 DEF Over, Past, Intact, OnDisk, GapThere

(* A step of a stage that changes its files and its phase.                 *)
LEMMA FileStep ==
  ASSUME AuditInv, NEW s \in Stages, FilesOf(s), NEW to \in Phases, Move(s, to),
         UNCHANGED <<status, costFile, leg, seen, uploaded>>,
         billed' \in {billed, billed \cup {s}},
         AtWork(s)', Over(s)'
  PROVE  AuditInv'
<1>1. TypeOK'
  BY DEF AuditInv, TypeOK, FilesOf, Move, costFile
<1>2. NoStaleOutput' /\ ChainCurrent'
  BY FilesKept
<1>3. BooksBeforeMarks' /\ PublishedAsRendered'
  BY DEF AuditInv, BooksBeforeMarks, PublishedAsRendered, FilesOf, costFile
<1>4. Behind'
  <2>1. leg # 0
    BY Places DEF FilesOf, At
  <2> QED
    BY <2>1 DEF AuditInv, Behind, FilesOf
<1>5. \A t \in Stages \ {s} : AtWork(t)' /\ Over(t)' /\ Past(t)'
  <2> SUFFICES ASSUME NEW t \in Stages \ {s} PROVE AtWork(t)' /\ Over(t)' /\ Past(t)'
    OBVIOUS
  <2>1. Active(t) => InputsParse(t)' /\ Unread(t)' /\ (OnDisk(t) => Sound(t))'
    BY OthersKept
  <2>2. phase'[t] = phase[t] /\ doc'[t] = doc[t] /\ booked'[t] = booked[t]
        /\ (t \in billed' => t \in billed)
    BY DEF AuditInv, TypeOK, Move, FilesOf, costFile
  <2> QED
    BY <2>1, <2>2, OtherStage DEF FilesOf, costFile
<1>6. Past(s)'
  BY Numbers DEF AuditInv, Past, FilesOf, costFile
<1> QED
  BY <1>1, <1>2, <1>3, <1>4, <1>5, <1>6 DEF AuditInv

(* What is needed of a stage whose files stay: its inputs stay too.        *)
LEMMA SameFiles ==
  ASSUME UNCHANGED <<doc, completed>>, NEW s
  PROVE  /\ InputsParse(s)' = InputsParse(s) /\ Unread(s)' = Unread(s)
         /\ Sound(s)' = Sound(s) /\ OnDisk(s)' = OnDisk(s)
  BY DEF InputsParse, Unread, Sound, OnDisk

(* A step of a stage that leaves its files alone.                          *)
LEMMA PhaseStep ==
  ASSUME AuditInv, NEW s \in Stages, At(s), NEW to \in Phases, Move(s, to),
         UNCHANGED <<stateFile, doc, torn, leg, outside>>,
         gap' \in BOOLEAN, gap => gap', billed' \in {billed, billed \cup {s}},
         booked' \in [Stages -> 0..MaxRuns],
         \A t \in Stages \ {s} : booked'[t] = booked[t],
         booked'[s] \in {booked[s], runs},
         AtWork(s)', Over(s)'
  PROVE  AuditInv'
<1> USE DEF stateFile, outside
<1>1. TypeOK'
  BY DEF AuditInv, TypeOK, Move
<1>2. NoStaleOutput' /\ ChainCurrent'
  BY DEF AuditInv, NoStaleOutput, ChainCurrent, OnDisk, Sound
<1>3. BooksBeforeMarks' /\ PublishedAsRendered'
  BY Numbers DEF AuditInv, BooksBeforeMarks, PublishedAsRendered, Past, TypeOK
<1>4. Behind'
  <2>1. leg # 0
    BY Places DEF At
  <2> QED
    BY <2>1 DEF AuditInv, Behind
<1>5. \A t \in Stages \ {s} : AtWork(t)' /\ Over(t)' /\ Past(t)'
  <2> SUFFICES ASSUME NEW t \in Stages \ {s} PROVE AtWork(t)' /\ Over(t)' /\ Past(t)'
    OBVIOUS
  <2>1. /\ Active(t) => InputsParse(t)' /\ Unread(t)'
        /\ Active(t) /\ phase[t] # "cross" => (OnDisk(t) => Sound(t))'
    BY SameFiles DEF AuditInv, AtWork
  <2>2. phase'[t] = phase[t] /\ doc'[t] = doc[t] /\ booked'[t] = booked[t]
        /\ (t \in billed' => t \in billed)
    BY DEF AuditInv, TypeOK, Move
  <2> QED
    BY <2>1, <2>2, OtherStage
<1>6. Past(s)'
  BY Numbers DEF AuditInv, Past
<1> QED
  BY <1>1, <1>2, <1>3, <1>4, <1>5, <1>6 DEF AuditInv

LEMMA Unchanged ==
  ASSUME AuditInv, UNCHANGED vars
  PROVE  AuditInv'
BY DEF vars, stateFile, files, costFile, outside, AuditInv, TypeOK, NoStaleOutput,
       ChainCurrent, Sound, OnDisk, BooksBeforeMarks, PublishedAsRendered,
       Behind, AtWork, Active, InSession, GapThere, At, InputsParse, Unread, Over,
       Intact, Past

-----------------------------------------------------------------------------
(* The steps of a stage, one by one.                                       *)
LEMMA SkipKeeps ==
  ASSUME AuditInv, NEW s \in Stages, Skip(s)
  PROVE  AuditInv'
<1>1. PICK to \in {"done", "failed"} :
        /\ Move(s, to)
        /\ to = "done" => (s \in Agents => doc[s].usable)
        /\ to = "failed" => s \in Agents
  BY DEF Skip, Parsing
<1>2. phase'[s] = to /\ booked' = booked
  BY <1>1 DEF Skip, Move, AuditInv, TypeOK, costFile
<1>3. AtWork(s)' /\ Over(s)'
  BY <1>1, <1>2 DEF Skip, AtWork, Active, Over, Intact, OnDisk, GapThere,
                    stateFile, files
<1> QED
  BY <1>1, <1>2, <1>3, PhaseStep DEF Skip, Phases, costFile, files, AuditInv, TypeOK

(* A stage that starts is not complete and nothing was made from its files. *)
LEMMA Startable ==
  ASSUME AuditInv, NEW s \in Stages, ~Intact(s)
  PROVE  (s \notin Agents => s \notin completed) /\ Unread(s)
<1>1. s \notin Agents => s \notin completed
  BY DEF AuditInv, NoStaleOutput, Behind, Intact, GapThere
<1>2. s \in Agents => GapThere(s)
  BY AuditAssumption DEF GapThere, Solo
<1>3. Unread(s)
  <2> SUFFICES ASSUME NEW t \in completed, s \in Reads(t), OnDisk(t)
               PROVE  s \in Agents /\ doc[t].from[s] = 0
    BY DEF Unread
  <2> QED
    BY <1>1, <1>2 DEF AuditInv, ChainCurrent, Sound, Intact
<1> QED
  BY <1>1, <1>3

LEMMA StartPlainKeeps ==
  ASSUME AuditInv, NEW s \in Stages, StartPlain(s)
  PROVE  AuditInv'
<1> USE DEF stateFile, costFile, outside
<1>1. /\ At(s) /\ s \in Plain /\ ~Intact(s) /\ InputsParse(s)
      /\ Put(s, TRUE) /\ Move(s, "record")
      /\ UNCHANGED <<status, completed, session, charged, gap, booked, torn, leg,
                     billed, runs, seen, uploaded>>
  BY DEF StartPlain
<1>2. FilesOf(s) /\ doc'[s].run = runs /\ runs > 0
  BY <1>1, Startable, PutFiles DEF AuditInv, TypeOK
<1>3. s \notin Agents /\ s # "synthesis"
  BY <1>1, AuditAssumption DEF Solo, Plain
<1>4. phase'[s] = "record"
  BY <1>1 DEF Move, AuditInv, TypeOK
<1>5. AtWork(s)' /\ Over(s)'
  BY <1>1, <1>2, <1>3, <1>4, Startable, FilesKept, Numbers
     DEF AtWork, Over, At, OnDisk, GapThere, InSession, FilesOf, AuditInv
<1> QED
  BY <1>1, <1>2, <1>5, FileStep DEF Phases

(* A session begins over files that have just been cleared.                *)
LEMMA SessionBegins ==
  ASSUME AuditInv, NEW s \in Stages, At(s), InputsParse(s), Unread(s),
         s \notin Agents => s \notin completed,
         doc' = [doc EXCEPT ![s] = Absent], Move(s, "session"),
         billed' \in {billed, billed \cup {s}},
         UNCHANGED <<stateFile, gap, costFile, leg, outside>>
  PROVE  AuditInv'
<1> USE DEF stateFile, costFile, outside
<1>1. FilesOf(s) /\ doc'[s].run = 0
  BY ClearFiles
<1>2. phase'[s] = "session"
  BY DEF Move, AuditInv, TypeOK
<1>3. AtWork(s)' /\ Over(s)'
  BY <1>1, <1>2, FilesKept
     DEF AtWork, Over, At, OnDisk, InSession, FilesOf
<1> QED
  BY <1>1, <1>3, FileStep DEF Phases

LEMMA StartKeeps ==
  ASSUME AuditInv, NEW s \in Stages, Start(s)
  PROVE  AuditInv'
BY Startable, SessionBegins DEF Start

LEMMA CrossStartsKeeps ==
  ASSUME AuditInv, NEW s \in Stages, CrossStarts(s)
  PROVE  AuditInv'
<1>1. /\ At(s) /\ s = "synthesis" /\ ~Intact(s) /\ InputsParse(s)
      /\ Move(s, "cross")
      /\ UNCHANGED <<stateFile, doc, gap, costFile, leg, billed, outside>>
  BY DEF CrossStarts, files
<1>2. phase'[s] = "cross"
  BY <1>1 DEF Move, AuditInv, TypeOK
<1>3. UNCHANGED <<doc, completed, booked>>
  BY <1>1 DEF stateFile, costFile
<1>4. AtWork(s)' /\ Over(s)'
  BY <1>1, <1>2, <1>3, Startable, SameFiles DEF AtWork, Over, At, InSession
<1> QED
  BY <1>1, <1>3, <1>4, PhaseStep DEF Phases, costFile, AuditInv, TypeOK

LEMMA CrossEndsKeeps ==
  ASSUME AuditInv, NEW s \in Stages, CrossEnds(s)
  PROVE  AuditInv'
<1>1. AtWork(s) /\ Active(s) /\ s \notin Agents
  BY AuditAssumption DEF CrossEnds, AuditInv, AtWork, Active, Solo
<1> QED
  BY <1>1, SessionBegins DEF CrossEnds, TellsCost, AtWork

LEMMA SessionWritesKeeps ==
  ASSUME AuditInv, NEW s \in Stages, SessionWrites(s)
  PROVE  AuditInv'
<1> USE DEF stateFile, costFile, outside
<1>1. /\ At(s) /\ phase[s] = "session" /\ AtWork(s) /\ Active(s)
      /\ UNCHANGED <<status, completed, session, charged, booked, torn, leg,
                     phase, billed, runs, seen, uploaded>>
  BY DEF SessionWrites, AuditInv, Active
<1>2. Move(s, "session")
  BY <1>1 DEF Move, AuditInv, TypeOK
<1>3. CASE UNCHANGED gap
  <2>1. CASE UNCHANGED doc
    BY <1>1, <1>3, <2>1, Unchanged DEF vars, files
  <2>2. CASE ~UNCHANGED doc
    <3>1. PICK usable \in BOOLEAN : Put(s, usable)
      BY <2>2 DEF SessionWrites
    <3>2. FilesOf(s) /\ doc'[s].run = runs
      BY <1>1, <1>3, <3>1, PutFiles DEF AtWork, AuditInv, TypeOK
    <3>3. AtWork(s)' /\ Over(s)'
      BY <1>1, <3>2, FilesKept DEF AtWork, Over, At, OnDisk, InSession, FilesOf
    <3> QED
      BY <1>1, <1>2, <3>2, <3>3, FileStep DEF Phases
  <2> QED
    BY <2>1, <2>2
<1>4. CASE gap' = TRUE /\ UNCHANGED doc
  <2>1. AtWork(s)' /\ Over(s)'
    BY <1>1, <1>4, SameFiles DEF AtWork, Over, At, InSession
  <2> QED
    BY <1>1, <1>2, <1>4, <2>1, PhaseStep DEF Phases, AuditInv, TypeOK
<1> QED
  BY <1>3, <1>4 DEF SessionWrites

(* A scaffold fills in what is missing and leaves what is there.           *)
LEMMA ScaffoldStep ==
  ASSUME AuditInv, NEW s \in Stages, Active(s), Scaffold(s),
         NEW to \in Phases, Move(s, to),
         billed' \in {billed, billed \cup {s}},
         UNCHANGED <<stateFile, costFile, leg, outside>>,
         \/ s \notin Agents /\ phase[s] = "session" /\ to = "record"
         \/ /\ s \in Agents /\ phase[s] = "scaffold"
            /\ to = Parsing(doc'[s].usable)
  PROVE  AuditInv'
<1> USE DEF stateFile, costFile, outside
<1>1. At(s) /\ AtWork(s)
  BY DEF AuditInv, AtWork
<1>2. phase'[s] = to
  BY DEF Move, AuditInv, TypeOK
<1>5. gap' \in BOOLEAN /\ (gap => gap') /\ GapThere(s)'
  BY DEF Scaffold, GapThere, AuditInv, TypeOK
<1>3. CASE OnDisk(s)
  <2>1. doc' = doc
    BY <1>3 DEF Scaffold
  <2>2. AtWork(s)' /\ Over(s)'
    BY <1>1, <1>2, <1>3, <1>5, <2>1, SameFiles
       DEF AtWork, Active, Over, Intact, Parsing, At, InSession
  <2> QED
    BY <1>1, <1>5, <2>1, <2>2, PhaseStep DEF AuditInv, TypeOK
<1>4. CASE ~OnDisk(s)
  <2>1. PICK usable \in BOOLEAN : Put(s, usable)
    BY <1>4 DEF Scaffold
  <2>2. FilesOf(s) /\ doc'[s].run = runs /\ doc'[s].usable = usable /\ runs > 0
    BY <1>1, <1>5, <2>1, PutFiles DEF AtWork
  <2>3. AtWork(s)' /\ Over(s)'
    BY <1>1, <1>2, <1>5, <2>2, FilesKept, Numbers
       DEF AtWork, Active, Over, Intact, Parsing, At, OnDisk, InSession, FilesOf,
           AuditInv
  <2> QED
    BY <1>1, <2>2, <2>3, FileStep
<1> QED
  BY <1>3, <1>4

(* A session is over, whether its cost is told or not.                     *)
LEMMA SessionOver ==
  ASSUME AuditInv, NEW s \in Stages, AfterSession(s), Move(s, "record"),
         billed' \in {billed, billed \cup {s}}
  PROVE  AuditInv'
<1>1. At(s) /\ phase[s] = "session" /\ Active(s)
      /\ UNCHANGED <<stateFile, costFile, leg, outside>>
  BY DEF AfterSession, Active
<1>2. CASE s \in Agents
  <2>1. UNCHANGED <<doc, gap>>
    BY <1>2 DEF AfterSession, files
  <2>2. phase'[s] = "record"
    BY <1>1 DEF Move, AuditInv, TypeOK
  <2>3. UNCHANGED <<doc, completed, runs>>
    BY <1>1, <2>1 DEF stateFile, outside
  <2>4. AtWork(s)' /\ Over(s)'
    BY <1>1, <1>2, <2>2, <2>3, SameFiles
       DEF AuditInv, AtWork, Active, Over, At, InSession
  <2> QED
    BY <1>1, <2>1, <2>4, PhaseStep DEF AuditInv, TypeOK, costFile, Phases
<1>3. CASE s \notin Agents
  BY <1>1, <1>3, ScaffoldStep DEF AfterSession, Phases
<1> QED
  BY <1>2, <1>3

LEMMA SessionEndsKeeps ==
  ASSUME AuditInv, NEW s \in Stages, SessionEnds(s) \/ FilesTaken(s)
  PROVE  AuditInv'
BY SessionOver DEF SessionEnds, FilesTaken, TellsCost

LEMMA ScaffoldOutputKeeps ==
  ASSUME AuditInv, NEW s \in Stages, ScaffoldOutput(s)
  PROVE  AuditInv'
<1>1. Parsing(doc'[s].usable) \in Phases
  BY DEF Parsing, Phases
<1> QED
  BY <1>1, ScaffoldStep DEF ScaffoldOutput, Active

LEMMA RecordKeeps ==
  ASSUME AuditInv, NEW s \in Stages, RecordStageCost(s)
  PROVE  AuditInv'
<1>1. /\ At(s) /\ phase[s] = "record" /\ Move(s, "mark")
      /\ booked' = IF s \in billed THEN [booked EXCEPT ![s] = runs] ELSE booked
      /\ UNCHANGED <<stateFile, doc, gap, torn, leg, billed, outside>>
  BY DEF RecordStageCost, files
<1>2. phase'[s] = "mark" /\ (s \in billed => booked'[s] = runs)
      /\ booked'[s] \in {booked[s], runs}
      /\ booked' \in [Stages -> 0..MaxRuns]
      /\ \A t \in Stages \ {s} : booked'[t] = booked[t]
  BY <1>1 DEF Move, AuditInv, TypeOK, outside
<1>3. AtWork(s)' /\ Over(s)'
  BY <1>1, <1>2, SameFiles
     DEF AuditInv, AtWork, Active, Over, At, InSession, GapThere, stateFile, outside
<1> QED
  BY <1>1, <1>2, <1>3, PhaseStep DEF Phases, AuditInv, TypeOK

(* A stage that is marked has its files from this run, unless it is an     *)
(* agent whose file is still to be seen to.                                *)
LEMMA MarkKeeps ==
  ASSUME AuditInv, NEW s \in Stages, MarkStageComplete(s)
  PROVE  AuditInv'
<1>1. /\ At(s) /\ phase[s] = "mark"
      /\ completed' = completed \cup {s}
      /\ session' = [session EXCEPT ![s] = runs]
      /\ charged' = IF s \in billed THEN charged \cup {s} ELSE charged \ {s}
      /\ UNCHANGED <<status, doc, gap, booked, torn, leg, billed, runs, seen,
                     uploaded>>
  BY DEF MarkStageComplete, costFile, outside, files
<1>2. AtWork(s) /\ Active(s)
  BY <1>1 DEF AuditInv, Active
<1>3. /\ phase'[s] = IF s \in Agents THEN "scaffold" ELSE "done"
      /\ session'[s] = runs
      /\ \A t \in Stages \ {s} : phase'[t] = phase[t] /\ session'[t] = session[t]
  BY <1>1 DEF MarkStageComplete, Move, AuditInv, TypeOK
<1>4. TypeOK'
  BY <1>1, <1>2 DEF MarkStageComplete, Move, AuditInv, TypeOK, Phases
<1>5. NoStaleOutput'
  <2>1. OnDisk(s) => doc[s].run = runs
    BY <1>1, <1>2, Numbers DEF AtWork, OnDisk, AuditInv
  <2>2. s \notin Agents => OnDisk(s)
    BY <1>1, <1>2 DEF AtWork, InSession
  <2> QED
    BY <1>1, <1>3, <2>1, <2>2, Numbers DEF AuditInv, NoStaleOutput, OnDisk, TypeOK
<1>6. \A t \in Stages : Sound(t) => Sound(t)'
  BY <1>1 DEF Sound, OnDisk
<1>7. ChainCurrent'
  BY <1>1, <1>2, <1>6 DEF AuditInv, ChainCurrent, AtWork, OnDisk, TypeOK
<1>8. BooksBeforeMarks'
  <2>1. s \in charged' /\ ~torn => booked[s] = runs
    BY <1>1, <1>2 DEF AtWork
  <2> QED
    BY <1>1, <1>3, <2>1, Numbers DEF AuditInv, BooksBeforeMarks, TypeOK
<1>9. PublishedAsRendered' /\ Behind'
  <2>1. leg # 0
    BY <1>1, Places DEF At
  <2>2. s = "synthesis" => gap
    BY <1>1, <1>2, AuditAssumption DEF AtWork, InSession, GapThere, Solo
  <2> QED
    BY <1>1, <2>1, <2>2 DEF AuditInv, PublishedAsRendered, Behind
<1>10. \A t \in Stages : Active(t) => Unread(t)'
  <2> SUFFICES ASSUME NEW t \in Stages, Active(t), NEW v \in completed',
                      t \in Reads(v), OnDisk(v)'
               PROVE  t \in Agents /\ doc'[v].from[t] = 0
    BY DEF Unread
  <2>1. v \in completed
    BY <1>1, <1>2, Sources, Numbers, Places DEF AuditInv, AtWork, At
  <2> QED
    BY <1>1, <2>1 DEF AuditInv, AtWork, Unread, OnDisk
<1>11. AtWork(s)' /\ Over(s)'
  BY <1>1, <1>2, <1>3, <1>6, <1>10
     DEF AtWork, Active, Over, Intact, At, OnDisk, InputsParse, InSession, GapThere
<1>12. \A t \in Stages \ {s} : AtWork(t)' /\ Over(t)'
  <2> SUFFICES ASSUME NEW t \in Stages \ {s} PROVE AtWork(t)' /\ Over(t)'
    OBVIOUS
  <2> QED
    BY <1>1, <1>3, <1>6, <1>10
       DEF AuditInv, AtWork, Active, Over, Intact, At, OnDisk, InputsParse,
           InSession, GapThere
<1>13. \A t \in Stages : Past(t)'
  BY <1>1, <1>3, Numbers DEF AuditInv, Past
<1> QED
  BY <1>4, <1>5, <1>7, <1>8, <1>9, <1>11, <1>12, <1>13 DEF AuditInv

-----------------------------------------------------------------------------
(* The end of a run, however it comes.                                     *)
LEMMA RunOver ==
  ASSUME AuditInv, EndRun, UNCHANGED <<status, completed, session, gap, runs>>,
         TypeOK', NoStaleOutput', ChainCurrent', BooksBeforeMarks',
         PublishedAsRendered',
         seen' # {} => {"intake", "warmup", "prediscovery", "brief"}
                         \subseteq completed,
         "ship" \in seen' => "deliverable" \in completed,
         seen \subseteq seen',
         \A s \in Stages : doc'[s].run <= runs /\ booked'[s] <= runs
  PROVE  AuditInv'
<1>1. leg' = 0 /\ \A s \in Stages : phase'[s] = "waiting"
  BY DEF EndRun
<1>2. \A s \in Stages : AtWork(s)' /\ Over(s)'
  BY <1>1 DEF AtWork, Active, Over
<1>3. \A s \in Stages : Past(s)'
  BY DEF AuditInv, Past
<1>4. Behind'
  <2>1. \A s \in Solo : ~(leg' > LegOf(s))
    BY <1>1, Places DEF Stages
  <2>2. status' # "pending" => seen' # {}
    BY DEF AuditInv, Behind
  <2> QED
    BY <1>1, <2>1, <2>2 DEF AuditInv, Behind
<1> QED
  BY <1>2, <1>3, <1>4 DEF AuditInv

LEMMA KillKeeps ==
  ASSUME AuditInv, EndRun, UNCHANGED <<stateFile, files, costFile, outside>>
  PROVE  AuditInv'
<1> USE DEF stateFile, files, costFile, outside
<1>1. TypeOK'
  BY DEF AuditInv, TypeOK, EndRun, Phases
<1>2. NoStaleOutput' /\ ChainCurrent' /\ BooksBeforeMarks' /\ PublishedAsRendered'
  BY DEF AuditInv, NoStaleOutput, ChainCurrent, Sound, OnDisk, BooksBeforeMarks,
         PublishedAsRendered
<1> QED
  BY <1>1, <1>2, RunOver DEF AuditInv, Behind, Past

LEMMA RaiseKeeps ==
  ASSUME AuditInv, NEW s \in Stages, At(s), Raise(s),
         UNCHANGED <<stateFile, files, costFile, outside>>
  PROVE  AuditInv'
<1>1. CASE s \in Agents /\ InputsParse(s)
  <2>1. Move(s, "failed") /\ UNCHANGED <<leg, billed>>
    BY <1>1 DEF Raise
  <2>2. phase'[s] = "failed"
    BY <2>1 DEF Move, AuditInv, TypeOK
  <2>3. AtWork(s)' /\ Over(s)'
    BY <1>1, <2>2 DEF AtWork, Active, Over
  <2> QED
    BY <2>1, <2>3, PhaseStep DEF Phases, costFile, files, AuditInv, TypeOK
<1>2. CASE ~(s \in Agents /\ InputsParse(s))
  BY <1>2, KillKeeps DEF Raise
<1> QED
  BY <1>1, <1>2

LEMMA FailsKeeps ==
  ASSUME AuditInv, NEW s \in Stages, SessionFails(s) \/ StageRaises(s)
  PROVE  AuditInv'
BY RaiseKeeps DEF SessionFails, StageRaises

LEMMA KillInCostsKeeps ==
  ASSUME AuditInv, NEW s \in Stages, KillInCosts(s)
  PROVE  AuditInv'
<1>1. EndRun /\ torn' = TRUE /\ booked' = [t \in Stages |-> 0]
      /\ UNCHANGED <<status, completed, session, charged, doc, gap, runs, seen,
                     uploaded>>
  BY DEF KillInCosts, stateFile, files, outside
<1>2. TypeOK'
  <2>1. 0 \in 0..MaxRuns
    BY AuditAssumption
  <2>2. booked' \in [Stages -> 0..MaxRuns]
    BY <1>1, <2>1
  <2> QED
    BY <1>1, <2>2 DEF AuditInv, TypeOK, EndRun, Phases
<1>3. NoStaleOutput' /\ ChainCurrent' /\ BooksBeforeMarks' /\ PublishedAsRendered'
  BY <1>1 DEF AuditInv, NoStaleOutput, ChainCurrent, Sound, OnDisk,
              BooksBeforeMarks, PublishedAsRendered
<1> QED
  BY <1>1, <1>2, <1>3, RunOver, Numbers DEF AuditInv, Behind, Past

LEMMA KillInOutputKeeps ==
  ASSUME AuditInv, NEW s \in Stages, KillInOutput(s)
  PROVE  AuditInv'
<1> USE DEF stateFile, costFile, outside
<1>1. At(s) /\ s \in Agents /\ Active(s) /\ Put(s, FALSE) /\ EndRun
      /\ UNCHANGED <<status, completed, session, charged, gap, booked, torn, runs,
                     seen, uploaded>>
  BY DEF KillInOutput, Active
<1>2. FilesOf(s) /\ doc'[s].run = runs
  BY <1>1, PutFiles DEF AuditInv, AtWork, TypeOK
<1>3. TypeOK'
  BY <1>1, <1>2 DEF AuditInv, TypeOK, EndRun, Phases, FilesOf
<1>4. NoStaleOutput' /\ ChainCurrent'
  BY <1>2, FilesKept
<1>5. BooksBeforeMarks' /\ PublishedAsRendered'
  BY <1>1 DEF AuditInv, BooksBeforeMarks, PublishedAsRendered
<1>6. \A t \in Stages : doc'[t].run <= runs
  BY <1>2, Numbers DEF FilesOf, AuditInv, Past
<1> QED
  BY <1>1, <1>3, <1>4, <1>5, <1>6, RunOver DEF AuditInv, Behind, Past

LEMMA HaltAtGateKeeps ==
  ASSUME AuditInv, HaltAtGate
  PROVE  AuditInv'
<1> USE DEF stateFile, files, costFile
<1>1. /\ leg \in {4, 8} /\ LegDone /\ EndRun
      /\ seen' = seen \cup {IF leg = 4 THEN "intake" ELSE "ship"}
      /\ UNCHANGED <<status, completed, session, charged, doc, gap, booked, torn,
                     runs, uploaded>>
  BY DEF HaltAtGate
<1>2. \A s \in Solo : LegOf(s) = leg => s \in completed
  <2> SUFFICES ASSUME NEW s \in Solo, LegOf(s) = leg PROVE s \in completed
    OBVIOUS
  <2>1. s \in Stages /\ s \notin Agents /\ phase[s] \in {"done", "failed"}
    BY <1>1, Places DEF LegDone, At, Stages
  <2> QED
    BY <2>1 DEF AuditInv, Over, Intact
<1>3. {"intake", "warmup", "prediscovery", "brief"} \subseteq completed
  <2>1. "brief" \in completed
    BY <1>1, <1>2, Places, Numbers DEF AuditInv, Behind
  <2>2. \A s \in {"intake", "warmup", "prediscovery"} : s \in Solo /\ leg > LegOf(s)
    BY <1>1 DEF LegOf, Solo, Plain
  <2> QED
    BY <2>1, <2>2 DEF AuditInv, Behind
<1>4. leg = 8 => "deliverable" \in completed
  BY <1>2, Places
<1>5. TypeOK'
  BY <1>1 DEF AuditInv, TypeOK, EndRun, Phases
<1>6. NoStaleOutput' /\ ChainCurrent' /\ BooksBeforeMarks' /\ PublishedAsRendered'
  BY <1>1 DEF AuditInv, NoStaleOutput, ChainCurrent, Sound, OnDisk,
              BooksBeforeMarks, PublishedAsRendered
<1> QED
  BY <1>1, <1>3, <1>4, <1>5, <1>6, RunOver DEF AuditInv, Behind, Past

-----------------------------------------------------------------------------
(* The steps of a run as a whole, and those of the operator.               *)
LEMMA ProceedKeeps ==
  ASSUME AuditInv, Proceed
  PROVE  AuditInv'
<1> USE DEF stateFile, files, costFile, outside
<1>1. /\ leg \in {1, 2, 3, 5, 6, 7} /\ LegDone /\ leg' = leg + 1
      /\ UNCHANGED <<status, completed, session, charged, doc, gap, booked, torn,
                     phase, billed, runs, seen, uploaded>>
  BY DEF Proceed
<1>2. TypeOK'
  BY <1>1 DEF AuditInv, TypeOK
<1>3. NoStaleOutput' /\ ChainCurrent' /\ BooksBeforeMarks' /\ PublishedAsRendered'
  BY <1>1 DEF AuditInv, NoStaleOutput, ChainCurrent, Sound, OnDisk,
              BooksBeforeMarks, PublishedAsRendered
<1>4. \A s \in Stages : ~Active(s)
  BY <1>1 DEF LegDone, Active, AuditInv, AtWork
<1>5. \A s \in Stages : AtWork(s)' /\ Over(s)' /\ Past(s)'
  BY <1>1, <1>4 DEF AuditInv, AtWork, Active, Over, Past, Intact, OnDisk, GapThere
<1>6. \A s \in Solo : leg' > LegOf(s) => s \in completed
  <2> SUFFICES ASSUME NEW s \in Solo, leg' > LegOf(s) PROVE s \in completed
    OBVIOUS
  <2>1. s \in Stages /\ s \notin Agents /\ LegOf(s) \in 1..8
    BY Places DEF Stages
  <2>2. CASE leg > LegOf(s)
    BY <2>2 DEF AuditInv, Behind
  <2>3. CASE leg = LegOf(s)
    BY <1>1, <2>1, <2>3 DEF LegDone, At, AuditInv, Over, Intact
  <2> QED
    BY <1>1, <2>1, <2>2, <2>3
<1>7. Behind'
  BY <1>1, <1>6 DEF AuditInv, Behind
<1> QED
  BY <1>2, <1>3, <1>5, <1>7 DEF AuditInv

LEMMA RunKeeps ==
  ASSUME AuditInv, Run
  PROVE  AuditInv'
<1> USE DEF stateFile, files, costFile
<1>1. /\ leg = 0 /\ runs < MaxRuns /\ status # "brief_confirmed"
      /\ runs' = runs + 1
      /\ leg' = IF status \in {"paid", "published"} THEN 5 ELSE 1
      /\ UNCHANGED <<status, completed, session, charged, doc, gap, booked, torn,
                     phase, billed, seen, uploaded>>
  BY DEF Run
<1>2. \A s \in Stages : phase[s] = "waiting"
  BY <1>1 DEF AuditInv, Behind
<1>3. TypeOK'
  <2>1. runs' \in 0..MaxRuns
    BY <1>1, Numbers DEF AuditInv
  <2> QED
    BY <1>1, <2>1 DEF AuditInv, TypeOK
<1>4. NoStaleOutput' /\ ChainCurrent' /\ BooksBeforeMarks' /\ PublishedAsRendered'
  BY <1>1 DEF AuditInv, NoStaleOutput, ChainCurrent, Sound, OnDisk,
              BooksBeforeMarks, PublishedAsRendered
<1>5. \A s \in Stages : AtWork(s)' /\ Over(s)'
  BY <1>1, <1>2 DEF AtWork, Active, Over
<1>6. \A s \in Stages : Past(s)'
  BY <1>1, Numbers DEF AuditInv, Past
<1>7. Behind'
  <2>1. leg' # 0 /\ runs' # 0
    BY <1>1, Numbers DEF AuditInv
  <2>2. leg' = 1 => \A s \in Solo : ~(leg' > LegOf(s))
    BY Places DEF Stages
  <2>3. leg' = 5 => \A s \in Solo : leg' > LegOf(s) => s \in completed
    <3> SUFFICES ASSUME leg' = 5, NEW s \in Solo, leg' > LegOf(s)
                 PROVE  s \in completed
      OBVIOUS
    <3>1. LegOf(s) <= 4
      BY Places DEF Stages
    <3>2. seen # {}
      BY <1>1 DEF AuditInv, Behind
    <3> QED
      BY <3>1, <3>2, Places DEF AuditInv, Behind
  <2> QED
    BY <1>1, <2>1, <2>2, <2>3 DEF AuditInv, Behind
<1> QED
  BY <1>3, <1>4, <1>5, <1>6, <1>7 DEF AuditInv

LEMMA OperatorKeeps ==
  ASSUME AuditInv, Operator
  PROVE  AuditInv'
<1> USE DEF stateFile, files, costFile
<1>1. leg = 0 /\ UNCHANGED <<doc, gap, booked, torn, leg, phase, billed, runs>>
  BY DEF Operator, ConfirmBrief, MarkPaid, CloseEngagement, Publish, Gate, Reinit
<1>2. \A s \in Stages : phase[s] = "waiting"
  BY <1>1 DEF AuditInv, Behind
<1>3. \A s \in Stages : AtWork(s)' /\ Over(s)'
  BY <1>1, <1>2 DEF AtWork, Active, Over
<1>4. CASE ~Reinit
  <2>1. /\ UNCHANGED <<completed, session, charged, seen>>
        /\ status' \in Statuses /\ seen # {}
    BY <1>4 DEF Operator, ConfirmBrief, MarkPaid, CloseEngagement, Publish, Gate,
                Statuses, AuditInv, Behind
  <2>2. \/ UNCHANGED uploaded
        \/ /\ "ship" \in seen
           /\ uploaded' = [prefix |-> session["deliverable"],
                           html   |-> doc["deliverable"].run]
    BY <1>4 DEF Operator, ConfirmBrief, MarkPaid, CloseEngagement, Publish
  <2>3. "deliverable" \in Stages /\ "deliverable" \notin Agents
    BY AuditAssumption DEF Stages, Solo, Plain
  <2>4. PublishedAsRendered'
    <3>1. CASE UNCHANGED uploaded
      BY <3>1 DEF AuditInv, PublishedAsRendered
    <3>2. CASE ~UNCHANGED uploaded
      BY <2>2, <2>3, <3>2 DEF AuditInv, Behind, NoStaleOutput, PublishedAsRendered
    <3> QED
      BY <3>1, <3>2
  <2>5. TypeOK'
    <3>1. uploaded' \in [prefix : 0..MaxRuns, html : 0..MaxRuns]
      BY <2>2, <2>3 DEF AuditInv, TypeOK, Docs
    <3> QED
      BY <1>1, <2>1, <3>1 DEF AuditInv, TypeOK
  <2>6. NoStaleOutput' /\ ChainCurrent' /\ BooksBeforeMarks'
    BY <1>1, <2>1 DEF AuditInv, NoStaleOutput, ChainCurrent, Sound, OnDisk,
                      BooksBeforeMarks
  <2>7. \A s \in Stages : Past(s)'
    BY <1>1, <2>1 DEF AuditInv, Past
  <2>8. Behind'
    BY <1>1, <2>1 DEF AuditInv, Behind
  <2> QED
    BY <1>3, <2>4, <2>5, <2>6, <2>7, <2>8 DEF AuditInv
<1>5. CASE Reinit
  <2>1. /\ status' = "pending" /\ completed' = {} /\ seen' = {} /\ charged' = {}
        /\ session' = [s \in Stages |-> 0] /\ UNCHANGED uploaded
    BY <1>5 DEF Reinit
  <2>2. TypeOK'
    <3>1. 0 \in 0..MaxRuns
      BY AuditAssumption
    <3>2. session' \in [Stages -> 0..MaxRuns]
      BY <2>1, <3>1
    <3> QED
      BY <1>1, <2>1, <3>2 DEF AuditInv, TypeOK, Statuses
  <2>3. NoStaleOutput' /\ ChainCurrent' /\ BooksBeforeMarks' /\ PublishedAsRendered'
    BY <1>1, <2>1 DEF AuditInv, NoStaleOutput, ChainCurrent, BooksBeforeMarks,
                      PublishedAsRendered
  <2>4. \A s \in Stages : Past(s)'
    BY <1>1, <2>1, Numbers DEF AuditInv, Past
  <2>5. Behind'
    <3>1. \A s \in Solo : ~(leg' > LegOf(s))
      BY <1>1, Places DEF Stages
    <3> QED
      BY <1>1, <1>2, <2>1, <3>1 DEF Behind
  <2> QED
    BY <1>3, <2>2, <2>3, <2>4, <2>5 DEF AuditInv
<1> QED
  BY <1>4, <1>5

LEMMA InitHolds == Init => AuditInv
<1> SUFFICES ASSUME Init PROVE AuditInv
  OBVIOUS
<1>1. 0 \in 0..MaxRuns
  BY AuditAssumption
<1>2. Absent \in Docs /\ Absent.run = 0
  <2>1. [u \in Stages |-> 0] \in [Stages -> 0..MaxRuns]
    BY <1>1
  <2> QED
    BY <1>1, <2>1 DEF Absent, Docs
<1>3. TypeOK
  <2>1. /\ session \in [Stages -> 0..MaxRuns] /\ booked \in [Stages -> 0..MaxRuns]
        /\ doc \in [Stages -> Docs] /\ phase \in [Stages -> Phases]
    BY <1>1, <1>2 DEF Init, Phases
  <2>2. /\ leg \in 0..8 /\ runs \in 0..MaxRuns
        /\ uploaded \in [prefix : 0..MaxRuns, html : 0..MaxRuns]
    BY <1>1 DEF Init
  <2>3. /\ torn \in BOOLEAN /\ gap \in BOOLEAN /\ charged \subseteq Stages
        /\ billed \subseteq Stages /\ status \in Statuses /\ completed \subseteq Stages
        /\ seen \subseteq {"intake", "ship"}
    BY DEF Init, Statuses
  <2> QED
    BY <2>1, <2>2, <2>3 DEF TypeOK
<1>4. NoStaleOutput /\ ChainCurrent /\ BooksBeforeMarks /\ PublishedAsRendered
  BY DEF Init, NoStaleOutput, ChainCurrent, BooksBeforeMarks, PublishedAsRendered
<1>5. Behind
  <2>1. leg = 0
    BY DEF Init
  <2>2. \A s \in Solo : ~(leg > LegOf(s))
    <3>1. \A s \in Solo : LegOf(s) \in 1..8
      BY Places DEF Stages
    <3> QED
      BY <2>1, <3>1
  <2> QED
    BY <2>2 DEF Init, Behind
<1>6. \A s \in Stages : AtWork(s) /\ Over(s) /\ Past(s)
  BY <1>2 DEF Init, AtWork, Active, Over, Past
<1> QED
  BY <1>3, <1>4, <1>5, <1>6 DEF AuditInv

(***************************************************************************)
(* Whatever step a process dies at, whatever a session leaves out and      *)
(* however often the audit is begun again (stages.py), the strengthened    *)
(* invariant holds.                                                        *)
(***************************************************************************)
THEOREM AuditInvariant == Spec => []AuditInv
<1>1. AuditInv /\ [Next]_vars => AuditInv'
  <2> SUFFICES ASSUME AuditInv, [Next]_vars PROVE AuditInv'
    OBVIOUS
  <2>1. CASE Run
    BY <2>1, RunKeeps
  <2>2. CASE Proceed
    BY <2>2, ProceedKeeps
  <2>3. CASE HaltAtGate
    BY <2>3, HaltAtGateKeeps
  <2>4. CASE \E s \in Stages : StageStep(s)
    BY <2>4, SkipKeeps, StartPlainKeeps, StartKeeps, CrossStartsKeeps, RecordKeeps,
       MarkKeeps, ScaffoldOutputKeeps, FailsKeeps DEF StageStep
  <2>5. CASE Kill
    BY <2>5, KillKeeps DEF Kill
  <2>6. CASE Operator
    BY <2>6, OperatorKeeps
  <2>7. CASE \E s \in Stages : SessionStep(s) \/ KillInCosts(s) \/ KillInOutput(s)
    BY <2>7, SessionWritesKeeps, CrossEndsKeeps, SessionEndsKeeps, FailsKeeps,
       KillInCostsKeeps, KillInOutputKeeps DEF SessionStep
  <2>8. CASE UNCHANGED vars
    BY <2>8, Unchanged
  <2> QED
    BY <2>1, <2>2, <2>3, <2>4, <2>5, <2>6, <2>7, <2>8 DEF Next, Advance
<1> QED
  BY <1>1, InitHolds, PTL DEF Spec

(* The state of an audit is well-typed.                                    *)
THEOREM AuditTypes == Spec => []TypeOK
<1>1. AuditInv => TypeOK
  BY DEF AuditInv
<1> QED
  BY <1>1, AuditInvariant, PTL

(* The files of a complete stage are those of the session state.json names *)
(* (stages.py: what is cleared before a session, and AgentRunner), but for *)
(* gap_report.md, which is never cleared.                                  *)
THEOREM NoStaleOutputHolds == Spec => []NoStaleOutput
<1>1. AuditInv => NoStaleOutput
  BY DEF AuditInv
<1> QED
  BY <1>1, AuditInvariant, PTL

(* A complete stage was made from the files that are there, of stages that *)
(* are complete (stage_3_synthesis to stage_5_deliverable).                *)
THEOREM ChainCurrentHolds == Spec => []ChainCurrent
<1>1. AuditInv => ChainCurrent
  BY DEF AuditInv
<1> QED
  BY <1>1, AuditInvariant, PTL

(* What state.json says a complete stage has cost is in a readable         *)
(* cost_actual.json (record_stage_cost before mark_stage_complete).        *)
THEOREM BooksBeforeMarksHolds == Spec => []BooksBeforeMarks
<1>1. AuditInv => BooksBeforeMarks
  BY DEF AuditInv
<1> QED
  BY <1>1, AuditInvariant, PTL

(* The customer's link and the report under it name the same slug          *)
(* (stage_5_deliverable, ma_publish).                                      *)
THEOREM PublishedAsRenderedHolds == Spec => []PublishedAsRendered
<1>1. AuditInv => PublishedAsRendered
  BY DEF AuditInv
<1> QED
  BY <1>1, AuditInvariant, PTL

(***************************************************************************)
(* Resuming is idempotent: a step of a later run leaves the files of a     *)
(* complete stage alone (is_stage_complete, and the order in which         *)
(* _run_one_agent marks and scaffolds).                                    *)
(***************************************************************************)
THEOREM CompletedStaysHolds == Spec => CompletedStays
<1> DEFINE Stays == \A s \in completed \cap completed' :
                      OnDisk(s) /\ phase[s] # "session" => doc'[s] = doc[s]
<1>1. ASSUME AuditInv, [Next]_vars PROVE [Stays]_vars
  <2> SUFFICES ASSUME Next, NEW s \in completed \cap completed', OnDisk(s),
                      phase[s] # "session", doc'[s] # doc[s]
               PROVE  FALSE
    BY <1>1 DEF vars
  <2>1. s \in Stages /\ doc \in [Stages -> Docs]
    BY <1>1 DEF AuditInv, TypeOK
  <2>2. \A t \in Stages : \A usable : Put(t, usable) => t = s
    BY <2>1 DEF Put
  <2>3. \A t \in Stages : ~(StartPlain(t) \/ Start(t) \/ CrossEnds(t))
    <3> SUFFICES ASSUME NEW t \in Stages, StartPlain(t) \/ Start(t) \/ CrossEnds(t)
                 PROVE  FALSE
      OBVIOUS
    <3>1. t = s
      BY <2>1, <2>2 DEF StartPlain, Start, CrossEnds
    <3>2. Intact(s)
      BY <1>1 DEF AuditInv, Behind, Intact, GapThere
    <3>3. phase[s] # "cross"
      BY <1>1, <2>1, AuditAssumption DEF AuditInv, AtWork, Active, Solo
    <3> QED
      BY <3>1, <3>2, <3>3 DEF StartPlain, Start, CrossEnds
  <2>4. \A t \in Stages : Scaffold(t) => FALSE
    BY <2>2 DEF Scaffold
  <2>5. \A t \in Stages : ~SessionWrites(t) /\ ~KillInOutput(t)
    BY <2>2 DEF SessionWrites, KillInOutput
  <2>6. doc' # doc
    OBVIOUS
  <2> QED
    BY <2>3, <2>4, <2>5, <2>6
       DEF Next, Run, Advance, Proceed, HaltAtGate, StageStep, SessionStep, Skip,
           CrossStarts, AfterSession, SessionEnds, FilesTaken, SessionFails,
           RecordStageCost, MarkStageComplete, ScaffoldOutput, StageRaises, Kill,
           KillInCosts, Operator, ConfirmBrief, MarkPaid, CloseEngagement, Publish,
           Gate, Reinit, files
<1> QED
  BY <1>1, AuditInvariant, PTL DEF Spec, CompletedStays

================================================================================
