--------------------------- MODULE EvolutionProofs ----------------------------
(***************************************************************************)
(* Theorems about the evolution commands, for any number of lanes working  *)
(* at once, any bound and any schedule of kills and restarts.              *)
(***************************************************************************)
EXTENDS EvolutionProperties, TLAPS

(* What a command starts from and falls back to is well formed.            *)
LEMMA InitialCopies == Lineage0 \in Lineage /\ Heads0 \in Manifest /\ 1 \in Variants
  BY ArchiveAssumption DEF Lineage0, Lineage, Known, Absent, Heads0, Manifest, Seed,
     Variants, NoVariant, Moments, SearchScores

(* The end of a command leaves every local well formed.                    *)
LEMMA EndTypes ==
  ASSUME LocalsOK, StageInv, NEW l \in Lanes, End(l)
  PROVE  LocalsOK' /\ StageInv'
<1> USE InitialCopies, RunAssumption DEF LocalsOK, End, Goto
<1>1. LocalsOK'
  BY DEF Stage, Scoring, Promoting
<1>2. StageInv'
  BY DEF StageInv
<1> QED
  BY <1>1, <1>2

(* A baseline is a variant or none.                                        *)
LEMMA BaselineType ==
  ASSUME FilesOK, NEW l \in Lanes, NEW v, NEW b \in Baselines(l, v)
  PROVE  b \in Variants \cup {NoVariant}
  BY DEF FilesOK, Manifest, Baselines, PromotionBaselines, Promoted, Latest

(***************************************************************************)
(* One lemma per action: it leaves the files, the logs and the locals well *)
(* formed, and the next stage with what it needs.                          *)
(***************************************************************************)

LEMMA TypeStartRun ==
  ASSUME TypeInv, NEW l \in Lanes, StartRun(l)
  PROVE  TypeInv'
<1> USE DEF TypeInv, TypeOK, StartRun, Launch, ToScore
<1>1. FilesOK'
  BY DEF FilesOK, fileVars
<1>2. LogsOK'
  BY RunAssumption DEF LogsOK, logVars, ghostVars
<1>3. LocalsOK'
  <2>1. heads[l] \in Variants /\ 1 \in 0 .. MaxGeneration + 1
    BY RunAssumption DEF FilesOK, Manifest
  <2>2. CASE Goto(l, "loop") /\ UNCHANGED <<variant, cause>>
    BY <2>1, <2>2 DEF LocalsOK, Goto, Stage
  <2>3. CASE ToScore(l, heads[l], "seed")
    BY <2>1, <2>3 DEF LocalsOK, Goto, Stage, Scoring
  <2> QED
    BY <2>2, <2>3
<1>4. StageInv'
  <2>1. heads[l] \in Variants
    BY DEF FilesOK, Manifest
  <2>2. CASE BaselineSeeded(lineage, heads[l], l)
    BY <2>2, RunAssumption DEF LocalsOK, StageInv, Goto, Scoring
  <2>3. CASE ~BaselineSeeded(lineage, heads[l], l)
    BY <2>1, <2>3, RunAssumption DEF LocalsOK, StageInv, Goto, Scoring
  <2> QED
    BY <2>2, <2>3
<1> QED
  BY <1>1, <1>2, <1>3, <1>4

LEMMA TypeStartResume ==
  ASSUME TypeInv, NEW l \in Lanes, StartResume(l)
  PROVE  TypeInv'
<1> USE DEF TypeInv, TypeOK, StartResume, Launch, ToScore
<1>1. FilesOK'
  BY DEF FilesOK, fileVars
<1>2. LogsOK'
  BY RunAssumption DEF LogsOK, logVars, ghostVars
<1>3. LocalsOK'
  BY RunAssumption DEF FilesOK, Manifest, LocalsOK, Goto, Stage, Scoring
<1>4. StageInv'
  BY RunAssumption DEF FilesOK, Manifest, LocalsOK, StageInv, Goto, Scoring
<1> QED
  BY <1>1, <1>2, <1>3, <1>4

LEMMA TypeStartPromote ==
  ASSUME TypeInv, NEW l \in Lanes, StartPromote(l)
  PROVE  TypeInv'
<1> USE DEF TypeInv, TypeOK, StartPromote, Launch, ToPromotion
<1>1. FilesOK'
  BY DEF FilesOK, fileVars
<1>2. LogsOK'
  BY RunAssumption DEF LogsOK, logVars, ghostVars
<1>3. LocalsOK'
  BY RunAssumption DEF LocalsOK, StageInv, localVars, Goto, Stage, Scoring, Promoting
<1>4. StageInv'
  BY RunAssumption DEF LocalsOK, StageInv, localVars, Goto, Scoring
<1> QED
  BY <1>1, <1>2, <1>3, <1>4

LEMMA TypeStartUndo ==
  ASSUME TypeInv, NEW l \in Lanes, StartUndo(l)
  PROVE  TypeInv'
<1> USE DEF TypeInv, TypeOK, StartUndo, Launch, ToPromotion, PreviousPromoted, Promoted, Latest
<1>1. FilesOK'
  BY DEF FilesOK, fileVars
<1>2. LogsOK'
  BY RunAssumption DEF LogsOK, logVars, ghostVars
<1>3. LocalsOK'
  BY RunAssumption DEF LocalsOK, StageInv, localVars, Goto, Stage, Scoring, Promoting
<1>4. StageInv'
  BY RunAssumption DEF LocalsOK, StageInv, localVars, Goto, Scoring
<1> QED
  BY <1>1, <1>2, <1>3, <1>4

LEMMA TypeDie ==
  ASSUME TypeInv, NEW l \in Lanes, Die(l)
  PROVE  TypeInv'
<1> USE DEF TypeInv, TypeOK, Die
<1>1. FilesOK'
  BY DEF FilesOK, fileVars
<1>2. LogsOK'
  BY DEF LogsOK, LocalsOK, logVars
<1>3. LocalsOK'
  BY EndTypes, RunAssumption DEF LocalsOK, StageInv, localVars, Goto, Stage, Scoring, Promoting
<1>4. StageInv'
  BY EndTypes, RunAssumption DEF LocalsOK, StageInv, localVars, Goto, Scoring
<1> QED
  BY <1>1, <1>2, <1>3, <1>4

LEMMA TypeCloneParent ==
  ASSUME TypeInv, NEW l \in Lanes, CloneParent(l)
  PROVE  TypeInv'
<1> USE DEF TypeInv, TypeOK, CloneParent, GenerationsLeft, Parents, TopScored
<1>1. FilesOK'
  BY DEF FilesOK, fileVars
<1>2. LogsOK'
  BY DEF LogsOK, logVars, operatorVars, ghostVars
<1>3. LocalsOK'
  BY RunAssumption DEF FilesOK, LocalsOK, Goto, Stage
<1>4. StageInv'
  BY RunAssumption DEF LocalsOK, StageInv, localVars, Goto, Scoring
<1> QED
  BY <1>1, <1>2, <1>3, <1>4

LEMMA TypeRejectVariant ==
  ASSUME TypeInv, NEW l \in Lanes, RejectVariant(l)
  PROVE  TypeInv'
<1> USE DEF TypeInv, TypeOK, RejectVariant, DiscardVariant, NextGeneration
<1>1. FilesOK'
  BY DEF FilesOK, fileVars
<1>2. LogsOK'
  BY DEF LogsOK, logVars, operatorVars, ghostVars
<1>3. LocalsOK'
  BY RunAssumption DEF LocalsOK, StageInv, localVars, Goto, Stage, Scoring, Promoting
<1>4. StageInv'
  BY RunAssumption DEF LocalsOK, StageInv, localVars, Goto, Scoring
<1> QED
  BY <1>1, <1>2, <1>3, <1>4

LEMMA TypeAcceptVariant ==
  ASSUME TypeInv, NEW l \in Lanes, AcceptVariant(l)
  PROVE  TypeInv'
<1> USE DEF TypeInv, TypeOK, AcceptVariant, ToScore
<1>1. FilesOK'
  BY DEF FilesOK, fileVars
<1>2. LogsOK'
  BY DEF LogsOK, logVars, operatorVars, ghostVars
<1>3. LocalsOK'
  BY RunAssumption DEF LocalsOK, StageInv, localVars, Goto, Stage, Scoring, Promoting
<1>4. StageInv'
  BY RunAssumption DEF LocalsOK, StageInv, localVars, Goto, Scoring
<1> QED
  BY <1>1, <1>2, <1>3, <1>4

LEMMA TypeReadLineage ==
  ASSUME TypeInv, NEW l \in Lanes, ReadLineage(l)
  PROVE  TypeInv'
<1> USE DEF TypeInv, TypeOK, ReadLineage
<1>1. FilesOK'
  BY DEF FilesOK, fileVars
<1>2. LogsOK'
  BY DEF LogsOK, logVars, operatorVars, ghostVars
<1>3. LocalsOK'
  BY DEF FilesOK, LocalsOK, Goto, Stage
<1>4. StageInv'
  BY RunAssumption DEF LocalsOK, StageInv, localVars, Goto, Scoring
<1> QED
  BY <1>1, <1>2, <1>3, <1>4

LEMMA TypeAppendEntry ==
  ASSUME TypeInv, NEW l \in Lanes, AppendEntry(l)
  PROVE  TypeInv'
<1> USE DEF TypeInv, TypeOK, AppendEntry, AfterScoring
<1>1. FilesOK'
  <2>1. variant[l] \in Variants
    BY DEF StageInv, LocalsOK
  <2>2. seen[l] \in Lineage /\ parent[l] \in Variants \cup {NoVariant}
    BY DEF LocalsOK
  <2>3. ASSUME NEW score \in SearchScores, NEW p \in Variants \cup {NoVariant}
        PROVE  LineageEntry(seen[l][variant[l]], l, score, p) \in Known
    BY <2>1, <2>2 DEF LineageEntry, Lineage, Known
  <2>4. seen[l][variant[l]].parent \in Variants \cup {NoVariant}
    BY <2>1, <2>2 DEF Lineage, Known
  <2>5. lineage' \in Lineage
    BY <2>1, <2>2, <2>3, <2>4 DEF FilesOK, Lineage, InLineage, Absent
  <2> QED
    BY <2>5 DEF FilesOK
<1>2. LogsOK'
  BY DEF LogsOK, logVars, operatorVars, ghostVars
<1>3. LocalsOK'
  BY InitialCopies DEF LocalsOK, StageInv, localVars, Goto, Stage, Scoring, Promoting
<1>4. StageInv'
  BY RunAssumption DEF LocalsOK, StageInv, localVars, Goto, Scoring
<1> QED
  BY <1>1, <1>2, <1>3, <1>4

LEMMA TypeNotArchived ==
  ASSUME TypeInv, NEW l \in Lanes, NotArchived(l)
  PROVE  TypeInv'
<1> USE DEF TypeInv, TypeOK, NotArchived, AfterScoring
<1>1. FilesOK'
  BY DEF FilesOK, fileVars
<1>2. LogsOK'
  BY DEF LogsOK, logVars, operatorVars, ghostVars
<1>3. LocalsOK'
  BY RunAssumption DEF LocalsOK, StageInv, localVars, Goto, Stage, Scoring, Promoting
<1>4. StageInv'
  BY RunAssumption DEF LocalsOK, StageInv, localVars, Goto, Scoring
<1> QED
  BY <1>1, <1>2, <1>3, <1>4

LEMMA TypeSettleVariant ==
  ASSUME TypeInv, NEW l \in Lanes, SettleVariant(l)
  PROVE  TypeInv'
<1> USE DEF TypeInv, TypeOK, SettleVariant, DiscardVariant, NextGeneration
<1>1. FilesOK'
  <2>1. CASE Archived(l)
    BY <2>1 DEF FilesOK
  <2>2. CASE ~Archived(l)
    <3>1. DiscardVariant(variant[l]) /\ UNCHANGED <<lineage, heads, shortlist>>
      BY <2>2
    <3> QED
      BY <3>1 DEF FilesOK
  <2> QED
    BY <2>1, <2>2
<1>2. LogsOK'
  BY DEF LogsOK, logVars, operatorVars, ghostVars
<1>3. LocalsOK'
  BY RunAssumption DEF LocalsOK, StageInv, localVars, Goto, Stage, Scoring, Promoting
<1>4. StageInv'
  BY RunAssumption DEF LocalsOK, StageInv, localVars, Goto, Scoring
<1> QED
  BY <1>1, <1>2, <1>3, <1>4

LEMMA TypePickFinalist ==
  ASSUME TypeInv, NEW l \in Lanes, PickFinalist(l)
  PROVE  TypeInv'
<1> USE DEF TypeInv, TypeOK, PickFinalist, BestInLane, TopScored
<1>1. FilesOK'
  BY DEF FilesOK, fileVars
<1>2. LogsOK'
  BY DEF LogsOK, logVars, operatorVars, ghostVars
<1>3. LocalsOK'
  BY EndTypes, RunAssumption DEF LocalsOK, StageInv, localVars, Goto, Stage, Scoring, Promoting
<1>4. StageInv'
  BY EndTypes, RunAssumption DEF LocalsOK, StageInv, localVars, Goto, Scoring
<1> QED
  BY <1>1, <1>2, <1>3, <1>4

LEMMA TypeEvaluateHoldout ==
  ASSUME TypeInv, NEW l \in Lanes, EvaluateHoldout(l)
  PROVE  TypeInv'
<1> USE DEF TypeInv, TypeOK, EvaluateHoldout, HoldoutScore
<1>1. FilesOK'
  <2>1. variant[l] \in Variants
    BY DEF StageInv, LocalsOK
  <2> QED
    BY <2>1 DEF FilesOK
<1>2. LogsOK'
  BY DEF LogsOK, logVars, operatorVars, ghostVars
<1>3. LocalsOK'
  BY DEF FilesOK, LocalsOK, Goto, Stage
<1>4. StageInv'
  BY RunAssumption DEF LocalsOK, StageInv, localVars, Goto, Scoring
<1> QED
  BY <1>1, <1>2, <1>3, <1>4

LEMMA TypeWriteRecord ==
  ASSUME TypeInv, NEW l \in Lanes, WriteRecord(l)
  PROVE  TypeInv'
<1> USE DEF TypeInv, TypeOK, WriteRecord, HoldoutScore
<1>1. FilesOK'
  <2>1. variant[l] \in Variants
    BY DEF StageInv, LocalsOK
  <2>2. PICK b \in Baselines(l, variant[l]), s \in Scores \cup {NoScore} :
         /\ holdout' = IF b = NoVariant THEN holdout ELSE [holdout EXCEPT ![l][b] = s]
         /\ finalized' = [finalized EXCEPT ![l][variant[l]] =
              [baseline |-> b, eligible |-> HoldoutEligible(seen[l][variant[l]], holdout[l][variant[l]], s)]]
    OBVIOUS
  <2>3. b \in Variants \cup {NoVariant}
    BY <2>2, BaselineType
  <2>4. HoldoutEligible(seen[l][variant[l]], holdout[l][variant[l]], s) \in BOOLEAN
    BY DEF HoldoutEligible
  <2>5. finalized' \in [Lanes -> [Variants -> Record \cup {NoRecord}]]
    BY <2>1, <2>2, <2>3, <2>4 DEF FilesOK, Record
  <2>6. holdout' \in [Lanes -> [Variants -> Scores \cup {NoScore}]]
    BY <2>2, <2>3 DEF FilesOK
  <2> QED
    BY <2>5, <2>6 DEF FilesOK
<1>2. LogsOK'
  <2>1. variant[l] \in Variants
    BY DEF StageInv, LocalsOK
  <2> QED
    BY <2>1 DEF LogsOK, logVars, operatorVars
<1>3. LocalsOK'
  BY DEF FilesOK, LocalsOK, Goto, Stage
<1>4. StageInv'
  BY RunAssumption DEF LocalsOK, StageInv, localVars, Goto, Scoring
<1> QED
  BY <1>1, <1>2, <1>3, <1>4

LEMMA TypeAppendHoldout ==
  ASSUME TypeInv, NEW l \in Lanes, AppendHoldout(l)
  PROVE  TypeInv'
<1> USE DEF TypeInv, TypeOK, AppendHoldout
<1>1. FilesOK'
  <2>1. variant[l] \in Variants
    BY DEF StageInv, LocalsOK
  <2>2. seen[l][variant[l]] \in Known
    BY <2>1 DEF LocalsOK, Lineage
  <2> QED
    BY <2>1, <2>2 DEF FilesOK, Lineage
<1>2. LogsOK'
  BY DEF LogsOK, logVars, operatorVars, ghostVars
<1>3. LocalsOK'
  BY InitialCopies DEF LocalsOK, StageInv, localVars, Goto, Stage, Scoring, Promoting
<1>4. StageInv'
  BY RunAssumption DEF LocalsOK, StageInv, localVars, Goto, Scoring
<1> QED
  BY <1>1, <1>2, <1>3, <1>4

LEMMA TypeWriteShortlist ==
  ASSUME TypeInv, NEW l \in Lanes, WriteShortlist(l)
  PROVE  TypeInv'
<1> USE DEF TypeInv, TypeOK, WriteShortlist, ToPromotion
<1>1. FilesOK'
  <2>1. variant[l] \in Variants
    BY DEF StageInv, LocalsOK
  <2> QED
    BY <2>1 DEF FilesOK
<1>2. LogsOK'
  BY DEF LogsOK, logVars, operatorVars, ghostVars
<1>3. LocalsOK'
  BY EndTypes, RunAssumption DEF LocalsOK, StageInv, localVars, Goto, Stage, Scoring, Promoting
<1>4. StageInv'
  BY EndTypes, RunAssumption DEF LocalsOK, StageInv, localVars, Goto, Scoring
<1> QED
  BY <1>1, <1>2, <1>3, <1>4

LEMMA TypeReadForMark ==
  ASSUME TypeInv, NEW l \in Lanes, ReadForMark(l)
  PROVE  TypeInv'
<1> USE DEF TypeInv, TypeOK, ReadForMark
<1>1. FilesOK'
  BY DEF FilesOK, fileVars
<1>2. LogsOK'
  BY DEF LogsOK, logVars, operatorVars, ghostVars
<1>3. LocalsOK'
  BY DEF FilesOK, LocalsOK, Goto, Stage
<1>4. StageInv'
  BY RunAssumption DEF LocalsOK, StageInv, localVars, Goto, Scoring
<1> QED
  BY <1>1, <1>2, <1>3, <1>4

LEMMA TypeMarkPromoted ==
  ASSUME TypeInv, NEW l \in Lanes, MarkPromoted(l)
  PROVE  TypeInv'
<1> USE DEF TypeInv, TypeOK, MarkPromoted
<1>1. FilesOK'
  <2>1. variant[l] \in Variants
    BY DEF StageInv, LocalsOK
  <2>2. seen[l][variant[l]] \in Known
    BY <2>1 DEF LocalsOK, Lineage
  <2>3. clock + 1 \in Moments
    BY ArchiveAssumption DEF LogsOK, Moments
  <2>4. [seen[l][variant[l]] EXCEPT !.promoted = clock + 1] \in Known
    BY <2>2, <2>3 DEF Known
  <2> QED
    BY <2>1, <2>4 DEF FilesOK, Lineage
<1>2. LogsOK'
  BY ArchiveAssumption DEF LogsOK, Moments, operatorVars, ghostVars
<1>3. LocalsOK'
  BY InitialCopies DEF LocalsOK, StageInv, localVars, Goto, Stage, Scoring, Promoting
<1>4. StageInv'
  BY RunAssumption DEF LocalsOK, StageInv, localVars, Goto, Scoring
<1> QED
  BY <1>1, <1>2, <1>3, <1>4

LEMMA TypeReadManifest ==
  ASSUME TypeInv, NEW l \in Lanes, ReadManifest(l)
  PROVE  TypeInv'
<1> USE DEF TypeInv, TypeOK, ReadManifest
<1>1. FilesOK'
  BY DEF FilesOK, fileVars
<1>2. LogsOK'
  BY DEF LogsOK, logVars, operatorVars, ghostVars
<1>3. LocalsOK'
  BY DEF FilesOK, LocalsOK, Goto, Stage
<1>4. StageInv'
  BY RunAssumption DEF LocalsOK, StageInv, localVars, Goto, Scoring
<1> QED
  BY <1>1, <1>2, <1>3, <1>4

LEMMA TypeSetCurrentHead ==
  ASSUME TypeInv, NEW l \in Lanes, SetCurrentHead(l)
  PROVE  TypeInv'
<1> USE DEF TypeInv, TypeOK, SetCurrentHead
<1>1. FilesOK'
  <2>1. variant[l] \in Variants
    BY DEF StageInv, LocalsOK
  <2> QED
    BY <2>1 DEF FilesOK, LocalsOK, Manifest
<1>2. LogsOK'
  BY DEF LogsOK, logVars, operatorVars, ghostVars
<1>3. LocalsOK'
  BY EndTypes, InitialCopies DEF LocalsOK, StageInv, localVars, Goto, Stage, Scoring, Promoting
<1>4. StageInv'
  BY EndTypes, RunAssumption DEF LocalsOK, StageInv, localVars, Goto, Scoring
<1> QED
  BY <1>1, <1>2, <1>3, <1>4

LEMMA TypeRecordHeadScore ==
  ASSUME TypeInv, NEW l \in Lanes, RecordHeadScore(l)
  PROVE  TypeInv'
<1> USE DEF TypeInv, TypeOK, RecordHeadScore
<1>1. FilesOK'
  BY DEF FilesOK, fileVars
<1>2. LogsOK'
  <2>1. variant[l] \in Variants /\ head_scores[l] \in Seq(Variants)
    BY DEF StageInv, LocalsOK, LogsOK
  <2>2. Append(head_scores[l], variant[l]) \in Seq(Variants)
    BY <2>1
  <2> QED
    BY <2>2 DEF LogsOK, operatorVars, ghostVars
<1>3. LocalsOK'
  BY RunAssumption DEF LocalsOK, StageInv, localVars, Goto, Stage, Scoring, Promoting
<1>4. StageInv'
  BY RunAssumption DEF LocalsOK, StageInv, localVars, Goto, Scoring
<1> QED
  BY <1>1, <1>2, <1>3, <1>4

LEMMA TypeCheckRollback ==
  ASSUME TypeInv, NEW l \in Lanes, CheckRollback(l)
  PROVE  TypeInv'
<1> USE DEF TypeInv, TypeOK, CheckRollback, ToPromotion, PreviousPromoted, Promoted, Latest
<1>1. FilesOK'
  BY DEF FilesOK, fileVars
<1>2. LogsOK'
  <2>1. Len(head_scores[l]) \in Nat
    BY DEF LogsOK
  <2> QED
    BY <2>1 DEF LogsOK, operatorVars, ghostVars
<1>3. LocalsOK'
  <2>1. CASE End(l)
    BY <2>1, EndTypes
  <2>2. CASE /\ \E v \in Variants : ToPromotion(l, v, "rollback")
             /\ UNCHANGED <<generation, parent, seen, manifest, unsealed>>
    BY <2>2 DEF LocalsOK, Goto, Stage, Promoting
  <2> QED
    BY <2>1, <2>2
<1>4. StageInv'
  <2>1. CASE End(l)
    BY <2>1, EndTypes
  <2>2. CASE /\ \E v \in Variants : ToPromotion(l, v, "rollback")
             /\ UNCHANGED <<generation, parent, seen, manifest, unsealed>>
    BY <2>2 DEF LocalsOK, StageInv, Goto, Scoring
  <2> QED
    BY <2>1, <2>2
<1> QED
  BY <1>1, <1>2, <1>3, <1>4

(* The initial state is well formed, and every step keeps it so.           *)
LEMMA TypeInit == Init => TypeInv
<1> SUFFICES ASSUME Init PROVE TypeInv
  OBVIOUS
<1> USE InitialCopies, ArchiveAssumption, RunAssumption DEF Init
<1>1. FilesOK
  <2>1. Seed \in Variants /\ 1 \in Moments
    BY DEF Seed, Variants, Moments
  <2>2. lineage \in Lineage
    <3>1. CASE lineage = Lineage0
      BY <3>1
    <3>2. ASSUME NEW l \in Lanes, NEW s \in SearchScores,
                 lineage = [Lineage0 EXCEPT ![Seed] =
                   [lane |-> l, score |-> s, parent |-> NoVariant, promoted |-> 1]]
          PROVE  lineage \in Lineage
      <4>1. [lane |-> l, score |-> s, parent |-> NoVariant, promoted |-> 1] \in Known
        BY <2>1 DEF Known
      <4> QED
        BY <3>2, <4>1 DEF Lineage
    <3> QED
      BY <3>1, <3>2
  <2> QED
    BY <2>1, <2>2 DEF FilesOK
<1>2. LogsOK
  BY DEF LogsOK, Moments, NoVariant
<1>3. LocalsOK
  BY DEF LocalsOK, Stage, NoVariant
<1>4. StageInv
  BY DEF StageInv
<1> QED
  BY <1>1, <1>2, <1>3, <1>4 DEF TypeInv, TypeOK

LEMMA TypeStep == TypeInv /\ [Next]_vars => TypeInv'
<1> SUFFICES ASSUME TypeInv, [Next]_vars PROVE TypeInv'
  OBVIOUS
<1>1. CASE UNCHANGED vars
  BY <1>1 DEF TypeInv, TypeOK, FilesOK, LogsOK, LocalsOK, StageInv, vars, fileVars, logVars,
     operatorVars, localVars, ghostVars
<1>2. CASE Next
  <2>1. PICK l \in Lanes : \/ StartRun(l) \/ StartResume(l) \/ StartPromote(l)
                         \/ StartUndo(l) \/ Die(l) \/ CloneParent(l)
                         \/ RejectVariant(l) \/ AcceptVariant(l) \/ ReadLineage(l)
                         \/ AppendEntry(l) \/ NotArchived(l) \/ SettleVariant(l)
                         \/ PickFinalist(l) \/ EvaluateHoldout(l) \/ WriteRecord(l)
                         \/ AppendHoldout(l) \/ WriteShortlist(l) \/ ReadForMark(l)
                         \/ MarkPromoted(l) \/ ReadManifest(l) \/ SetCurrentHead(l)
                         \/ RecordHeadScore(l) \/ CheckRollback(l)
    BY <1>2 DEF Next
  <2> QED
    BY <2>1, TypeStartRun, TypeStartResume, TypeStartPromote, TypeStartUndo, TypeDie,
       TypeCloneParent, TypeRejectVariant, TypeAcceptVariant, TypeReadLineage, TypeAppendEntry,
       TypeNotArchived, TypeSettleVariant, TypePickFinalist, TypeEvaluateHoldout, TypeWriteRecord,
       TypeAppendHoldout, TypeWriteShortlist, TypeReadForMark, TypeMarkPromoted, TypeReadManifest,
       TypeSetCurrentHead, TypeRecordHeadScore, TypeCheckRollback
<1> QED
  BY <1>1, <1>2

(* Every file, event and local keeps its shape, whatever is killed when.   *)
THEOREM TypeCorrect == Spec => []TypeOK
<1>1. Init => TypeInv
  BY TypeInit
<1>2. TypeInv /\ [Next]_vars => TypeInv'
  BY TypeStep
<1>3. TypeInv => TypeOK
  BY DEF TypeInv
<1> QED
  BY <1>1, <1>2, <1>3, PTL DEF Spec

(* What a command starts from and falls back to rests on no promotion.     *)
LEMMA EndPassed ==
  ASSUME TypeInv, NEW l \in Lanes, End(l), \A k \in Lanes : LocalsPassed(k), UNCHANGED passed
  PROVE  \A k \in Lanes : LocalsPassed(k)'
  BY InitialCopies DEF TypeInv, TypeOK, LocalsOK, End, Goto, LocalsPassed, StampsPassed,
     HeadsPassed, Lineage0, Absent, Heads0

(***************************************************************************)
(* One lemma per action: what it writes to a file, and what it takes in    *)
(* hand, still rests on the gate.                                          *)
(***************************************************************************)

LEMMA GateStartRun ==
  ASSUME GateInv, NEW l \in Lanes, StartRun(l)
  PROVE  GateInv'
<1> USE DEF GateInv, TypeInv, TypeOK, StartRun, Launch, ToScore
<1>1. TypeInv'
  BY TypeStartRun
<1>2. FilesPassed'
  BY DEF FilesPassed, StampsPassed, HeadsPassed, fileVars, ghostVars
<1>3. \A k \in Lanes : LocalsPassed(k)'
  BY DEF LocalsPassed, StampsPassed, HeadsPassed, localVars, ghostVars, Goto, LocalsOK
<1> QED
  BY <1>1, <1>2, <1>3

LEMMA GateStartResume ==
  ASSUME GateInv, NEW l \in Lanes, StartResume(l)
  PROVE  GateInv'
<1> USE DEF GateInv, TypeInv, TypeOK, StartResume, Launch, ToScore
<1>1. TypeInv'
  BY TypeStartResume
<1>2. FilesPassed'
  BY DEF FilesPassed, StampsPassed, HeadsPassed, fileVars, ghostVars
<1>3. \A k \in Lanes : LocalsPassed(k)'
  BY DEF LocalsPassed, StampsPassed, HeadsPassed, localVars, ghostVars, Goto, LocalsOK
<1> QED
  BY <1>1, <1>2, <1>3

LEMMA GateStartPromote ==
  ASSUME GateInv, NEW l \in Lanes, StartPromote(l)
  PROVE  GateInv'
<1> USE DEF GateInv, TypeInv, TypeOK, StartPromote, Launch, ToPromotion
<1>1. TypeInv'
  BY TypeStartPromote
<1>2. FilesPassed'
  BY DEF FilesPassed, StampsPassed, HeadsPassed, fileVars, ghostVars
<1>3. \A k \in Lanes : LocalsPassed(k)'
  <2>1. PICK v \in Variants : ToPromotion(l, v, "promote") /\ v \in passed \cup {Seed}
    BY DEF FinalizeStatus, FilesPassed
  <2> QED
    BY <2>1 DEF LocalsPassed, StampsPassed, HeadsPassed, localVars, ghostVars, Goto, LocalsOK
<1> QED
  BY <1>1, <1>2, <1>3

LEMMA GateStartUndo ==
  ASSUME GateInv, NEW l \in Lanes, StartUndo(l)
  PROVE  GateInv'
<1> USE DEF GateInv, TypeInv, TypeOK, StartUndo, Launch, ToPromotion, PreviousPromoted, Promoted, Latest
<1>1. TypeInv'
  BY TypeStartUndo
<1>2. FilesPassed'
  BY DEF FilesPassed, StampsPassed, HeadsPassed, fileVars, ghostVars
<1>3. \A k \in Lanes : LocalsPassed(k)'
  <2>1. PICK v \in Variants : ToPromotion(l, v, "undo") /\ v \in passed \cup {Seed}
    BY DEF FilesPassed, StampsPassed
  <2> QED
    BY <2>1 DEF LocalsPassed, StampsPassed, HeadsPassed, localVars, ghostVars, Goto, LocalsOK
<1> QED
  BY <1>1, <1>2, <1>3

LEMMA GateDie ==
  ASSUME GateInv, NEW l \in Lanes, Die(l)
  PROVE  GateInv'
<1> USE DEF GateInv, TypeInv, TypeOK, Die
<1>1. TypeInv'
  BY TypeDie
<1>2. FilesPassed'
  BY DEF FilesPassed, StampsPassed, HeadsPassed, fileVars, ghostVars
<1>3. \A k \in Lanes : LocalsPassed(k)'
  BY EndPassed DEF LocalsPassed, StampsPassed, HeadsPassed, localVars, ghostVars, Goto, LocalsOK
<1> QED
  BY <1>1, <1>2, <1>3

LEMMA GateCloneParent ==
  ASSUME GateInv, NEW l \in Lanes, CloneParent(l)
  PROVE  GateInv'
<1> USE DEF GateInv, TypeInv, TypeOK, CloneParent, GenerationsLeft, Parents, TopScored
<1>1. TypeInv'
  BY TypeCloneParent
<1>2. FilesPassed'
  BY DEF FilesPassed, StampsPassed, HeadsPassed, fileVars, ghostVars
<1>3. \A k \in Lanes : LocalsPassed(k)'
  BY DEF LocalsPassed, StampsPassed, HeadsPassed, localVars, ghostVars, Goto, LocalsOK
<1> QED
  BY <1>1, <1>2, <1>3

LEMMA GateRejectVariant ==
  ASSUME GateInv, NEW l \in Lanes, RejectVariant(l)
  PROVE  GateInv'
<1> USE DEF GateInv, TypeInv, TypeOK, RejectVariant, DiscardVariant, NextGeneration
<1>1. TypeInv'
  BY TypeRejectVariant
<1>2. FilesPassed'
  <2>1. variant[l] \in Variants
    BY DEF StageInv, LocalsOK
  <2>2. ASSUME NEW k \in Lanes, NEW v \in Variants, finalized'[k][v].eligible
        PROVE  v \in passed
    BY <2>1, <2>2 DEF FilesPassed, FilesOK, NoRecord
  <2> QED
    BY <2>2 DEF FilesPassed, StampsPassed, HeadsPassed, fileVars, ghostVars
<1>3. \A k \in Lanes : LocalsPassed(k)'
  BY DEF LocalsPassed, StampsPassed, HeadsPassed, localVars, ghostVars, Goto, LocalsOK
<1> QED
  BY <1>1, <1>2, <1>3

LEMMA GateAcceptVariant ==
  ASSUME GateInv, NEW l \in Lanes, AcceptVariant(l)
  PROVE  GateInv'
<1> USE DEF GateInv, TypeInv, TypeOK, AcceptVariant, ToScore
<1>1. TypeInv'
  BY TypeAcceptVariant
<1>2. FilesPassed'
  BY DEF FilesPassed, StampsPassed, HeadsPassed, fileVars, ghostVars
<1>3. \A k \in Lanes : LocalsPassed(k)'
  BY DEF LocalsPassed, StampsPassed, HeadsPassed, localVars, ghostVars, Goto, LocalsOK
<1> QED
  BY <1>1, <1>2, <1>3

LEMMA GateReadLineage ==
  ASSUME GateInv, NEW l \in Lanes, ReadLineage(l)
  PROVE  GateInv'
<1> USE DEF GateInv, TypeInv, TypeOK, ReadLineage
<1>1. TypeInv'
  BY TypeReadLineage
<1>2. FilesPassed'
  BY DEF FilesPassed, StampsPassed, HeadsPassed, fileVars, ghostVars
<1>3. \A k \in Lanes : LocalsPassed(k)'
  BY DEF FilesPassed, FilesOK, LocalsPassed, StampsPassed, HeadsPassed, localVars, ghostVars, Goto, LocalsOK
<1> QED
  BY <1>1, <1>2, <1>3

LEMMA GateAppendEntry ==
  ASSUME GateInv, NEW l \in Lanes, AppendEntry(l)
  PROVE  GateInv'
<1> USE DEF GateInv, TypeInv, TypeOK, AppendEntry, AfterScoring
<1>1. TypeInv'
  BY TypeAppendEntry
<1>2. FilesPassed'
  <2>1. variant[l] \in Variants
    BY DEF StageInv, LocalsOK
  <2>2. StampsPassed(seen[l]) /\ StampsPassed(lineage)
    BY DEF FilesPassed, LocalsPassed
  <2>3. StampsPassed(lineage)'
    BY <2>1, <2>2 DEF StampsPassed, LineageEntry, ghostVars
  <2> QED
    BY <2>3 DEF FilesPassed, HeadsPassed, ghostVars
<1>3. \A k \in Lanes : LocalsPassed(k)'
  <2>1. pc'[l] \in {"loop", "check", "finalize"}
    BY DEF StageInv, LocalsOK, Scoring, Goto
  <2>2. StampsPassed(Lineage0)
    BY DEF StampsPassed, Lineage0, Absent
  <2> QED
    BY <2>1, <2>2 DEF LocalsPassed, StampsPassed, HeadsPassed, localVars, ghostVars, Goto, LocalsOK
<1> QED
  BY <1>1, <1>2, <1>3

LEMMA GateNotArchived ==
  ASSUME GateInv, NEW l \in Lanes, NotArchived(l)
  PROVE  GateInv'
<1> USE DEF GateInv, TypeInv, TypeOK, NotArchived, AfterScoring
<1>1. TypeInv'
  BY TypeNotArchived
<1>2. FilesPassed'
  BY DEF FilesPassed, StampsPassed, HeadsPassed, fileVars, ghostVars
<1>3. \A k \in Lanes : LocalsPassed(k)'
  <2>1. pc'[l] \in {"loop", "check", "finalize"}
    BY DEF StageInv, LocalsOK, Scoring, Goto
  <2> QED
    BY <2>1 DEF LocalsPassed, StampsPassed, HeadsPassed, localVars, ghostVars, Goto, LocalsOK
<1> QED
  BY <1>1, <1>2, <1>3

LEMMA GateSettleVariant ==
  ASSUME GateInv, NEW l \in Lanes, SettleVariant(l)
  PROVE  GateInv'
<1> USE DEF GateInv, TypeInv, TypeOK, SettleVariant, DiscardVariant, NextGeneration
<1>1. TypeInv'
  BY TypeSettleVariant
<1>2. FilesPassed'
  <2>1. CASE Archived(l)
    BY <2>1 DEF FilesPassed, StampsPassed, HeadsPassed, fileVars, ghostVars
  <2>2. CASE ~Archived(l)
    <3>1. DiscardVariant(variant[l]) /\ UNCHANGED <<lineage, heads, passed>>
      BY <2>2 DEF ghostVars
    <3>2. ASSUME NEW k \in Lanes, NEW v \in Variants, finalized'[k][v].eligible
          PROVE  v \in passed
      BY <3>1, <3>2 DEF FilesPassed, FilesOK, NoRecord
    <3> QED
      BY <3>1, <3>2 DEF FilesPassed, StampsPassed, HeadsPassed
  <2> QED
    BY <2>1, <2>2
<1>3. \A k \in Lanes : LocalsPassed(k)'
  BY DEF LocalsPassed, StampsPassed, HeadsPassed, localVars, ghostVars, Goto, LocalsOK
<1> QED
  BY <1>1, <1>2, <1>3

LEMMA GatePickFinalist ==
  ASSUME GateInv, NEW l \in Lanes, PickFinalist(l)
  PROVE  GateInv'
<1> USE DEF GateInv, TypeInv, TypeOK, PickFinalist, BestInLane, TopScored
<1>1. TypeInv'
  BY TypePickFinalist
<1>2. FilesPassed'
  BY DEF FilesPassed, StampsPassed, HeadsPassed, fileVars, ghostVars
<1>3. \A k \in Lanes : LocalsPassed(k)'
  BY EndPassed DEF LocalsPassed, StampsPassed, HeadsPassed, localVars, ghostVars, Goto, LocalsOK
<1> QED
  BY <1>1, <1>2, <1>3

LEMMA GateEvaluateHoldout ==
  ASSUME GateInv, NEW l \in Lanes, EvaluateHoldout(l)
  PROVE  GateInv'
<1> USE DEF GateInv, TypeInv, TypeOK, EvaluateHoldout, HoldoutScore
<1>1. TypeInv'
  BY TypeEvaluateHoldout
<1>2. FilesPassed'
  BY DEF FilesPassed, StampsPassed, HeadsPassed, fileVars, ghostVars
<1>3. \A k \in Lanes : LocalsPassed(k)'
  BY DEF FilesPassed, FilesOK, LocalsPassed, StampsPassed, HeadsPassed, localVars, ghostVars, Goto, LocalsOK
<1> QED
  BY <1>1, <1>2, <1>3

LEMMA GateWriteRecord ==
  ASSUME GateInv, NEW l \in Lanes, WriteRecord(l)
  PROVE  GateInv'
<1> USE DEF GateInv, TypeInv, TypeOK, WriteRecord, HoldoutScore
<1>1. TypeInv'
  BY TypeWriteRecord
<1>2. FilesPassed'
  BY DEF FilesPassed, StampsPassed, HeadsPassed, fileVars, ghostVars
<1>3. \A k \in Lanes : LocalsPassed(k)'
  <2>1. passed \subseteq passed' /\ pc' = [pc EXCEPT ![l] = "publish"]
    BY DEF Goto
  <2> QED
    BY <2>1 DEF FilesPassed, LocalsPassed, StampsPassed, HeadsPassed, LocalsOK
<1> QED
  BY <1>1, <1>2, <1>3

LEMMA GateAppendHoldout ==
  ASSUME GateInv, NEW l \in Lanes, AppendHoldout(l)
  PROVE  GateInv'
<1> USE DEF GateInv, TypeInv, TypeOK, AppendHoldout
<1>1. TypeInv'
  BY TypeAppendHoldout
<1>2. FilesPassed'
  <2>1. variant[l] \in Variants
    BY DEF StageInv, LocalsOK
  <2>2. seen[l][variant[l]].promoted > 0 => variant[l] \in passed \cup {Seed}
    BY <2>1 DEF LocalsPassed, StampsPassed
  <2> QED
    BY <2>1, <2>2 DEF FilesOK, Lineage, FilesPassed, StampsPassed, HeadsPassed, fileVars, ghostVars
<1>3. \A k \in Lanes : LocalsPassed(k)'
  <2>1. StampsPassed(Lineage0)
    BY DEF StampsPassed, Lineage0, Absent
  <2> QED
    BY <2>1 DEF LocalsPassed, StampsPassed, HeadsPassed, localVars, ghostVars, Goto, LocalsOK
<1> QED
  BY <1>1, <1>2, <1>3

LEMMA GateWriteShortlist ==
  ASSUME GateInv, NEW l \in Lanes, WriteShortlist(l)
  PROVE  GateInv'
<1> USE DEF GateInv, TypeInv, TypeOK, WriteShortlist, ToPromotion
<1>1. TypeInv'
  BY TypeWriteShortlist
<1>2. FilesPassed'
  BY DEF FilesPassed, StampsPassed, HeadsPassed, fileVars, ghostVars
<1>3. \A k \in Lanes : LocalsPassed(k)'
  <2>1. CASE End(l)
    BY <2>1, EndPassed DEF ghostVars
  <2>2. CASE FinalizeStatus(l, variant[l])
    <3>1. variant[l] \in passed
      BY <2>2 DEF FinalizeStatus, FilesPassed, StageInv, LocalsOK
    <3> QED
      BY <2>2, <3>1 DEF LocalsPassed, StampsPassed, HeadsPassed, localVars, ghostVars, Goto, LocalsOK
  <2> QED
    BY <2>1, <2>2
<1> QED
  BY <1>1, <1>2, <1>3

LEMMA GateReadForMark ==
  ASSUME GateInv, NEW l \in Lanes, ReadForMark(l)
  PROVE  GateInv'
<1> USE DEF GateInv, TypeInv, TypeOK, ReadForMark
<1>1. TypeInv'
  BY TypeReadForMark
<1>2. FilesPassed'
  BY DEF FilesPassed, StampsPassed, HeadsPassed, fileVars, ghostVars
<1>3. \A k \in Lanes : LocalsPassed(k)'
  BY DEF FilesPassed, FilesOK, LocalsPassed, StampsPassed, HeadsPassed, localVars, ghostVars, Goto, LocalsOK
<1> QED
  BY <1>1, <1>2, <1>3

LEMMA GateMarkPromoted ==
  ASSUME GateInv, NEW l \in Lanes, MarkPromoted(l)
  PROVE  GateInv'
<1> USE DEF GateInv, TypeInv, TypeOK, MarkPromoted
<1>1. TypeInv'
  BY TypeMarkPromoted
<1>2. FilesPassed'
  <2>1. variant[l] \in passed \cup {Seed}
    BY DEF LocalsPassed
  <2> QED
    BY <2>1 DEF FilesOK, Lineage, FilesPassed, StampsPassed, HeadsPassed, fileVars, ghostVars
<1>3. \A k \in Lanes : LocalsPassed(k)'
  <2>1. StampsPassed(Lineage0)
    BY DEF StampsPassed, Lineage0, Absent
  <2> QED
    BY <2>1 DEF LocalsPassed, StampsPassed, HeadsPassed, localVars, ghostVars, Goto, LocalsOK
<1> QED
  BY <1>1, <1>2, <1>3

LEMMA GateReadManifest ==
  ASSUME GateInv, NEW l \in Lanes, ReadManifest(l)
  PROVE  GateInv'
<1> USE DEF GateInv, TypeInv, TypeOK, ReadManifest
<1>1. TypeInv'
  BY TypeReadManifest
<1>2. FilesPassed'
  BY DEF FilesPassed, StampsPassed, HeadsPassed, fileVars, ghostVars
<1>3. \A k \in Lanes : LocalsPassed(k)'
  BY DEF FilesPassed, FilesOK, LocalsPassed, StampsPassed, HeadsPassed, localVars, ghostVars, Goto, LocalsOK
<1> QED
  BY <1>1, <1>2, <1>3

LEMMA GateSetCurrentHead ==
  ASSUME GateInv, NEW l \in Lanes, SetCurrentHead(l)
  PROVE  GateInv'
<1> USE DEF GateInv, TypeInv, TypeOK, SetCurrentHead
<1>1. TypeInv'
  BY TypeSetCurrentHead
<1>2. FilesPassed'
  <2>1. variant[l] \in passed \cup {Seed} /\ HeadsPassed(manifest[l])
    BY DEF LocalsPassed
  <2>2. HeadsPassed(heads)'
    BY <2>1 DEF HeadsPassed, LocalsOK, Manifest
  <2> QED
    BY <2>2 DEF FilesPassed, StampsPassed
<1>3. \A k \in Lanes : LocalsPassed(k)'
  <2>1. CASE End(l)
    BY <2>1, EndPassed
  <2>2. HeadsPassed(Heads0)
    BY DEF HeadsPassed, Heads0
  <2>3. CASE ~End(l)
    BY <2>2, <2>3 DEF LocalsPassed, StampsPassed, HeadsPassed, Goto, LocalsOK
  <2> QED
    BY <2>1, <2>3
<1> QED
  BY <1>1, <1>2, <1>3

LEMMA GateRecordHeadScore ==
  ASSUME GateInv, NEW l \in Lanes, RecordHeadScore(l)
  PROVE  GateInv'
<1> USE DEF GateInv, TypeInv, TypeOK, RecordHeadScore
<1>1. TypeInv'
  BY TypeRecordHeadScore
<1>2. FilesPassed'
  BY DEF FilesPassed, StampsPassed, HeadsPassed, fileVars, ghostVars
<1>3. \A k \in Lanes : LocalsPassed(k)'
  BY DEF LocalsPassed, StampsPassed, HeadsPassed, localVars, ghostVars, Goto, LocalsOK
<1> QED
  BY <1>1, <1>2, <1>3

LEMMA GateCheckRollback ==
  ASSUME GateInv, NEW l \in Lanes, CheckRollback(l)
  PROVE  GateInv'
<1> USE DEF GateInv, TypeInv, TypeOK, CheckRollback, ToPromotion, PreviousPromoted, Promoted, Latest
<1>1. TypeInv'
  BY TypeCheckRollback
<1>2. FilesPassed'
  BY DEF FilesPassed, StampsPassed, HeadsPassed, fileVars, ghostVars
<1>3. \A k \in Lanes : LocalsPassed(k)'
  <2>1. CASE End(l)
    BY <2>1, EndPassed DEF ghostVars
  <2>2. CASE ~End(l)
    <3>1. PICK v \in Variants : ToPromotion(l, v, "rollback") /\ v \in passed \cup {Seed}
      BY <2>2 DEF FilesPassed, StampsPassed
    <3>2. UNCHANGED <<seen, manifest>>
      BY <2>2
    <3> QED
      BY <3>1, <3>2 DEF LocalsPassed, StampsPassed, HeadsPassed, localVars, ghostVars, Goto, LocalsOK
  <2> QED
    BY <2>1, <2>2
<1> QED
  BY <1>1, <1>2, <1>3

LEMMA GateInit == Init => GateInv
<1> SUFFICES ASSUME Init PROVE GateInv
  OBVIOUS
<1>1. TypeInv
  BY TypeInit
<1>2. FilesPassed
  BY DEF Init, FilesPassed, StampsPassed, HeadsPassed, Lineage0, Heads0, Absent, NoRecord
<1>3. ASSUME NEW l \in Lanes
      PROVE  LocalsPassed(l)
  BY DEF Init, LocalsPassed, StampsPassed, HeadsPassed, Lineage0, Heads0, Absent
<1> QED
  BY <1>1, <1>2, <1>3 DEF GateInv

LEMMA GateStep == GateInv /\ [Next]_vars => GateInv'
<1> SUFFICES ASSUME GateInv, [Next]_vars PROVE GateInv'
  OBVIOUS
<1>1. CASE UNCHANGED vars
  <2>1. TypeInv'
    BY <1>1, TypeStep DEF GateInv
  <2> QED
    BY <1>1, <2>1 DEF GateInv, FilesPassed, LocalsPassed, StampsPassed, HeadsPassed, vars, fileVars,
       localVars, ghostVars
<1>2. CASE Next
  <2>1. PICK l \in Lanes : \/ StartRun(l) \/ StartResume(l) \/ StartPromote(l)
                         \/ StartUndo(l) \/ Die(l) \/ CloneParent(l)
                         \/ RejectVariant(l) \/ AcceptVariant(l) \/ ReadLineage(l)
                         \/ AppendEntry(l) \/ NotArchived(l) \/ SettleVariant(l)
                         \/ PickFinalist(l) \/ EvaluateHoldout(l) \/ WriteRecord(l)
                         \/ AppendHoldout(l) \/ WriteShortlist(l) \/ ReadForMark(l)
                         \/ MarkPromoted(l) \/ ReadManifest(l) \/ SetCurrentHead(l)
                         \/ RecordHeadScore(l) \/ CheckRollback(l)
    BY <1>2 DEF Next
  <2> QED
    BY <2>1, GateStartRun, GateStartResume, GateStartPromote, GateStartUndo, GateDie,
       GateCloneParent, GateRejectVariant, GateAcceptVariant, GateReadLineage, GateAppendEntry,
       GateNotArchived, GateSettleVariant, GatePickFinalist, GateEvaluateHoldout, GateWriteRecord,
       GateAppendHoldout, GateWriteShortlist, GateReadForMark, GateMarkPromoted, GateReadManifest,
       GateSetCurrentHead, GateRecordHeadScore, GateCheckRollback
<1> QED
  BY <1>1, <1>2

(* The inductive invariant: every stamp, head and record, on disk or in    *)
(* the hands of a command, names a variant that passed the gate.           *)
THEOREM GateInvariant == Spec => []GateInv
  BY GateInit, GateStep, PTL DEF Spec

(* Whatever is killed, resumed, rescored or rolled back: only a variant    *)
(* that passed a holdout gate is stamped promoted or heads a lane.         *)
THEOREM GateHolds == Spec => []PromotedPassedGate
<1>1. GateInv => PromotedPassedGate
  BY DEF GateInv, FilesPassed, StampsPassed, HeadsPassed, PromotedPassedGate, Seed
<1> QED
  BY <1>1, GateInvariant, PTL

=============================================================================
