------------------------- MODULE EvolutionLaneProofs --------------------------
(***************************************************************************)
(* Theorems about an archive of any number of lanes whose commands are run *)
(* one after another: nothing dangles; and in a lane whose entries no      *)
(* other lane writes, the head follows the lineage and a promotion through *)
(* the gate beats the head it replaces.                                    *)
(***************************************************************************)
EXTENDS EvolutionLane, EvolutionProofs

Step(l) ==
  \/ StartRun(l) \/ StartResume(l) \/ StartPromote(l) \/ StartUndo(l) \/ Die(l)
  \/ CloneParent(l) \/ RejectVariant(l) \/ AcceptVariant(l)
  \/ ReadLineage(l) \/ AppendEntry(l) \/ NotArchived(l) \/ SettleVariant(l)
  \/ PickFinalist(l) \/ EvaluateHoldout(l) \/ WriteRecord(l)
  \/ AppendHoldout(l) \/ WriteShortlist(l)
  \/ ReadForMark(l) \/ MarkPromoted(l) \/ ReadManifest(l) \/ SetCurrentHead(l)
  \/ RecordHeadScore(l) \/ CheckRollback(l)

(* A step of one lane leaves the commands of the others where they are.    *)
Elsewhere(l) ==
  \A k \in Lanes \ {l} :
    /\ pc'[k] = pc[k] /\ variant'[k] = variant[k] /\ cause'[k] = cause[k]
    /\ seen'[k] = seen[k] /\ manifest'[k] = manifest[k]

LEMMA EndElsewhere ==
  ASSUME LocalsOK, NEW l \in Lanes, End(l)
  PROVE  Elsewhere(l)
  BY DEF LocalsOK, End, Goto, Elsewhere

LEMMA StepElsewhere ==
  ASSUME LocalsOK, NEW l \in Lanes, Step(l)
  PROVE  Elsewhere(l)
<1> USE DEF LocalsOK, Goto, Elsewhere, ToScore, ToPromotion, NextGeneration, AfterScoring,
   localVars
<1>1. CASE StartRun(l) \/ StartResume(l) \/ AcceptVariant(l)
  BY <1>1 DEF StartRun, StartResume, AcceptVariant
<1>2. CASE StartPromote(l) \/ StartUndo(l)
  BY <1>2 DEF StartPromote, StartUndo
<1>3. CASE Die(l)
  BY <1>3, EndElsewhere DEF Die
<1>4. CASE CloneParent(l) \/ RejectVariant(l) \/ SettleVariant(l)
  BY <1>4 DEF CloneParent, RejectVariant, SettleVariant
<1>5. CASE ReadLineage(l) \/ AppendEntry(l) \/ NotArchived(l)
  BY <1>5 DEF ReadLineage, AppendEntry, NotArchived
<1>6. CASE PickFinalist(l) \/ WriteShortlist(l) \/ SetCurrentHead(l) \/ CheckRollback(l)
  <2>1. CASE End(l)
    BY <2>1, EndElsewhere
  <2>2. CASE ~End(l)
    BY <1>6, <2>2 DEF PickFinalist, WriteShortlist, SetCurrentHead, CheckRollback
  <2> QED
    BY <2>1, <2>2
<1>7. CASE EvaluateHoldout(l) \/ WriteRecord(l) \/ AppendHoldout(l)
  BY <1>7 DEF EvaluateHoldout, WriteRecord, AppendHoldout
<1>8. CASE ReadForMark(l) \/ MarkPromoted(l) \/ ReadManifest(l) \/ RecordHeadScore(l)
  BY <1>8 DEF ReadForMark, MarkPromoted, ReadManifest, RecordHeadScore
<1> QED
  BY <1>1, <1>2, <1>3, <1>4, <1>5, <1>6, <1>7, <1>8 DEF Step

(* What a command holds is safe while nobody writes what it reads.         *)
LEMMA HeldElsewhere ==
  ASSUME NEW l \in Lanes, NEW k \in Lanes \ {l}, Elsewhere(l),
         CopyCurrent(k), VariantTells(k),
         pc[k] = "idle" \/ UNCHANGED <<dirs, lineage, heads>>
  PROVE  CopyCurrent(k)' /\ VariantTells(k)'
<1>1. /\ pc'[k] = pc[k] /\ variant'[k] = variant[k] /\ cause'[k] = cause[k]
      /\ seen'[k] = seen[k] /\ manifest'[k] = manifest[k]
  BY DEF Elsewhere
<1>2. CASE pc[k] = "idle"
  BY <1>1, <1>2 DEF CopyCurrent, VariantTells, Minted, Finalizing, Promotion
<1>3. CASE UNCHANGED <<dirs, lineage, heads>>
  BY <1>1, <1>3 DEF CopyCurrent, VariantTells, Minted
<1> QED
  BY <1>2, <1>3

(* The command at work looks after itself and the files: the others wait.  *)
LEMMA ArchiveKeptBy ==
  ASSUME OneCommand, TypeInv, ArchiveInv, NEW l \in Lanes, Step(l), pc[l] # "idle",
         ArchiveOnDisk', StampsTell', CopyCurrent(l)', VariantTells(l)',
         \A k \in Lanes : RecordsTell(k)'
  PROVE  ArchiveInv'
<1>1. ASSUME NEW k \in Lanes, k # l
      PROVE  CopyCurrent(k)' /\ VariantTells(k)'
  <2>1. pc[k] = "idle"
    BY <1>1 DEF OneCommand
  <2> QED
    BY <1>1, <2>1, StepElsewhere, HeldElsewhere DEF ArchiveInv, TypeInv, TypeOK
<1> QED
  BY <1>1 DEF ArchiveInv

(* A step that writes none of the files it is about.                       *)
LEMMA ArchiveUntouched ==
  ASSUME TypeInv, ArchiveInv, NEW l \in Lanes, Step(l),
         UNCHANGED <<dirs, lineage, heads, finalized, clock>>,
         CopyCurrent(l)', VariantTells(l)'
  PROVE  ArchiveInv'
<1>1. ASSUME NEW k \in Lanes, k # l
      PROVE  CopyCurrent(k)' /\ VariantTells(k)'
  BY <1>1, StepElsewhere, HeldElsewhere DEF ArchiveInv, TypeInv, TypeOK
<1>2. ArchiveOnDisk' /\ StampsTell' /\ \A k \in Lanes : RecordsTell(k)'
  BY DEF ArchiveInv, ArchiveOnDisk, StampsTell, RecordsTell
<1> QED
  BY <1>1, <1>2 DEF ArchiveInv

(***************************************************************************)
(* What the command at work on l keeps: the archive of all lanes, the      *)
(* scores and the candidate of its own, and its head, if the promotions    *)
(* that count for l are its own.                                           *)
(***************************************************************************)
Kept(l) ==
  /\ ArchiveInv'
  /\ GateTells(l) => GateTells(l)'
  /\ UnsharedStamps(l) /\ LaneTells(l) => HeadTells(l)'

LEMMA SameScores ==
  ASSUME NEW l \in Lanes, ScoresTell(l), UNCHANGED <<lineage, holdout, finalized>>,
         pc'[l] # "record"
  PROVE  ScoresTell(l)'
  BY DEF ScoresTell, Beats

LEMMA SameHead ==
  ASSUME NEW l \in Lanes, HeadTells(l), UNCHANGED <<lineage, heads, torn>>,
         pc[l] \notin {"read_head", "write_head"}, pc'[l] \notin {"read_head", "write_head"}
  PROVE  HeadTells(l)'
  BY DEF HeadTells, Stamped

(* A step that writes no file keeps all but the candidate in hand.         *)
LEMMA LaneUntouched ==
  ASSUME ArchiveInv', NEW l \in Lanes,
         UNCHANGED <<lineage, heads, holdout, finalized, torn>>,
         pc'[l] # "record", pc[l] \notin {"read_head", "write_head"},
         pc'[l] \notin {"read_head", "write_head"},
         GateTells(l) => HandTells(l)' /\ ChallengerBeats(l)'
  PROVE  Kept(l)
  BY SameScores, SameHead DEF Kept, GateTells, LaneTells

(* Where a command that ended is.                                          *)
LEMMA EndRests ==
  ASSUME LocalsOK, NEW l \in Lanes, End(l)
  PROVE  /\ pc'[l] = "idle" /\ CopyCurrent(l)' /\ VariantTells(l)'
         /\ HandTells(l)' /\ ChallengerBeats(l)'
<1>1. pc'[l] = "idle"
  BY DEF LocalsOK, End, Goto
<1> QED
  BY <1>1 DEF CopyCurrent, VariantTells, HandTells, ChallengerBeats, Minted, Finalizing,
     Promotion

(* A command that ends without writing anything.                           *)
LEMMA EndKeeps ==
  ASSUME TypeInv, ArchiveInv, NEW l \in Lanes, Step(l), End(l),
         UNCHANGED <<dirs, lineage, heads, holdout, finalized, clock, torn>>,
         pc[l] \notin {"read_head", "write_head"}
  PROVE  Kept(l)
<1>1. /\ pc'[l] = "idle" /\ CopyCurrent(l)' /\ VariantTells(l)'
      /\ HandTells(l)' /\ ChallengerBeats(l)'
  BY EndRests DEF TypeInv, TypeOK
<1>2. ArchiveInv'
  BY <1>1, ArchiveUntouched
<1> QED
  BY <1>1, <1>2, LaneUntouched

(***************************************************************************)
(* One lemma per action: what it keeps for the lane that takes it, where   *)
(* the commands of the lanes wait for each other.                          *)
(***************************************************************************)

LEMMA KeepStartRun ==
  ASSUME TypeInv, ArchiveInv, NEW l \in Lanes, StartRun(l)
  PROVE  Kept(l)
<1> USE DEF TypeInv, TypeOK
<1>1. \/ pc'[l] = "loop"
      \/ pc'[l] = "score" /\ variant'[l] = heads[l] /\ cause'[l] = "seed"
  BY DEF StartRun, LocalsOK, Goto, ToScore
<1>2. pc[l] = "idle" /\ UNCHANGED <<dirs, lineage, heads, holdout, finalized, clock, torn>>
  BY DEF StartRun, Launch, fileVars, logVars, ghostVars
<1>3. VariantTells(l)' /\ CopyCurrent(l)' /\ HandTells(l)' /\ ChallengerBeats(l)'
  BY <1>1, <1>2 DEF ArchiveInv, VariantTells, CopyCurrent, HandTells, ChallengerBeats,
     Minted, Finalizing, Promotion, ArchiveOnDisk
<1>4. ArchiveInv'
  BY <1>2, <1>3, ArchiveUntouched DEF Step
<1> QED
  BY <1>1, <1>2, <1>3, <1>4, LaneUntouched

LEMMA KeepStartResume ==
  ASSUME TypeInv, ArchiveInv, NEW l \in Lanes, StartResume(l)
  PROVE  Kept(l)
<1> USE DEF TypeInv, TypeOK
<1>1. pc'[l] = "score" /\ variant'[l] \in dirs /\ cause'[l] = "resume"
  BY DEF StartResume, LocalsOK, Goto, ToScore
<1>2. pc[l] = "idle" /\ UNCHANGED <<dirs, lineage, heads, holdout, finalized, clock, torn>>
  BY DEF StartResume, Launch, fileVars, logVars, ghostVars
<1>3. VariantTells(l)' /\ CopyCurrent(l)' /\ HandTells(l)' /\ ChallengerBeats(l)'
  BY <1>1, <1>2 DEF VariantTells, CopyCurrent, HandTells, ChallengerBeats, Minted,
     Finalizing, Promotion
<1>4. ArchiveInv'
  BY <1>2, <1>3, ArchiveUntouched DEF Step
<1> QED
  BY <1>1, <1>2, <1>3, <1>4, LaneUntouched

(* A record that counts is of a variant of the lane, and was made against  *)
(* the head, if that is scored.                                            *)
LEMMA StatusBeats ==
  ASSUME TypeInv, NEW l \in Lanes, ScoresTell(l),
         NEW v \in Variants, FinalizeStatus(l, v)
  PROVE  /\ ActiveFor(lineage[v], l)
         /\ \/ heads[l] = v
            \/ holdout[l][heads[l]] # NoScore => Beats(l, v, heads[l])
<1> USE DEF TypeInv, TypeOK
<1>1. heads[l] \in Variants /\ heads[l] # NoVariant
  BY DEF FilesOK, Manifest, Variants, NoVariant
<1>2. ActiveFor(lineage[v], l)
  BY DEF FinalizeStatus, ScoresTell
<1>3. ASSUME heads[l] # v, holdout[l][heads[l]] # NoScore
      PROVE  Beats(l, v, heads[l])
  <2>1. ActiveFor(lineage[heads[l]], l)
    BY <1>1, <1>3 DEF ScoresTell
  <2>2. finalized[l][v].baseline = heads[l]
    BY <1>1, <1>3, <2>1 DEF FinalizeStatus, Baselines, PromotionBaselines
  <2> QED
    BY <1>1, <2>2 DEF FinalizeStatus, ScoresTell
<1> QED
  BY <1>2, <1>3

LEMMA KeepStartPromote ==
  ASSUME TypeInv, ArchiveInv, NEW l \in Lanes, StartPromote(l)
  PROVE  Kept(l)
<1> USE DEF TypeInv, TypeOK
<1>1. PICK v \in Variants : FinalizeStatus(l, v) /\ ToPromotion(l, v, "promote")
  BY DEF StartPromote
<1>2. pc'[l] = "mark" /\ variant'[l] = v /\ cause'[l] = "promote"
  BY <1>1 DEF LocalsOK, Goto, ToPromotion
<1>3. pc[l] = "idle" /\ UNCHANGED <<dirs, lineage, heads, holdout, finalized, clock, torn>>
  BY DEF StartPromote, Launch, fileVars, logVars, ghostVars
<1>4. InLineage(lineage, v)
  BY <1>1 DEF FinalizeStatus, ArchiveInv, RecordsTell
<1>5. VariantTells(l)' /\ CopyCurrent(l)'
  BY <1>2, <1>3, <1>4 DEF VariantTells, CopyCurrent, Minted, Finalizing, Promotion
<1>6. ArchiveInv'
  BY <1>3, <1>5, ArchiveUntouched DEF Step
<1>7. ASSUME GateTells(l)
      PROVE  HandTells(l)' /\ ChallengerBeats(l)'
  <2>1. /\ ActiveFor(lineage[v], l)
        /\ heads[l] = v \/ (holdout[l][heads[l]] # NoScore => Beats(l, v, heads[l]))
    BY <1>1, <1>7, StatusBeats DEF GateTells
  <2> QED
    BY <1>2, <1>3, <2>1 DEF HandTells, ChallengerBeats, Beats
<1> QED
  BY <1>2, <1>3, <1>6, <1>7, LaneUntouched

(* Where an undo goes is archived, and counts for the lane.                *)
LEMMA PreviousKnown ==
  ASSUME NEW l \in Lanes, NEW v \in PreviousPromoted(lineage, l)
  PROVE  v \in Variants /\ InLineage(lineage, v) /\ ActiveFor(lineage[v], l)
  BY DEF PreviousPromoted, Latest, Promoted, ActiveFor, InLineage

LEMMA KeepStartUndo ==
  ASSUME TypeInv, ArchiveInv, NEW l \in Lanes, StartUndo(l)
  PROVE  Kept(l)
<1> USE DEF TypeInv, TypeOK
<1>1. PICK v \in PreviousPromoted(lineage, l) : ToPromotion(l, v, "undo")
  BY DEF StartUndo
<1>2. pc'[l] = "mark" /\ variant'[l] = v /\ cause'[l] = "undo"
  BY <1>1, PreviousKnown DEF LocalsOK, Goto, ToPromotion
<1>3. pc[l] = "idle" /\ UNCHANGED <<dirs, lineage, heads, holdout, finalized, clock, torn>>
  BY DEF StartUndo, Launch, fileVars, logVars, ghostVars
<1>4. VariantTells(l)' /\ CopyCurrent(l)' /\ HandTells(l)' /\ ChallengerBeats(l)'
  BY <1>2, <1>3, PreviousKnown DEF VariantTells, CopyCurrent, HandTells, ChallengerBeats,
     Minted, Finalizing, Promotion
<1>5. ArchiveInv'
  BY <1>3, <1>4, ArchiveUntouched DEF Step
<1> QED
  BY <1>2, <1>3, <1>4, <1>5, LaneUntouched

LEMMA KeepDie ==
  ASSUME TypeInv, ArchiveInv, NEW l \in Lanes, Die(l)
  PROVE  Kept(l)
<1> USE DEF TypeInv, TypeOK
<1>1. End(l) /\ UNCHANGED <<dirs, lineage, heads, holdout, finalized, clock>>
  BY DEF Die, fileVars, logVars
<1>2. CASE pc[l] \notin {"read_head", "write_head"}
  BY <1>1, <1>2, EndKeeps DEF Die, Step
<1>3. CASE pc[l] \in {"read_head", "write_head"}
  <2>1. /\ pc'[l] = "idle" /\ VariantTells(l)' /\ CopyCurrent(l)'
        /\ HandTells(l)' /\ ChallengerBeats(l)'
    BY <1>1, EndRests
  <2>2. ArchiveInv'
    BY <1>1, <2>1, ArchiveUntouched DEF Step
  <2>3. l \in torn'
    BY <1>3 DEF Die
  <2> QED
    BY <1>1, <2>1, <2>2, <2>3, SameScores DEF Kept, GateTells, HeadTells
<1> QED
  BY <1>2, <1>3

LEMMA KeepCloneParent ==
  ASSUME OneCommand, TypeInv, ArchiveInv, NEW l \in Lanes, CloneParent(l)
  PROVE  Kept(l)
<1> USE DEF TypeInv, TypeOK
<1>1. PICK v \in Variants : /\ IsNextVariant(dirs, v) /\ dirs' = dirs \cup {v}
                           /\ variant' = [variant EXCEPT ![l] = v]
  BY DEF CloneParent
<1>2. pc'[l] = "gates" /\ variant'[l] = v
  BY <1>1 DEF CloneParent, LocalsOK, Goto
<1>3. pc[l] = "loop" /\ UNCHANGED <<lineage, heads, holdout, finalized, clock, torn>>
  BY DEF CloneParent, logVars, ghostVars
<1>4. v \notin dirs
  BY <1>1 DEF IsNextVariant, Variants
<1>5. ArchiveOnDisk' /\ \A k \in Lanes : RecordsTell(k)'
  BY <1>1, <1>3 DEF ArchiveInv, ArchiveOnDisk, RecordsTell
<1>6. VariantTells(l)' /\ CopyCurrent(l)' /\ HandTells(l)' /\ ChallengerBeats(l)'
  BY <1>1, <1>2, <1>3, <1>4 DEF ArchiveInv, VariantTells, CopyCurrent, HandTells,
     ChallengerBeats, Minted, Finalizing, Promotion, ArchiveOnDisk
<1>7. ArchiveInv'
  BY <1>3, <1>5, <1>6, ArchiveKeptBy DEF ArchiveInv, StampsTell, Step
<1> QED
  BY <1>2, <1>3, <1>6, <1>7, LaneUntouched

(* What is not archived has no score that a discard could take away.       *)
LEMMA DiscardedUnscored ==
  ASSUME TypeInv, NEW l \in Lanes, NEW v \in Variants, ScoresTell(l),
         DiscardVariant(v), ~InLineage(lineage, v)
  PROVE  holdout'[l] = holdout[l]
<1>1. holdout[l][v] = NoScore
  BY DEF ScoresTell, ActiveFor, InLineage
<1> QED
  BY <1>1 DEF DiscardVariant, TypeInv, TypeOK, FilesOK

(* What is discarded is neither archived nor a head, and has no scores.    *)
LEMMA DiscardKeeps ==
  ASSUME OneCommand, TypeInv, ArchiveInv, NEW l \in Lanes, NEW v \in Variants, Step(l),
         DiscardVariant(v), ~InLineage(lineage, v), \A k \in Lanes : v # heads[k],
         UNCHANGED <<lineage, heads, clock, torn>>, pc[l] \in {"gates", "check"}, pc'[l] = "loop"
  PROVE  Kept(l)
<1> USE DEF TypeInv, TypeOK
<1>1. ArchiveOnDisk'
  BY DEF DiscardVariant, ArchiveInv, ArchiveOnDisk
<1>2. ASSUME NEW k \in Lanes, NEW u \in Variants, finalized'[k][u].eligible
      PROVE  u # v /\ finalized'[k][u] = finalized[k][u]
  BY <1>2 DEF DiscardVariant, FilesOK, NoRecord
<1>3. \A k \in Lanes : RecordsTell(k)'
  BY <1>2 DEF ArchiveInv, RecordsTell
<1>4. VariantTells(l)' /\ CopyCurrent(l)' /\ HandTells(l)' /\ ChallengerBeats(l)'
  BY DEF VariantTells, CopyCurrent, HandTells, ChallengerBeats, Minted, Finalizing, Promotion
<1>5. ArchiveInv'
  BY <1>1, <1>3, <1>4, ArchiveKeptBy DEF ArchiveInv, StampsTell
<1>6. ASSUME GateTells(l)
      PROVE  ScoresTell(l)'
  <2>1. holdout'[l] = holdout[l]
    BY <1>6, DiscardedUnscored DEF GateTells
  <2> QED
    BY <1>2, <1>6, <2>1 DEF GateTells, ScoresTell, Beats
<1> QED
  BY <1>4, <1>5, <1>6, SameHead DEF Kept, GateTells, LaneTells

LEMMA KeepRejectVariant ==
  ASSUME OneCommand, TypeInv, ArchiveInv, NEW l \in Lanes, RejectVariant(l)
  PROVE  Kept(l)
<1> USE DEF TypeInv, TypeOK
<1>1. pc[l] = "gates" /\ variant[l] \in Variants
  BY DEF RejectVariant, StageInv, LocalsOK
<1>2. ~InLineage(lineage, variant[l]) /\ \A k \in Lanes : variant[l] # heads[k]
  BY <1>1 DEF ArchiveInv, VariantTells, Minted
<1>3. pc'[l] = "loop"
  BY DEF RejectVariant, NextGeneration, LocalsOK, Goto
<1>4. DiscardVariant(variant[l]) /\ UNCHANGED <<lineage, heads, clock, torn>>
  BY DEF RejectVariant, logVars, ghostVars
<1> QED
  BY <1>1, <1>2, <1>3, <1>4, DiscardKeeps DEF Step

LEMMA KeepSettleVariant ==
  ASSUME OneCommand, TypeInv, ArchiveInv, NEW l \in Lanes, SettleVariant(l)
  PROVE  Kept(l)
<1> USE DEF TypeInv, TypeOK
<1>1. pc[l] = "check" /\ variant[l] \in Variants /\ cause[l] = "generation"
  BY DEF SettleVariant, StageInv, LocalsOK
<1>2. \A k \in Lanes : variant[l] # heads[k]
  BY <1>1 DEF ArchiveInv, VariantTells, Minted
<1>3. pc'[l] = "loop"
  BY DEF SettleVariant, NextGeneration, LocalsOK, Goto
<1>4. UNCHANGED <<lineage, heads, clock, torn>>
  BY DEF SettleVariant, logVars, ghostVars
<1>5. CASE Archived(l)
  <2>1. UNCHANGED <<dirs, holdout, finalized>>
    BY <1>5 DEF SettleVariant
  <2>2. VariantTells(l)' /\ CopyCurrent(l)' /\ HandTells(l)' /\ ChallengerBeats(l)'
    BY <1>3 DEF VariantTells, CopyCurrent, HandTells, ChallengerBeats, Minted, Finalizing,
       Promotion
  <2>3. ArchiveInv'
    BY <1>4, <2>1, <2>2, ArchiveUntouched DEF Step
  <2> QED
    BY <1>1, <1>3, <1>4, <2>1, <2>2, <2>3, LaneUntouched
<1>6. CASE ~Archived(l)
  <2>1. DiscardVariant(variant[l]) /\ ~InLineage(lineage, variant[l])
    BY <1>6 DEF SettleVariant, Archived
  <2> QED
    BY <1>1, <1>2, <1>3, <1>4, <2>1, DiscardKeeps DEF Step
<1> QED
  BY <1>5, <1>6

LEMMA KeepAcceptVariant ==
  ASSUME TypeInv, ArchiveInv, NEW l \in Lanes, AcceptVariant(l)
  PROVE  Kept(l)
<1> USE DEF TypeInv, TypeOK
<1>1. pc'[l] = "score" /\ variant'[l] = variant[l]
  BY DEF AcceptVariant, ToScore, LocalsOK, Goto
<1>2. pc[l] = "gates" /\ UNCHANGED <<dirs, lineage, heads, holdout, finalized, clock, torn>>
  BY DEF AcceptVariant, fileVars, logVars, ghostVars
<1>3. VariantTells(l)' /\ CopyCurrent(l)' /\ HandTells(l)' /\ ChallengerBeats(l)'
  BY <1>1, <1>2 DEF ArchiveInv, VariantTells, CopyCurrent, HandTells, ChallengerBeats,
     Minted, Finalizing, Promotion
<1>4. ArchiveInv'
  BY <1>2, <1>3, ArchiveUntouched DEF Step
<1> QED
  BY <1>1, <1>2, <1>3, <1>4, LaneUntouched

LEMMA KeepReadLineage ==
  ASSUME TypeInv, ArchiveInv, NEW l \in Lanes, ReadLineage(l)
  PROVE  Kept(l)
<1> USE DEF TypeInv, TypeOK
<1>1. pc'[l] = "archive" /\ seen'[l] = lineage /\ UNCHANGED <<variant, cause>>
  BY DEF ReadLineage, LocalsOK, Goto
<1>2. pc[l] = "score" /\ UNCHANGED <<dirs, lineage, heads, holdout, finalized, clock, torn>>
  BY DEF ReadLineage, fileVars, logVars, ghostVars
<1>3. VariantTells(l)' /\ CopyCurrent(l)' /\ HandTells(l)' /\ ChallengerBeats(l)'
  BY <1>1, <1>2 DEF ArchiveInv, VariantTells, CopyCurrent, HandTells, ChallengerBeats,
     Minted, Finalizing, Promotion
<1>4. ArchiveInv'
  BY <1>2, <1>3, ArchiveUntouched DEF Step
<1> QED
  BY <1>1, <1>2, <1>3, <1>4, LaneUntouched

(* Where scoring leads.                                                    *)
LEMMA AfterScoringStage ==
  ASSUME LocalsOK, StageInv, NEW l \in Lanes, pc[l] \in {"score", "archive"}, AfterScoring(l)
  PROVE  pc'[l] \in {"loop", "check", "finalize"} /\ (pc'[l] = "check" => cause[l] = "generation")
  BY DEF AfterScoring, Goto, LocalsOK, StageInv, Scoring

LEMMA KeepNotArchived ==
  ASSUME TypeInv, ArchiveInv, NEW l \in Lanes, NotArchived(l)
  PROVE  Kept(l)
<1> USE DEF TypeInv, TypeOK
<1>1. /\ pc[l] = "score" /\ UNCHANGED <<variant, cause>>
      /\ UNCHANGED <<dirs, lineage, heads, holdout, finalized, clock, torn>>
  BY DEF NotArchived, fileVars, logVars, ghostVars
<1>2. pc'[l] \in {"loop", "check", "finalize"} /\ (pc'[l] = "check" => cause[l] = "generation")
  BY <1>1, AfterScoringStage DEF NotArchived
<1>3. VariantTells(l)' /\ CopyCurrent(l)' /\ HandTells(l)' /\ ChallengerBeats(l)'
  BY <1>1, <1>2 DEF ArchiveInv, VariantTells, CopyCurrent, HandTells, ChallengerBeats,
     Minted, Finalizing, Promotion
<1>4. ArchiveInv'
  BY <1>1, <1>3, ArchiveUntouched DEF Step
<1> QED
  BY <1>1, <1>2, <1>3, <1>4, LaneUntouched

(* What is scored again keeps its promotion, and is archived.              *)
LEMMA AppendedEntry ==
  ASSUME TypeInv, NEW l \in Lanes, AppendEntry(l), CopyCurrent(l)
  PROVE  \A u \in Variants :
           /\ lineage'[u].promoted = lineage[u].promoted
           /\ u # variant[l] => lineage'[u] = lineage[u]
           /\ u = variant[l] => lineage'[u].lane = l
<1> USE DEF TypeInv, TypeOK
<1>1. seen[l] = lineage
  BY DEF AppendEntry, CopyCurrent
<1> QED
  BY <1>1 DEF AppendEntry, LineageEntry, FilesOK, Lineage

LEMMA KeepAppendEntry ==
  ASSUME OneCommand, TypeInv, ArchiveInv, NEW l \in Lanes, AppendEntry(l)
  PROVE  Kept(l)
<1> USE DEF TypeInv, TypeOK
<1>1. /\ pc[l] = "archive" /\ variant[l] \in Variants
      /\ UNCHANGED <<dirs, heads, holdout, finalized, clock, torn, variant, cause>>
  BY DEF AppendEntry, StageInv, LocalsOK, logVars, ghostVars
<1>2. pc'[l] \in {"loop", "check", "finalize"} /\ (pc'[l] = "check" => cause[l] = "generation")
  BY <1>1, AfterScoringStage DEF AppendEntry
<1>3. \A u \in Variants :
        /\ lineage'[u].promoted = lineage[u].promoted
        /\ u # variant[l] => lineage'[u] = lineage[u]
        /\ u = variant[l] => lineage'[u].lane = l
  BY AppendedEntry DEF ArchiveInv
<1>4. l # NoLane
  BY ArchiveAssumption
<1>5. \A u \in Variants : InLineage(lineage, u) => InLineage(lineage, u)'
  BY <1>3, <1>4 DEF InLineage
<1>6. ArchiveOnDisk'
  BY <1>1, <1>3 DEF ArchiveInv, ArchiveOnDisk, VariantTells, InLineage
<1>7. \A k \in Lanes : RecordsTell(k)'
  BY <1>1, <1>5 DEF ArchiveInv, RecordsTell
<1>8. VariantTells(l)' /\ CopyCurrent(l)' /\ HandTells(l)' /\ ChallengerBeats(l)'
  BY <1>1, <1>2 DEF ArchiveInv, VariantTells, CopyCurrent, HandTells, ChallengerBeats,
     Minted, Finalizing, Promotion
<1>9. StampsTell'
  BY <1>1, <1>3, <1>5 DEF ArchiveInv, StampsTell
<1>10. ArchiveInv'
  BY <1>1, <1>6, <1>7, <1>8, <1>9, ArchiveKeptBy DEF Step
<1>11. \A u \in Variants : ActiveFor(lineage[u], l) => ActiveFor(lineage'[u], l)
  BY <1>3, <1>4 DEF ActiveFor
<1>12. GateTells(l) => GateTells(l)'
  BY <1>1, <1>2, <1>8, <1>11 DEF GateTells, ScoresTell, Beats
<1>13. ASSUME UnsharedStamps(l), LaneTells(l)
       PROVE  HeadTells(l)'
  <2>1. ASSUME NEW u \in Variants, lineage[u].promoted > 0
        PROVE  ActiveFor(lineage'[u], l) <=> ActiveFor(lineage[u], l)
    BY <1>1, <1>3, <1>11, <1>13, <2>1 DEF UnsharedStamps
  <2>2. Promoted(lineage', l) = Promoted(lineage, l)
    BY <1>3, <2>1 DEF Promoted
  <2>3. Latest(lineage', Promoted(lineage, l)) = Latest(lineage, Promoted(lineage, l))
    BY <1>3 DEF Latest, Promoted
  <2> QED
    BY <1>1, <1>2, <1>13, <2>2, <2>3 DEF LaneTells, HeadTells, Stamped
<1> QED
  BY <1>10, <1>12, <1>13 DEF Kept

LEMMA KeepPickFinalist ==
  ASSUME TypeInv, ArchiveInv, NEW l \in Lanes, PickFinalist(l)
  PROVE  Kept(l)
<1> USE DEF TypeInv, TypeOK
<1>1. /\ pc[l] \in {"finalize", "loop"}
      /\ UNCHANGED <<dirs, lineage, heads, holdout, finalized, clock, torn>>
  BY DEF PickFinalist, fileVars, logVars, ghostVars
<1>2. CASE End(l)
  BY <1>1, <1>2, EndKeeps DEF Step
<1>3. CASE ~End(l)
  <2>1. PICK v \in BestInLane(lineage, l) :
          variant' = [variant EXCEPT ![l] = v] /\ Goto(l, "holdout")
    BY <1>3 DEF PickFinalist
  <2>2. InLineage(lineage, v) /\ ActiveFor(lineage[v], l)
    BY DEF BestInLane, TopScored, ActiveFor, InLineage
  <2>3. pc'[l] = "holdout" /\ variant'[l] = v
    BY <2>1 DEF LocalsOK, Goto
  <2>4. VariantTells(l)' /\ CopyCurrent(l)' /\ HandTells(l)' /\ ChallengerBeats(l)'
    BY <1>1, <2>2, <2>3 DEF VariantTells, CopyCurrent, HandTells, ChallengerBeats, Minted,
       Finalizing, Promotion
  <2>5. ArchiveInv'
    BY <1>1, <2>4, ArchiveUntouched DEF Step
  <2> QED
    BY <1>1, <2>3, <2>4, <2>5, LaneUntouched
<1> QED
  BY <1>2, <1>3

(* A cached score never changes while its variant is there.                *)
LEMMA CachedStays ==
  ASSUME NEW l \in Lanes, FilesOK, NEW b \in Variants, NEW s \in Scores,
         HoldoutScore(l, b, s), holdout'[l] = [holdout[l] EXCEPT ![b] = s]
  PROVE  /\ holdout'[l][b] = s /\ s # NoScore
         /\ \A v \in Variants : holdout[l][v] # NoScore => holdout'[l][v] = holdout[l][v]
         /\ \A v \in Variants : v # b => holdout'[l][v] = holdout[l][v]
  BY DEF HoldoutScore, FilesOK, Scores, NoScore

(* The baseline of a record is a variant or none.                          *)
LEMMA RecordBaseline ==
  ASSUME FilesOK, NEW l \in Lanes, NEW v \in Variants,
         finalized[l][v].eligible, finalized[l][v].baseline # NoVariant
  PROVE  finalized[l][v].baseline \in Variants
  BY DEF FilesOK, Record, NoRecord

LEMMA KeepEvaluateHoldout ==
  ASSUME TypeInv, ArchiveInv, NEW l \in Lanes, EvaluateHoldout(l)
  PROVE  Kept(l)
<1> USE DEF TypeInv, TypeOK
<1>1. /\ pc[l] = "holdout" /\ variant[l] \in Variants
      /\ UNCHANGED <<dirs, lineage, heads, finalized, clock, torn, variant>>
  BY DEF EvaluateHoldout, StageInv, LocalsOK, logVars, ghostVars
<1>2. PICK s \in Scores : /\ HoldoutScore(l, variant[l], s)
                         /\ holdout'[l] = [holdout[l] EXCEPT ![variant[l]] = s]
  BY DEF EvaluateHoldout, FilesOK
<1>3. pc'[l] = "record" /\ seen'[l] = lineage
  BY DEF EvaluateHoldout, LocalsOK, Goto
<1>4. InLineage(lineage, variant[l])
  BY <1>1 DEF ArchiveInv, VariantTells, Finalizing
<1>5. /\ VariantTells(l)' /\ CopyCurrent(l)' /\ ChallengerBeats(l)'
      /\ HandTells(l) => HandTells(l)'
  BY <1>1, <1>3, <1>4 DEF VariantTells, CopyCurrent, HandTells, ChallengerBeats, Minted,
     Finalizing, Promotion
<1>6. ArchiveInv'
  BY <1>1, <1>5, ArchiveUntouched DEF Step
<1>7. ASSUME GateTells(l)
      PROVE  GateTells(l)'
  <2>1. /\ holdout'[l][variant[l]] # NoScore
        /\ \A v \in Variants : holdout[l][v] # NoScore => holdout'[l][v] = holdout[l][v]
        /\ \A v \in Variants : v # variant[l] => holdout'[l][v] = holdout[l][v]
    <3>1. FilesOK /\ variant[l] \in Variants
      BY <1>1
    <3>2. HoldoutScore(l, variant[l], s) /\ holdout'[l] = [holdout[l] EXCEPT ![variant[l]] = s]
      BY <1>2
    <3> HIDE DEF TypeInv, TypeOK
    <3> QED
      BY <3>1, <3>2 DEF HoldoutScore, FilesOK, Scores, NoScore
  <2>2. ActiveFor(lineage[variant[l]], l)
    BY <1>1, <1>7 DEF GateTells, HandTells, Finalizing
  <2>3. ScoresTell(l)'
    BY <1>1, <1>7, <2>1, <2>2, RecordBaseline DEF GateTells, ScoresTell, Beats
  <2> QED
    BY <1>5, <1>7, <2>3 DEF GateTells
<1> QED
  BY <1>1, <1>3, <1>6, <1>7, SameHead DEF Kept, LaneTells

(* The baseline of a variant is another one, and counts for the lane.      *)
LEMMA BaselineKnown ==
  ASSUME FilesOK, NEW l \in Lanes, NEW v, NEW b \in Baselines(l, v), b # NoVariant
  PROVE  b \in Variants /\ b # v /\ ActiveFor(lineage[b], l)
  BY BaselineType DEF Baselines, PromotionBaselines, Promoted, Latest, ActiveFor, InLineage

LEMMA KeepWriteRecord ==
  ASSUME OneCommand, TypeInv, ArchiveInv, NEW l \in Lanes, WriteRecord(l)
  PROVE  Kept(l)
<1> USE DEF TypeInv, TypeOK
<1>1. /\ pc[l] = "record" /\ variant[l] \in Variants
      /\ UNCHANGED <<dirs, lineage, heads, clock, torn, variant>>
  BY DEF WriteRecord, StageInv, LocalsOK, logVars
<1>2. pc'[l] = "publish" /\ seen'[l] = lineage
  BY DEF WriteRecord, LocalsOK, Goto
<1> DEFINE v == variant[l]
<1>3. PICK b \in Baselines(l, v), s \in Scores \cup {NoScore} :
        /\ IF b = NoVariant THEN s = NoScore ELSE HoldoutScore(l, b, s)
        /\ holdout' = IF b = NoVariant THEN holdout ELSE [holdout EXCEPT ![l][b] = s]
        /\ finalized' = [finalized EXCEPT ![l][v] =
             [baseline |-> b, eligible |-> HoldoutEligible(seen[l][v], holdout[l][v], s)]]
  BY DEF WriteRecord
<1>4. /\ finalized'[l][v].baseline = b
      /\ finalized'[l][v].eligible = HoldoutEligible(seen[l][v], holdout[l][v], s)
      /\ \A u \in Variants : u # v => finalized'[l][u] = finalized[l][u]
      /\ \A k \in Lanes : k # l => finalized'[k] = finalized[k]
  <2>1. finalized'[l] = [finalized[l] EXCEPT ![v] =
             [baseline |-> b, eligible |-> HoldoutEligible(seen[l][v], holdout[l][v], s)]]
    BY <1>1, <1>3 DEF FilesOK
  <2>2. \A k \in Lanes : k # l => finalized'[k] = finalized[k]
    BY <1>1, <1>3 DEF FilesOK
  <2> QED
    BY <1>1, <2>1, <2>2 DEF FilesOK
<1>5. InLineage(lineage, v)
  BY <1>1 DEF ArchiveInv, VariantTells, Finalizing
<1>6. ArchiveOnDisk'
  BY <1>1 DEF ArchiveInv, ArchiveOnDisk
<1>7. \A k \in Lanes : RecordsTell(k)'
  <2>1. ASSUME NEW k \in Lanes, NEW u \in Variants, finalized'[k][u].eligible
        PROVE  InLineage(lineage, u)
    BY <1>4, <1>5, <2>1 DEF ArchiveInv, RecordsTell
  <2> QED
    BY <1>1, <2>1 DEF RecordsTell
<1>8. /\ VariantTells(l)' /\ CopyCurrent(l)' /\ ChallengerBeats(l)'
      /\ HandTells(l) => HandTells(l)'
  BY <1>1, <1>2, <1>5 DEF VariantTells, CopyCurrent, HandTells, ChallengerBeats, Minted,
     Finalizing, Promotion
<1>9. ArchiveInv'
  BY <1>1, <1>6, <1>7, <1>8, ArchiveKeptBy DEF ArchiveInv, StampsTell, Step
<1>10. ASSUME GateTells(l)
       PROVE  GateTells(l)'
  <2> USE DEF GateTells
  <2>1. b \in Variants \cup {NoVariant}
    BY BaselineType
  <2>2. b # NoVariant => b # v /\ ActiveFor(lineage[b], l)
    BY BaselineKnown
  <2>3. holdout'[l] = IF b = NoVariant THEN holdout[l] ELSE [holdout[l] EXCEPT ![b] = s]
    BY <1>3, <2>1 DEF FilesOK
  <2>4. /\ b # NoVariant => holdout'[l][b] = s /\ s # NoScore /\ s \in Scores
        /\ \A u \in Variants : holdout[l][u] # NoScore => holdout'[l][u] = holdout[l][u]
        /\ \A u \in Variants : u # b => holdout'[l][u] = holdout[l][u]
    <3>1. CASE b = NoVariant
      BY <2>3, <3>1
    <3>2. CASE b # NoVariant
      <4>1. HoldoutScore(l, b, s) /\ s \in Scores
        BY <1>3, <3>2 DEF HoldoutScore
      <4> QED
        BY <2>1, <2>3, <3>2, <4>1, CachedStays
    <3> QED
      BY <3>1, <3>2
  <2>5. holdout[l][v] # NoScore /\ holdout'[l][v] = holdout[l][v]
    BY <1>1, <1>10, <2>4 DEF ScoresTell
  <2>6. ASSUME NEW u \in Variants, holdout'[l][u] # NoScore
        PROVE  ActiveFor(lineage'[u], l)
    BY <1>1, <1>10, <2>2, <2>4, <2>6, BaselineKnown DEF ScoresTell, NoVariant, Variants
  <2>7. ASSUME NEW u \in Variants, finalized'[l][u].eligible
        PROVE  /\ holdout'[l][u] # NoScore
               /\ finalized'[l][u].baseline # NoVariant =>
                    /\ holdout'[l][finalized'[l][u].baseline] # NoScore
                    /\ holdout'[l][u] > holdout'[l][finalized'[l][u].baseline]
    <3>1. CASE u = v
      <4>1. HoldoutEligible(seen[l][v], holdout[l][v], s)
        BY <1>4, <2>7, <3>1
      <4>2. s # NoScore => holdout[l][v] > s
        BY <4>1 DEF HoldoutEligible
      <4> QED
        BY <1>4, <2>4, <2>5, <3>1, <4>2
    <3>2. CASE u # v
      <4>1. finalized[l][u].eligible /\ finalized'[l][u] = finalized[l][u]
        BY <1>4, <2>7, <3>2
      <4> QED
        BY <1>10, <2>4, <4>1, RecordBaseline DEF ScoresTell, Beats
    <3> QED
      BY <3>1, <3>2
  <2>8. ScoresTell(l)'
    BY <1>2, <2>6, <2>7 DEF ScoresTell, Beats
  <2> QED
    BY <1>8, <1>10, <2>8
<1> QED
  BY <1>1, <1>2, <1>9, <1>10, SameHead DEF Kept, LaneTells

LEMMA KeepAppendHoldout ==
  ASSUME TypeInv, ArchiveInv, NEW l \in Lanes, AppendHoldout(l)
  PROVE  Kept(l)
<1> USE DEF TypeInv, TypeOK
<1>1. /\ pc[l] = "publish" /\ variant[l] \in Variants
      /\ UNCHANGED <<dirs, heads, holdout, finalized, clock, torn, variant>>
  BY DEF AppendHoldout, StageInv, LocalsOK, logVars, ghostVars
<1>2. pc'[l] = "shortlist"
  BY DEF AppendHoldout, LocalsOK, Goto
<1>3. lineage' = lineage
  <2>1. seen[l] = lineage
    BY <1>1 DEF ArchiveInv, CopyCurrent
  <2> QED
    BY <2>1 DEF AppendHoldout, FilesOK, Lineage
<1>4. /\ VariantTells(l)' /\ CopyCurrent(l)' /\ ChallengerBeats(l)'
      /\ HandTells(l) => HandTells(l)'
  BY <1>1, <1>2, <1>3 DEF ArchiveInv, VariantTells, CopyCurrent, HandTells,
     ChallengerBeats, Minted, Finalizing, Promotion
<1>5. ArchiveInv'
  BY <1>1, <1>3, <1>4, ArchiveUntouched DEF Step
<1> QED
  BY <1>1, <1>2, <1>3, <1>4, <1>5, LaneUntouched DEF GateTells

LEMMA KeepWriteShortlist ==
  ASSUME TypeInv, ArchiveInv, NEW l \in Lanes, WriteShortlist(l)
  PROVE  Kept(l)
<1> USE DEF TypeInv, TypeOK
<1>1. /\ pc[l] = "shortlist" /\ variant[l] \in Variants
      /\ UNCHANGED <<dirs, lineage, heads, holdout, finalized, clock, torn>>
  BY DEF WriteShortlist, StageInv, LocalsOK, logVars, ghostVars
<1>2. CASE End(l)
  BY <1>1, <1>2, EndKeeps DEF Step
<1>3. CASE ~End(l)
  <2>1. FinalizeStatus(l, variant[l]) /\ ToPromotion(l, variant[l], "finalize")
    BY <1>3 DEF WriteShortlist
  <2>2. pc'[l] = "mark" /\ variant'[l] = variant[l] /\ cause'[l] = "finalize"
    BY <2>1 DEF ToPromotion, LocalsOK, Goto
  <2>3. VariantTells(l)' /\ CopyCurrent(l)'
    BY <1>1, <2>2 DEF ArchiveInv, VariantTells, CopyCurrent, Minted, Finalizing, Promotion
  <2>4. ArchiveInv'
    BY <1>1, <2>3, ArchiveUntouched DEF Step
  <2>5. ASSUME GateTells(l)
        PROVE  HandTells(l)' /\ ChallengerBeats(l)'
    <3>1. /\ ActiveFor(lineage[variant[l]], l)
          /\ \/ heads[l] = variant[l]
             \/ holdout[l][heads[l]] # NoScore => Beats(l, variant[l], heads[l])
      BY <1>1, <2>1, <2>5, StatusBeats DEF GateTells
    <3> QED
      BY <1>1, <2>2, <3>1 DEF HandTells, ChallengerBeats, Beats
  <2> QED
    BY <1>1, <2>2, <2>4, <2>5, LaneUntouched
<1> QED
  BY <1>2, <1>3

LEMMA KeepReadForMark ==
  ASSUME TypeInv, ArchiveInv, NEW l \in Lanes, ReadForMark(l)
  PROVE  Kept(l)
<1> USE DEF TypeInv, TypeOK
<1>1. /\ pc[l] = "mark" /\ UNCHANGED <<variant, cause>>
      /\ UNCHANGED <<dirs, lineage, heads, holdout, finalized, clock, torn>>
  BY DEF ReadForMark, fileVars, logVars, ghostVars
<1>2. pc'[l] = "stamp" /\ seen'[l] = lineage
  BY DEF ReadForMark, LocalsOK, Goto
<1>3. VariantTells(l)' /\ CopyCurrent(l)'
  BY <1>1, <1>2 DEF ArchiveInv, VariantTells, CopyCurrent, Minted, Finalizing, Promotion
<1>4. ArchiveInv'
  BY <1>1, <1>3, ArchiveUntouched DEF Step
<1>5. GateTells(l) => HandTells(l)' /\ ChallengerBeats(l)'
  BY <1>1, <1>2 DEF GateTells, HandTells, ChallengerBeats, Promotion, Beats
<1> QED
  BY <1>1, <1>2, <1>4, <1>5, LaneUntouched

(* The new stamp is the latest of all.                                     *)
LEMMA KeepMarkPromoted ==
  ASSUME OneCommand, TypeInv, ArchiveInv, NEW l \in Lanes, MarkPromoted(l)
  PROVE  Kept(l)
<1> USE DEF TypeInv, TypeOK
<1> DEFINE v == variant[l]
<1>1. /\ pc[l] = "stamp" /\ UNCHANGED <<dirs, heads, holdout, finalized, variant, cause>>
      /\ clock' = clock + 1
  BY DEF MarkPromoted
<1>2. v \in Variants /\ clock \in Nat
  <2>1. v \in Variants
    BY <1>1 DEF StageInv, LocalsOK
  <2>2. clock \in Nat
    BY ArchiveAssumption DEF LogsOK, Moments
  <2> QED
    BY <2>1, <2>2
<1>3. pc'[l] = "read_head"
  BY DEF MarkPromoted, LocalsOK, Goto
<1>4. InLineage(lineage, v)
  BY <1>1 DEF ArchiveInv, VariantTells, Promotion
<1>5. /\ lineage'[v].lane = lineage[v].lane /\ lineage'[v].promoted = clock + 1
      /\ \A u \in Variants : u # v => lineage'[u] = lineage[u]
  <2>1. seen[l] = lineage
    BY <1>1 DEF ArchiveInv, CopyCurrent
  <2>2. lineage' = [lineage EXCEPT ![v] = [lineage[v] EXCEPT !.promoted = clock + 1]]
    BY <2>1 DEF MarkPromoted
  <2>3. lineage'[v] = [lineage[v] EXCEPT !.promoted = clock + 1]
    BY <1>2, <2>2 DEF FilesOK, Lineage
  <2> QED
    BY <1>2, <2>2, <2>3 DEF FilesOK, Lineage, Known
<1>6. \A u \in Variants : InLineage(lineage, u)' <=> InLineage(lineage, u)
  BY <1>5 DEF InLineage
<1>7. ArchiveOnDisk'
  BY <1>1, <1>6 DEF ArchiveInv, ArchiveOnDisk
<1>8. \A k \in Lanes : RecordsTell(k)'
  BY <1>1, <1>6 DEF ArchiveInv, RecordsTell
<1>9. VariantTells(l)' /\ CopyCurrent(l)'
  BY <1>1, <1>2, <1>3, <1>4, <1>6 DEF VariantTells, CopyCurrent, Minted, Finalizing, Promotion
<1>10. StampsTell'
  <2>1. \A u \in Variants : lineage[u].promoted \in Nat
    BY ArchiveAssumption DEF FilesOK, Lineage, Known, Moments
  <2> QED
    BY <1>1, <1>2, <1>4, <1>5, <1>6, <2>1 DEF ArchiveInv, StampsTell
<1>11. ArchiveInv'
  BY <1>1, <1>7, <1>8, <1>9, <1>10, ArchiveKeptBy DEF Step
<1>12. \A u \in Variants : ActiveFor(lineage'[u], l) <=> ActiveFor(lineage[u], l)
  BY <1>5 DEF ActiveFor
<1>13. ASSUME GateTells(l)
       PROVE  GateTells(l)'
  <2>1. ScoresTell(l)'
    BY <1>1, <1>3, <1>12, <1>13 DEF GateTells, ScoresTell, Beats
  <2>2. HandTells(l)' /\ ChallengerBeats(l)'
    BY <1>1, <1>2, <1>3, <1>12, <1>13
       DEF GateTells, HandTells, ChallengerBeats, Promotion, Beats
  <2> QED
    BY <2>1, <2>2 DEF GateTells
<1>14. ASSUME GateTells(l)
       PROVE  HeadTells(l)'
  <2>1. v \in Promoted(lineage', l)
    BY <1>1, <1>2, <1>5, <1>12, <1>14 DEF Promoted, GateTells, HandTells, Promotion
  <2>2. \A u \in Variants : lineage'[u].promoted <= lineage'[v].promoted
    BY <1>1, <1>5, <1>10 DEF StampsTell
  <2>3. v \in Latest(lineage', Promoted(lineage', l))
    BY <2>1, <2>2 DEF Latest, Promoted
  <2> QED
    BY <1>1, <1>3, <2>3 DEF HeadTells, Stamped
<1> QED
  BY <1>11, <1>13, <1>14 DEF Kept, LaneTells

LEMMA KeepReadManifest ==
  ASSUME TypeInv, ArchiveInv, NEW l \in Lanes, ReadManifest(l)
  PROVE  Kept(l)
<1> USE DEF TypeInv, TypeOK
<1>1. /\ pc[l] = "read_head" /\ UNCHANGED <<variant, cause>>
      /\ UNCHANGED <<dirs, lineage, heads, holdout, finalized, clock, torn>>
  BY DEF ReadManifest, fileVars, logVars, ghostVars
<1>2. pc'[l] = "write_head" /\ manifest'[l] = heads
  BY DEF ReadManifest, LocalsOK, Goto
<1>3. VariantTells(l)' /\ CopyCurrent(l)'
  BY <1>1, <1>2 DEF ArchiveInv, VariantTells, CopyCurrent, Minted, Finalizing, Promotion
<1>4. ArchiveInv'
  BY <1>1, <1>3, ArchiveUntouched DEF Step
<1>5. GateTells(l) => GateTells(l)'
  BY <1>1, <1>2, SameScores DEF GateTells, HandTells, ChallengerBeats, Promotion, Beats
<1>6. HeadTells(l) => HeadTells(l)'
  BY <1>1, <1>2 DEF HeadTells, Stamped
<1> QED
  BY <1>4, <1>5, <1>6 DEF Kept, LaneTells

LEMMA KeepSetCurrentHead ==
  ASSUME OneCommand, TypeInv, ArchiveInv, NEW l \in Lanes, SetCurrentHead(l)
  PROVE  Kept(l)
<1> USE DEF TypeInv, TypeOK
<1>1. /\ pc[l] = "write_head" /\ variant[l] \in Variants
      /\ UNCHANGED <<dirs, lineage, holdout, finalized, clock>>
  BY DEF SetCurrentHead, StageInv, LocalsOK, logVars
<1>2. heads'[l] = variant[l] /\ \A k \in Lanes : k # l => heads'[k] = heads[k]
  BY <1>1 DEF SetCurrentHead, ArchiveInv, CopyCurrent, FilesOK, Manifest
<1>3. InLineage(lineage, variant[l])
  BY <1>1 DEF ArchiveInv, VariantTells, Promotion
<1>4. ArchiveOnDisk' /\ \A k \in Lanes : RecordsTell(k)'
  BY <1>1, <1>2, <1>3 DEF ArchiveInv, ArchiveOnDisk, RecordsTell
<1>5. /\ pc'[l] \in {"idle", "head_score"}
      /\ VariantTells(l)' /\ CopyCurrent(l)' /\ HandTells(l)' /\ ChallengerBeats(l)'
  <2>1. CASE End(l)
    BY <2>1, EndRests
  <2>2. CASE ~End(l)
    <3>1. pc'[l] = "head_score"
      BY <2>2 DEF SetCurrentHead, LocalsOK, Goto
    <3> QED
      BY <3>1 DEF CopyCurrent, VariantTells, HandTells, ChallengerBeats, Minted,
         Finalizing, Promotion
  <2> QED
    BY <2>1, <2>2
<1>6. ArchiveInv'
  BY <1>1, <1>4, <1>5, ArchiveKeptBy DEF ArchiveInv, StampsTell, Step
<1>7. GateTells(l) => GateTells(l)'
  BY <1>1, <1>5, SameScores DEF GateTells
<1>8. ASSUME HeadTells(l)
      PROVE  HeadTells(l)'
  <2>1. variant[l] \in Latest(lineage, Stamped(l))
    BY <1>1, <1>8 DEF HeadTells
  <2> QED
    BY <1>1, <1>2, <1>5, <2>1 DEF HeadTells, Stamped
<1> QED
  BY <1>6, <1>7, <1>8 DEF Kept, LaneTells

LEMMA KeepRecordHeadScore ==
  ASSUME TypeInv, ArchiveInv, NEW l \in Lanes, RecordHeadScore(l)
  PROVE  Kept(l)
<1> USE DEF TypeInv, TypeOK
<1>1. /\ pc[l] = "head_score"
      /\ UNCHANGED <<dirs, lineage, heads, holdout, finalized, clock, torn>>
  BY DEF RecordHeadScore, fileVars, ghostVars
<1>2. pc'[l] = "rollback"
  BY DEF RecordHeadScore, LocalsOK, Goto
<1>3. VariantTells(l)' /\ CopyCurrent(l)' /\ HandTells(l)' /\ ChallengerBeats(l)'
  BY <1>2 DEF CopyCurrent, VariantTells, HandTells, ChallengerBeats, Minted, Finalizing,
     Promotion
<1>4. ArchiveInv'
  BY <1>1, <1>3, ArchiveUntouched DEF Step
<1> QED
  BY <1>1, <1>2, <1>3, <1>4, LaneUntouched

LEMMA KeepCheckRollback ==
  ASSUME TypeInv, ArchiveInv, NEW l \in Lanes, CheckRollback(l)
  PROVE  Kept(l)
<1> USE DEF TypeInv, TypeOK
<1>1. /\ pc[l] = "rollback"
      /\ UNCHANGED <<dirs, lineage, heads, holdout, finalized, clock, torn>>
  BY DEF CheckRollback, fileVars, ghostVars
<1>2. CASE End(l)
  BY <1>1, <1>2, EndKeeps DEF Step
<1>3. CASE ~End(l)
  <2>1. PICK v \in PreviousPromoted(lineage, l) : ToPromotion(l, v, "rollback")
    BY <1>3 DEF CheckRollback
  <2>2. pc'[l] = "mark" /\ variant'[l] = v /\ cause'[l] = "rollback"
    BY <2>1, PreviousKnown DEF ToPromotion, LocalsOK, Goto
  <2>3. VariantTells(l)' /\ CopyCurrent(l)' /\ HandTells(l)' /\ ChallengerBeats(l)'
    BY <1>1, <2>2, PreviousKnown DEF CopyCurrent, VariantTells, HandTells, ChallengerBeats,
       Minted, Finalizing, Promotion
  <2>4. ArchiveInv'
    BY <1>1, <2>3, ArchiveUntouched DEF Step
  <2> QED
    BY <1>1, <2>2, <2>3, <2>4, LaneUntouched
<1> QED
  BY <1>2, <1>3

LEMMA OwnStep ==
  ASSUME OneCommand, TypeInv, ArchiveInv, NEW l \in Lanes, Step(l)
  PROVE  Kept(l)
  BY KeepStartRun, KeepStartResume, KeepStartPromote, KeepStartUndo, KeepDie,
     KeepCloneParent, KeepRejectVariant, KeepAcceptVariant, KeepReadLineage, KeepAppendEntry,
     KeepNotArchived, KeepSettleVariant, KeepPickFinalist, KeepEvaluateHoldout,
     KeepWriteRecord, KeepAppendHoldout, KeepWriteShortlist, KeepReadForMark,
     KeepMarkPromoted, KeepReadManifest, KeepSetCurrentHead, KeepRecordHeadScore,
     KeepCheckRollback DEF Step

(***************************************************************************)
(* What the command at work on k does to lane l: it may take an entry      *)
(* over, or stamp it, and nothing else.                                    *)
(***************************************************************************)
Spared(l) ==
  /\ heads'[l] = heads[l]
  /\ l \in torn' <=> l \in torn
  /\ ScoresTell(l) => holdout'[l] = holdout[l]
  /\ \A v \in Variants : finalized'[l][v].eligible => finalized'[l][v] = finalized[l][v]

TookOver(k, v) ==
  /\ pc[k] = "archive" /\ v = variant[k]
  /\ lineage'[v].lane = k /\ lineage'[v].promoted = lineage[v].promoted

StampedBy(k, v) ==
  /\ pc[k] = "stamp" /\ v = variant[k]
  /\ lineage'[v].lane = lineage[v].lane

Besides(k, l) ==
  /\ Spared(l)
  /\ \A v \in Variants : lineage'[v] = lineage[v] \/ TookOver(k, v) \/ StampedBy(k, v)

(* Most steps write no file at all, or only the records of their lane.     *)
LEMMA QuietBesides ==
  ASSUME NEW k \in Lanes, NEW l \in Lanes \ {k},
         UNCHANGED <<lineage, heads, holdout, finalized>>, torn' \in {torn, torn \cup {k}}
  PROVE  Besides(k, l)
  BY DEF Besides, Spared

LEMMA DiscardBesides ==
  ASSUME TypeInv, NEW k \in Lanes, NEW l \in Lanes \ {k}, NEW v \in Variants,
         DiscardVariant(v), ~InLineage(lineage, v), UNCHANGED <<lineage, heads, torn>>
  PROVE  Besides(k, l)
<1>1. ScoresTell(l) => holdout'[l] = holdout[l]
  BY DiscardedUnscored
<1>2. ASSUME NEW u \in Variants, finalized'[l][u].eligible
      PROVE  finalized'[l][u] = finalized[l][u]
  BY <1>2 DEF DiscardVariant, TypeInv, TypeOK, FilesOK, NoRecord
<1> QED
  BY <1>1, <1>2 DEF Besides, Spared

LEMMA StepBesides ==
  ASSUME TypeInv, ArchiveInv, NEW k \in Lanes, NEW l \in Lanes \ {k}, Step(k)
  PROVE  Besides(k, l)
<1> USE DEF TypeInv, TypeOK
<1>1. CASE StartRun(k) \/ StartResume(k) \/ StartPromote(k) \/ StartUndo(k)
  BY <1>1, QuietBesides DEF StartRun, StartResume, StartPromote, StartUndo, fileVars, ghostVars
<1>2. CASE Die(k) \/ CloneParent(k) \/ AcceptVariant(k) \/ ReadLineage(k) \/ NotArchived(k)
  BY <1>2, QuietBesides DEF Die, CloneParent, AcceptVariant, ReadLineage, NotArchived,
     fileVars, ghostVars
<1>3. CASE PickFinalist(k) \/ WriteShortlist(k) \/ ReadForMark(k) \/ ReadManifest(k)
  BY <1>3, QuietBesides DEF PickFinalist, WriteShortlist, ReadForMark, ReadManifest,
     fileVars, ghostVars
<1>4. CASE RecordHeadScore(k) \/ CheckRollback(k)
  BY <1>4, QuietBesides DEF RecordHeadScore, CheckRollback, fileVars, ghostVars
<1>5. CASE RejectVariant(k)
  <2>1. pc[k] = "gates" /\ variant[k] \in Variants /\ ~InLineage(lineage, variant[k])
    BY <1>5 DEF RejectVariant, StageInv, LocalsOK, ArchiveInv, VariantTells, Minted
  <2> QED
    BY <1>5, <2>1, DiscardBesides DEF RejectVariant, ghostVars
<1>6. CASE SettleVariant(k)
  <2>1. variant[k] \in Variants /\ UNCHANGED <<lineage, heads, torn>>
    BY <1>6 DEF SettleVariant, StageInv, LocalsOK, ghostVars
  <2>2. CASE Archived(k)
    BY <1>6, <2>1, <2>2, QuietBesides DEF SettleVariant
  <2>3. CASE ~Archived(k)
    BY <1>6, <2>1, <2>3, DiscardBesides DEF SettleVariant, Archived
  <2> QED
    BY <2>2, <2>3
<1>7. CASE EvaluateHoldout(k)
  BY <1>7 DEF EvaluateHoldout, Besides, Spared, FilesOK, ghostVars
<1>8. CASE WriteRecord(k)
  <2>1. UNCHANGED <<lineage, heads, torn>>
    BY <1>8 DEF WriteRecord
  <2>2. holdout'[l] = holdout[l] /\ finalized'[l] = finalized[l]
    BY <1>8 DEF WriteRecord, FilesOK
  <2> QED
    BY <2>1, <2>2 DEF Besides, Spared
<1>9. CASE AppendHoldout(k)
  <2>1. lineage' = lineage
    BY <1>9 DEF AppendHoldout, ArchiveInv, CopyCurrent, FilesOK, Lineage
  <2> QED
    BY <1>9, <2>1, QuietBesides DEF AppendHoldout, ghostVars
<1>10. CASE AppendEntry(k)
  <2>1. \A v \in Variants : lineage'[v] = lineage[v] \/ TookOver(k, v)
    BY <1>10, AppendedEntry DEF AppendEntry, TookOver, ArchiveInv
  <2> QED
    BY <1>10, <2>1 DEF AppendEntry, Besides, Spared, ghostVars
<1>11. CASE MarkPromoted(k)
  <2>1. pc[k] = "stamp" /\ variant[k] \in Variants /\ seen[k] = lineage
    BY <1>11 DEF MarkPromoted, StageInv, LocalsOK, ArchiveInv, CopyCurrent
  <2>2. lineage' = [lineage EXCEPT ![variant[k]] =
                      [lineage[variant[k]] EXCEPT !.promoted = clock + 1]]
    BY <1>11, <2>1 DEF MarkPromoted
  <2>3. lineage'[variant[k]] = [lineage[variant[k]] EXCEPT !.promoted = clock + 1]
    BY <2>1, <2>2 DEF FilesOK, Lineage
  <2>4. \A v \in Variants : lineage'[v] = lineage[v] \/ StampedBy(k, v)
    BY <2>1, <2>2, <2>3 DEF FilesOK, Lineage, Known, StampedBy
  <2> QED
    BY <1>11, <2>4 DEF MarkPromoted, Besides, Spared, ghostVars
<1>12. CASE SetCurrentHead(k)
  <2>1. heads'[l] = heads[l]
    BY <1>12 DEF SetCurrentHead, ArchiveInv, CopyCurrent, FilesOK, Manifest
  <2> QED
    BY <1>12, <2>1 DEF SetCurrentHead, Besides, Spared
<1> QED
  BY <1>1, <1>2, <1>3, <1>4, <1>5, <1>6, <1>7, <1>8, <1>9, <1>10, <1>11, <1>12 DEF Step

(* An entry that counts for l goes on counting for it.                     *)
LEMMA GateBesides ==
  ASSUME TypeInv, NEW k \in Lanes, NEW l \in Lanes \ {k}, Elsewhere(k), Besides(k, l),
         Unshared(l), GateTells(l)
  PROVE  GateTells(l)'
<1>1. pc'[l] = pc[l] /\ variant'[l] = variant[l] /\ cause'[l] = cause[l]
  BY DEF Elsewhere
<1>2. ASSUME NEW v \in Variants, ActiveFor(lineage[v], l)
      PROVE  ActiveFor(lineage'[v], l)
  <2>1. CASE TookOver(k, v)
    BY <1>2, <2>1, ArchiveAssumption DEF TookOver, Unshared, ActiveFor
  <2>2. CASE StampedBy(k, v)
    BY <1>2, <2>2 DEF StampedBy, ActiveFor
  <2> QED
    BY <1>2, <2>1, <2>2 DEF Besides
<1>3. holdout'[l] = holdout[l] /\ heads'[l] = heads[l]
  BY DEF Besides, Spared, GateTells
<1>4. ScoresTell(l)'
  BY <1>1, <1>2, <1>3 DEF GateTells, ScoresTell, Beats, Besides, Spared
<1>5. HandTells(l)'
  <2>1. ASSUME pc[l] \in Finalizing \cup Promotion
        PROVE  variant[l] \in Variants
    BY <2>1 DEF TypeInv, StageInv, Finalizing, Promotion
  <2> QED
    BY <1>1, <1>2, <2>1 DEF GateTells, HandTells
<1>6. ChallengerBeats(l)'
  BY <1>1, <1>3 DEF GateTells, ChallengerBeats, Beats
<1> QED
  BY <1>4, <1>5, <1>6 DEF GateTells

(* No promotion that counts for l comes, goes or is dated anew.            *)
LEMMA HeadBesides ==
  ASSUME TypeInv, NEW k \in Lanes, NEW l \in Lanes \ {k}, Elsewhere(k), Besides(k, l),
         UnsharedStamps(l), HeadTells(l)
  PROVE  HeadTells(l)'
<1>1. ASSUME NEW v \in Variants
      PROVE  /\ v \in Promoted(lineage', l) <=> v \in Promoted(lineage, l)
             /\ v \in Promoted(lineage, l) => lineage'[v].promoted = lineage[v].promoted
  <2>1. CASE TookOver(k, v)
    BY <2>1, ArchiveAssumption DEF TookOver, UnsharedStamps, Promoted, ActiveFor
  <2>2. CASE StampedBy(k, v)
    BY <2>2 DEF StampedBy, UnsharedStamps, Promoted, ActiveFor
  <2>3. CASE lineage'[v] = lineage[v]
    BY <2>3 DEF Promoted
  <2> QED
    BY <2>1, <2>2, <2>3 DEF Besides
<1>2. Promoted(lineage', l) = Promoted(lineage, l)
  BY <1>1 DEF Promoted
<1>3. Latest(lineage', Promoted(lineage, l)) = Latest(lineage, Promoted(lineage, l))
  BY <1>1 DEF Latest, Promoted
<1> QED
  BY <1>2, <1>3 DEF HeadTells, Stamped, Elsewhere, Besides, Spared

-----------------------------------------------------------------------------
LEMMA ArchiveInit == Init => ArchiveInv
<1> SUFFICES ASSUME Init PROVE ArchiveInv
  OBVIOUS
<1>1. dirs = {Seed} /\ Seed \in Variants /\ \A l \in Lanes : l # NoLane
  BY InitialCopies, ArchiveAssumption DEF Init, Seed
<1>2. \A v \in Variants : v # Seed => lineage[v] = Absent
  BY <1>1 DEF Init, Lineage0
<1>3. ArchiveOnDisk
  BY <1>1, <1>2 DEF Init, Heads0, ArchiveOnDisk, InLineage, Absent
<1>4. StampsTell
  <2>1. \/ lineage[Seed] = Absent /\ clock = 0
        \/ lineage[Seed].lane \in Lanes /\ lineage[Seed].promoted = 1 /\ clock = 1
    BY <1>1 DEF Init, Lineage0
  <2>2. clock \in {0, 1}
    BY <2>1
  <2> QED
    BY <1>1, <1>2, <2>1, <2>2 DEF StampsTell, InLineage, Absent
<1>5. ASSUME NEW l \in Lanes
      PROVE  CopyCurrent(l) /\ VariantTells(l) /\ RecordsTell(l)
  BY DEF Init, CopyCurrent, VariantTells, RecordsTell, NoRecord, Minted, Finalizing, Promotion
<1> QED
  BY <1>3, <1>4, <1>5 DEF ArchiveInv

LEMMA LaneInit ==
  ASSUME NEW l \in Lanes, Init
  PROVE  LaneTells(l)
<1>1. Seed \in Variants
  BY InitialCopies DEF Seed
<1>2. pc[l] = "idle" /\ ScoresTell(l)
  BY DEF Init, ScoresTell, NoRecord
<1>3. \A v \in Variants \ {Seed} : lineage[v] = Absent
  BY <1>1 DEF Init, Lineage0
<1>4. heads[l] = Seed /\ \A u \in Stamped(l) : u = Seed
  BY <1>3 DEF Init, Heads0, Stamped, Promoted, Absent
<1>5. lineage[Seed].promoted \in {0, 1}
  BY <1>1 DEF Init, Lineage0, Absent
<1> QED
  BY <1>1, <1>2, <1>4, <1>5 DEF LaneTells, GateTells, HandTells, ChallengerBeats,
     HeadTells, Latest, Finalizing, Promotion

LEMMA ArchiveStep ==
  ASSUME OneCommand, TypeInv, ArchiveInv, [Next]_vars
  PROVE  ArchiveInv'
<1>1. CASE UNCHANGED vars
  BY <1>1 DEF ArchiveInv, ArchiveOnDisk, StampsTell, CopyCurrent, VariantTells, RecordsTell,
     Minted, vars, fileVars, logVars, localVars
<1>2. CASE Next
  <2>1. PICK k \in Lanes : Step(k)
    BY <1>2 DEF Next, Step
  <2> QED
    BY <2>1, OwnStep DEF Kept
<1> QED
  BY <1>1, <1>2

LEMMA LaneStep ==
  ASSUME OneCommand, TypeInv, ArchiveInv, [Next]_vars, NEW l \in Lanes, Unshared(l)
  PROVE  /\ GateTells(l) => GateTells(l)'
         /\ UnsharedStamps(l) /\ LaneTells(l) => LaneTells(l)'
<1>1. CASE UNCHANGED vars
  BY <1>1 DEF LaneTells, GateTells, ScoresTell, HandTells, ChallengerBeats, HeadTells,
     Beats, Stamped, vars, fileVars, localVars, ghostVars
<1>2. CASE Next
  <2>1. PICK k \in Lanes : Step(k)
    BY <1>2 DEF Next, Step
  <2>2. CASE k = l
    BY <2>1, <2>2, OwnStep DEF Kept, LaneTells
  <2>3. CASE k # l
    <3>1. Elsewhere(k) /\ Besides(k, l)
      BY <2>1, <2>3, StepElsewhere, StepBesides DEF TypeInv, TypeOK
    <3> QED
      BY <2>3, <3>1, GateBesides, HeadBesides DEF LaneTells
  <2> QED
    BY <2>2, <2>3
<1> QED
  BY <1>1, <1>2

(* In an archive of one lane, nobody else is there to share with.          *)
LEMMA OneLaneApart ==
  ASSUME TypeInv, ArchiveInv, \A l, m \in Lanes : l = m
  PROVE  Apart
<1>1. OneCommand /\ \A l \in Lanes : Unshared(l)
  BY DEF OneCommand, Unshared
<1>2. ASSUME NEW l \in Lanes, NEW v \in Variants, lineage[v].promoted > 0
      PROVE  ActiveFor(lineage[v], l)
  <2>1. lineage[v].lane \in Lanes
    BY <1>2 DEF ArchiveInv, StampsTell, InLineage, TypeInv, TypeOK, FilesOK, Lineage, Known
  <2> QED
    BY <2>1, ArchiveAssumption DEF ActiveFor
<1>3. ASSUME NEW l \in Lanes
      PROVE  UnsharedStamps(l)
  <2>1. pc[l] = "archive" => variant[l] \in Variants
    BY DEF TypeInv, StageInv
  <2> QED
    BY <1>2, <2>1 DEF UnsharedStamps
<1> QED
  BY <1>1, <1>3 DEF Apart, ScoredApart

-----------------------------------------------------------------------------
(* Commands one after another, of however many lanes, killed and resumed:  *)
(* what they have read is current when they write, what they may discard   *)
(* is neither archived nor a head.                                         *)
THEOREM ArchiveKept == Spec /\ []OneCommand => []ArchiveInv
<1>1. Init => TypeInv /\ ArchiveInv
  BY TypeInit, ArchiveInit
<1>2. TypeInv /\ [Next]_vars => TypeInv'
  BY TypeStep
<1>3. OneCommand /\ TypeInv /\ ArchiveInv /\ [Next]_vars => ArchiveInv'
  BY ArchiveStep
<1> QED
  BY <1>1, <1>2, <1>3, PTL DEF Spec

(* Discards, rejections and reminted ids leave neither a lineage entry nor *)
(* the head of a lane that names a missing directory.                      *)
THEOREM NothingDangles == Spec /\ []OneCommand => []ArchiveOnDisk
<1>1. ArchiveInv => ArchiveOnDisk
  BY DEF ArchiveInv
<1> QED
  BY <1>1, ArchiveKept, PTL

(* Whatever the other lanes do, and whatever is killed between two writes: *)
(* the holdout results and the head of a lane tell the story the lineage   *)
(* tells, as long as no other lane writes an entry that counts for it.     *)
THEOREM LaneKept ==
  ASSUME NEW l \in Lanes
  PROVE  Spec /\ []OneCommand /\ []Unshared(l) /\ []UnsharedStamps(l) => []LaneTells(l)
<1>1. Init => TypeInv /\ LaneTells(l)
  BY TypeInit, LaneInit
<1>2. TypeInv /\ [Next]_vars => TypeInv'
  BY TypeStep
<1>3. /\ OneCommand /\ Unshared(l) /\ UnsharedStamps(l)
      /\ TypeInv /\ ArchiveInv /\ LaneTells(l) /\ [Next]_vars
      => LaneTells(l)'
  BY LaneStep
<1> QED
  BY <1>1, <1>2, <1>3, ArchiveKept, PTL DEF Spec

(* The same of all lanes at once, when they keep apart.                    *)
THEOREM LanesKept == Spec /\ []Apart => []LaneInv
<1>1. Init => TypeInv /\ LaneInv
  BY TypeInit, ArchiveInit, LaneInit DEF LaneInv
<1>2. TypeInv /\ [Next]_vars => TypeInv'
  BY TypeStep
<1>3. Apart /\ TypeInv /\ LaneInv /\ [Next]_vars => LaneInv'
  BY ArchiveStep, LaneStep DEF Apart, ScoredApart, LaneInv
<1> QED
  BY <1>1, <1>2, <1>3, PTL DEF Spec

(* Between commands the head of every lane is its last promotion, unless a *)
(* kill came between the two writes of that promotion.                     *)
THEOREM HeadFollowsLineage == Spec /\ []Apart => []HeadIsLastPromotion
<1>1. LaneInv => HeadIsLastPromotion
  BY DEF LaneInv, LaneTells, HeadTells, Stamped, HeadIsLastPromotion
<1> QED
  BY <1>1, LanesKept, PTL

(* Only set_current_head moves a head, and through the gate to a variant   *)
(* that beats what it replaces.                                            *)
LEMMA HeadStep ==
  ASSUME TypeInv, ArchiveInv, Next, NEW l \in Lanes, GateTells(l), heads'[l] # heads[l],
         cause[l] \in {"finalize", "promote"}, holdout[l][heads[l]] # NoScore
  PROVE  holdout[l][heads'[l]] > holdout[l][heads[l]]
<1>1. PICK k \in Lanes : Step(k)
  BY DEF Next, Step
<1>2. k = l
  BY <1>1, StepBesides DEF Besides, Spared
<1>3. SetCurrentHead(l)
  BY <1>1, <1>2 DEF Step, StartRun, StartResume, StartPromote, StartUndo, Die, CloneParent,
     RejectVariant, AcceptVariant, ReadLineage, AppendEntry, NotArchived, SettleVariant,
     PickFinalist, EvaluateHoldout, WriteRecord, AppendHoldout, WriteShortlist, ReadForMark,
     MarkPromoted, ReadManifest, RecordHeadScore, CheckRollback, fileVars
<1>4. pc[l] = "write_head" /\ heads'[l] = variant[l]
  BY <1>3 DEF SetCurrentHead, TypeInv, TypeOK, LocalsOK, Manifest
<1> QED
  BY <1>4 DEF GateTells, ChallengerBeats, Promotion, Beats

(* A promotion through the gate never replaces a head that is known to do  *)
(* as well on the holdout of the lane, as long as no lane but the core one *)
(* scores what counts for another; promotions of the core lane may count   *)
(* for them all.                                                           *)
THEOREM PromotionImproves == Spec /\ []ScoredApart => PromotionBeatsHead
<1> DEFINE GatesTell == \A l \in Lanes : GateTells(l)
<1>1. ASSUME TypeInv, ArchiveInv, GatesTell, [Next]_vars
      PROVE  [\A l \in Lanes :
                /\ heads'[l] # heads[l]
                /\ cause[l] \in {"finalize", "promote"}
                /\ holdout[l][heads[l]] # NoScore
                => holdout[l][heads'[l]] > holdout[l][heads[l]]]_vars
  BY <1>1, HeadStep
<1>2. Init => TypeInv /\ ArchiveInv /\ GatesTell
  BY TypeInit, ArchiveInit, LaneInit DEF LaneTells
<1>3. TypeInv /\ [Next]_vars => TypeInv'
  BY TypeStep
<1>4. ScoredApart /\ TypeInv /\ ArchiveInv /\ GatesTell /\ [Next]_vars
      => ArchiveInv' /\ GatesTell'
  BY ArchiveStep, LaneStep DEF ScoredApart
<1> QED
  BY <1>1, <1>2, <1>3, <1>4, PTL DEF Spec, PromotionBeatsHead
=============================================================================
