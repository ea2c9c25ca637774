---------------------------- MODULE EvolutionLane -----------------------------
(***************************************************************************)
(* The invariants of an archive whose commands are run one after another,  *)
(* as run_all_lanes does: nobody else writes between the reads and the     *)
(* writes of the one at work.  Directories and lineage then agree for any  *)
(* number of lanes.  That the head and the holdout records of a lane agree *)
(* with them takes that no other lane writes an entry that counts for this *)
(* one: an entry carries one lane only, and a lane that scores the head of *)
(* another takes it away from it.                                          *)
(***************************************************************************)
EXTENDS EvolutionProperties

OneCommand == \A l, m \in Lanes : pc[l] # "idle" /\ pc[m] # "idle" => l = m

(* Whoever scores a variant that counts for l keeps it counting for l: the *)
(* lane itself, and the core lane, whose scores cover every domain.        *)
Unshared(l) ==
  \A k \in Lanes :
    pc[k] = "archive" /\ ActiveFor(lineage[variant[k]], l) => k \in {l, Core}

(* Of the promotions that count for l, none is of another lane's making,   *)
(* and none comes or goes by a new score.                                  *)
UnsharedStamps(l) ==
  \A k \in Lanes :
    /\ pc[k] = "archive" /\ lineage[variant[k]].promoted > 0 =>
         (ActiveFor(lineage[variant[k]], l) <=> k \in {l, Core})
    /\ pc[k] = "stamp" /\ ActiveFor(lineage[variant[k]], l) => k = l

(* One command at a time, every lane on variants of its own; of its own    *)
(* promotions, too.                                                        *)
ScoredApart == OneCommand /\ \A l \in Lanes : Unshared(l)
Apart == ScoredApart /\ \A l \in Lanes : UnsharedStamps(l)

(* The stages of a variant that may still be discarded, of one that is     *)
(* being finalized, and of one that is being promoted.                     *)
Minted(l) ==
  pc[l] = "gates" \/ (cause[l] = "generation" /\ pc[l] \in {"score", "archive", "check"})
Finalizing == {"holdout", "record", "publish", "shortlist"}
Promotion  == {"mark", "stamp", "read_head", "write_head"}

(* What was read is still what is there when it is written back.           *)
CopyCurrent(l) ==
  /\ pc[l] \in {"archive", "record", "publish", "stamp"} => seen[l] = lineage
  /\ pc[l] = "write_head" => manifest[l] = heads

(* A minted variant is on disk, neither archived yet nor a head; what is   *)
(* finalized or promoted is archived.                                      *)
VariantTells(l) ==
  /\ Minted(l) \/ pc[l] \in {"score", "archive"} => variant[l] \in dirs
  /\ Minted(l) => \A k \in Lanes : variant[l] # heads[k]
  /\ Minted(l) /\ pc[l] # "check" => ~InLineage(lineage, variant[l])
  /\ pc[l] \in Finalizing \cup Promotion => InLineage(lineage, variant[l])

(* A record that lets its variant be promoted is of an archived one.       *)
RecordsTell(l) ==
  \A v \in Variants : finalized[l][v].eligible => InLineage(lineage, v)

(* Only what is archived is stamped, and no stamp is of the future.        *)
StampsTell ==
  \A v \in Variants :
    /\ lineage[v].promoted > 0 => InLineage(lineage, v)
    /\ lineage[v].promoted <= clock

(* Behind ArchiveOnDisk, for commands one after another.                   *)
ArchiveInv ==
  /\ ArchiveOnDisk
  /\ StampsTell
  /\ \A l \in Lanes : CopyCurrent(l) /\ VariantTells(l) /\ RecordsTell(l)
-----------------------------------------------------------------------------
(* Holdout scores of a lane are of variants that count for it, and a       *)
(* record says that its variant beat its baseline on the scores that are   *)
(* still cached.                                                           *)
Beats(l, v, b) == holdout[l][b] # NoScore /\ holdout[l][v] > holdout[l][b]

ScoresTell(l) ==
  /\ \A v \in Variants : holdout[l][v] # NoScore => ActiveFor(lineage[v], l)
  /\ \A v \in Variants : finalized[l][v].eligible =>
       /\ holdout[l][v] # NoScore
       /\ finalized[l][v].baseline # NoVariant => Beats(l, v, finalized[l][v].baseline)
  /\ pc[l] = "record" => holdout[l][variant[l]] # NoScore

(* What is finalized or promoted for the lane counts for it.               *)
HandTells(l) ==
  pc[l] \in Finalizing \cup Promotion => ActiveFor(lineage[variant[l]], l)

(* What the gate is promoting beats the head it will replace.              *)
ChallengerBeats(l) ==
  pc[l] \in Promotion /\ cause[l] \in {"finalize", "promote"} =>
    \/ heads[l] = variant[l]
    \/ holdout[l][heads[l]] # NoScore => Beats(l, variant[l], heads[l])

(* The head is the last promotion, but between the writes of the next, or  *)
(* of one that a kill has torn.                                            *)
Stamped(l) == Promoted(lineage, l)

HeadTells(l) ==
  IF pc[l] \in {"read_head", "write_head"}
  THEN variant[l] \in Latest(lineage, Stamped(l))
  ELSE l \notin torn /\ Stamped(l) # {} => heads[l] \in Latest(lineage, Stamped(l))

(* Behind PromotionBeatsHead and HeadIsLastPromotion, for a lane whose     *)
(* entries no other lane scores and whose promotions no other lane stamps. *)
GateTells(l) == ScoresTell(l) /\ HandTells(l) /\ ChallengerBeats(l)
LaneTells(l) == GateTells(l) /\ HeadTells(l)

(* Of an archive whose lanes keep apart, on disk and in the hands of the   *)
(* command at work: directories, lineage, holdout results and heads agree. *)
LaneInv == ArchiveInv /\ \A l \in Lanes : LaneTells(l)
=============================================================================
