------------------------- MODULE EvolutionProperties --------------------------
(***************************************************************************)
(* What the evolution commands must keep true of the archive.              *)
(***************************************************************************)
EXTENDS EvolutionRun

Known == [lane : Lanes \cup {NoLane}, score : SearchScores,
          parent : Variants \cup {NoVariant}, promoted : Moments]
Lineage == [Variants -> Known]
Manifest == [Lanes -> Variants]

FilesOK ==
  /\ dirs \subseteq Variants
  /\ lineage \in Lineage
  /\ heads \in Manifest
  /\ holdout \in [Lanes -> [Variants -> Scores \cup {NoScore}]]
  /\ finalized \in [Lanes -> [Variants -> Record \cup {NoRecord}]]
  /\ shortlist \in [Lanes -> Variants \cup {NoVariant}]

LogsOK ==
  /\ head_scores \in [Lanes -> Seq(Variants)]
  /\ rolled_at \in [Lanes -> Nat \cup {-1}]
  /\ clock \in Moments
  /\ restarts \in 0 .. MaxRestarts
  /\ hint \in [Lanes -> Variants \cup {NoVariant}]
  /\ passed \subseteq Variants
  /\ torn \subseteq Lanes

LocalsOK ==
  /\ pc \in [Lanes -> Stage]
  /\ generation \in [Lanes -> 0 .. MaxGeneration + 1]
  /\ variant \in [Lanes -> Variants \cup {NoVariant}]
  /\ parent \in [Lanes -> Variants \cup {NoVariant}]
  /\ seen \in [Lanes -> Lineage]
  /\ manifest \in [Lanes -> Manifest]
  /\ cause \in [Lanes -> Scoring \cup Promoting \cup {"none"}]
  /\ unsealed \in [Lanes -> Variants \cup {NoVariant}]

(* Every file, event and local has the shape its readers expect.           *)
TypeOK == FilesOK /\ LogsOK /\ LocalsOK

(* Neither a lineage entry nor a lane head is left behind by a discard:    *)
(* what they name is on disk, whatever was killed, resumed or rejected.    *)
ArchiveOnDisk ==
  /\ \A v \in Variants : InLineage(lineage, v) => v \in dirs
  /\ \A l \in Lanes : heads[l] \in dirs

(* The undo trusts promoted_at as the evidence that a variant passed the   *)
(* gate: no re-scoring, parent snapshot, kill or rollback stamps a variant *)
(* that never passed one, and none becomes the head of a lane.             *)
PromotedPassedGate ==
  /\ \A v \in Variants \ {Seed} : lineage[v].promoted > 0 => v \in passed
  /\ \A l \in Lanes : heads[l] \in passed \cup {Seed}

(* Between commands the manifest and the lineage tell the same story: the  *)
(* head of a lane is its last promotion, unless a kill came between the    *)
(* two writes of that promotion.                                           *)
HeadIsLastPromotion ==
  \A l \in Lanes :
    pc[l] = "idle" /\ l \notin torn /\ Promoted(lineage, l) # {}
      => heads[l] \in Latest(lineage, Promoted(lineage, l))

(* A promotion through the gate never replaces a head that is known to do  *)
(* as well on the lane's holdout.                                          *)
PromotionBeatsHead ==
  [][\A l \in Lanes :
       /\ heads'[l] # heads[l]
       /\ cause[l] \in {"finalize", "promote"}
       /\ holdout[l][heads[l]] # NoScore
       => holdout[l][heads'[l]] > holdout[l][heads[l]]]_vars
-----------------------------------------------------------------------------
(* Every stage has in hand what its next step needs.                       *)
StageInv ==
  \A l \in Lanes :
    /\ pc[l] \notin {"idle", "loop", "finalize"} => variant[l] \in Variants
    /\ pc[l] = "gates" \/ cause[l] = "generation" => generation[l] <= MaxGeneration
    /\ pc[l] \in {"score", "archive"} => cause[l] \in Scoring
    /\ pc[l] = "check" => cause[l] = "generation"
    /\ pc[l] = "idle" => cause[l] = "none"

TypeInv == TypeOK /\ StageInv

StampsPassed(lin) == \A v \in Variants : lin[v].promoted > 0 => v \in passed \cup {Seed}
HeadsPassed(man)  == \A l \in Lanes : man[l] \in passed \cup {Seed}

FilesPassed ==
  /\ StampsPassed(lineage)
  /\ HeadsPassed(heads)
  /\ \A l \in Lanes, v \in Variants : finalized[l][v].eligible => v \in passed

LocalsPassed(l) ==
  /\ StampsPassed(seen[l])
  /\ HeadsPassed(manifest[l])
  /\ pc[l] \in {"mark", "stamp", "read_head", "write_head"}
       => variant[l] \in passed \cup {Seed}

(* The inductive invariant behind PromotedPassedGate: the copies of the    *)
(* lineage and of the manifest that a command works on, and the variant it *)
(* is promoting, rest on the gate as well.                                 *)
GateInv ==
  /\ TypeInv
  /\ FilesPassed
  /\ \A l \in Lanes : LocalsPassed(l)
=============================================================================
