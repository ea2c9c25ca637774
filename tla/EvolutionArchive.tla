--------------------------- MODULE EvolutionArchive ---------------------------
(***************************************************************************)
(* What the evolution commands read out of the variant archive: the        *)
(* latest entry per variant of lineage.jsonl, the lane heads of            *)
(* current.json, and the private holdout results kept beside them.         *)
(*                                                                         *)
(* A lineage is a function from variants to entries: every reader of the   *)
(* file keeps the last line of an id (load_latest_lineage).  Variants are  *)
(* numbered as their directories v001, v002, ... are.                      *)
(***************************************************************************)
EXTENDS Integers, FiniteSets

CONSTANTS
  Lanes,        \* lanes evolved
  Core,         \* the lane scored on every domain; it need not be evolved
  NoLane,
  MaxVariant,   \* bound on the variants minted
  MaxSearch,    \* bound on the scores of the search suite
  MaxScore,     \* bound on the scores of the holdout
  MaxClock      \* bound on the promotions stamped

ASSUME ArchiveAssumption ==
  /\ NoLane \notin Lanes
  /\ MaxVariant \in Nat \ {0}
  /\ MaxSearch \in Nat
  /\ MaxScore \in Nat
  /\ MaxClock \in Nat \ {0}

NoVariant == 0
Seed      == 1
Variants  == 1 .. MaxVariant
NoScore   == -1
Scores    == 0 .. MaxScore
SearchScores == 0 .. MaxSearch
Moments   == 0 .. MaxClock       \* of promotions; 0: promoted_at is not set

(* A search score of 0 stands for a search that ran no real session.       *)
Entry == [lane : Lanes, score : SearchScores,
          parent : Variants \cup {NoVariant}, promoted : Moments]
Absent == [lane |-> NoLane, score |-> 0, parent |-> NoVariant, promoted |-> 0]

(* What finalize_result.json keeps of a holdout evaluation.                *)
Record == [baseline : Variants \cup {NoVariant}, eligible : BOOLEAN]
NoRecord == [baseline |-> -1, eligible |-> FALSE]

InLineage(lin, v) == lin[v].lane # NoLane

(* An entry counts for the lane it was last scored for; a score for the    *)
(* core lane covers every domain.                                          *)
ActiveFor(entry, l) == entry.lane # NoLane /\ entry.lane \in {l, Core}

BaselineSeeded(lin, head, l) == head # NoVariant /\ ActiveFor(lin[head], l)

Promoted(lin, l) == {v \in Variants : lin[v].promoted > 0 /\ ActiveFor(lin[v], l)}

(* The entry of S with the latest promoted_at; stamps differ, so it is one *)
(* at most.                                                                *)
Latest(lin, S) == {v \in S : \A w \in S : lin[w].promoted <= lin[v].promoted}

(* What a candidate has to beat: the head of the lane if it is scored for  *)
(* the lane, else the last promotion.                                      *)
PromotionBaselines(lin, head, v, l) ==
  LET others == Promoted(lin, l) \ {v} IN
  IF head \notin {NoVariant, v} /\ ActiveFor(lin[head], l) THEN {head}
  ELSE IF others = {} THEN {NoVariant}
  ELSE Latest(lin, others)

(* Where an undo goes: the last but one of the promotions, if any.         *)
PreviousPromoted(lin, l) ==
  LET P == Promoted(lin, l) IN Latest(lin, P \ Latest(lin, P))

(* The highest search score among S, all that tie for it.                  *)
TopScored(lin, S) == {v \in S : \A w \in S : lin[w].score <= lin[v].score}

(* Parents for the next variant of the lane.  Which variants still carry   *)
(* the programs of the lane is left open: any of the pool may be the best  *)
(* that does, and when none does it is the head, or else an entry on disk. *)
Parents(lin, dirs, head, l) ==
  LET known == {v \in dirs : InLineage(lin, v)}
      active == {v \in known : ActiveFor(lin[v], l)}
      pool == IF active # {} THEN active ELSE known
  IN pool \cup (IF head \in dirs THEN {head} ELSE known)

(* The finalist of a lane: the best scored variant labelled with the lane. *)
BestInLane(lin, l) ==
  TopScored(lin, {v \in Variants : ActiveFor(lin[v], l) /\ lin[v].lane = l})

(* Ids go up by one from the highest directory; a discarded highest id is  *)
(* minted again.                                                           *)
IsNextVariant(dirs, v) == v - 1 \in dirs /\ \A u \in dirs : u < v

(* The holdout gate: real search work, and more than the baseline, or more *)
(* than nothing when the lane has no baseline.                             *)
HoldoutEligible(entry, score, baseline_score) ==
  /\ entry.score > 0
  /\ score > (IF baseline_score = NoScore THEN 0 ELSE baseline_score)
=============================================================================
