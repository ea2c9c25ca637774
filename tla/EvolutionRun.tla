----------------------------- MODULE EvolutionRun -----------------------------
(***************************************************************************)
(* The evolution commands of autoresearch/evolve.py over one archive: the  *)
(* generation loop with its discards, the finalize step (hidden holdout,   *)
(* gate, promotion, head score, rollback check), the promote and undo      *)
(* commands, a kill at any point, and `run --resume-variant`.              *)
(*                                                                         *)
(* One command works on a lane at a time; commands of different lanes run  *)
(* at the same time, in processes of their own, over the same lineage,     *)
(* manifest and directories.  Every read-modify-write of a shared file is  *)
(* therefore a reading action and a writing one.                           *)
(***************************************************************************)
EXTENDS EvolutionArchive, Sequences

CONSTANTS
  MaxGeneration,        \* config.iterations
  MaxRestarts,          \* bound on the commands an operator starts
  RollbackCooldown,     \* ROLLBACK_COOLDOWN_CYCLES
  AutoRollback          \* AUTORESEARCH_AUTO_ROLLBACK is set

ASSUME RunAssumption ==
  /\ MaxGeneration \in Nat
  /\ MaxRestarts \in Nat
  /\ RollbackCooldown \in Nat
  /\ AutoRollback \in BOOLEAN

VARIABLES
  (* Files. *)
  dirs,         \* variants with a directory in the archive
  lineage,      \* the latest entry of every variant
  heads,        \* current.json: the head of every lane
  holdout,      \* per lane, the holdout score cached for a variant
  finalized,    \* per lane, the finalize record of a variant
  shortlist,    \* per lane, the variant on the finalized shortlist
  head_scores,  \* per lane, the head_score events
  rolled_at,    \* per lane, how many there were at the last rollback verdict
  clock,        \* promotions stamped
  restarts,     \* commands started
  hint,         \* per lane, the variant the last resume hint names
  (* Per lane, the command at work on it. *)
  pc,
  generation,
  variant,      \* the variant in hand: minted, resumed, evaluated or promoted
  parent,       \* EVOLUTION_PARENT_ID
  seen,         \* the lineage as the command last read it
  manifest,     \* the manifest as the command last read it
  cause,        \* why it scores or promotes
  unsealed,     \* _unsealed_variant_dir: what a resume hint would name
  (* History, read by no command. *)
  passed,       \* variants that passed a holdout gate
  torn          \* lanes whose last promotion stopped before the manifest

fileVars == <<dirs, lineage, heads, holdout, finalized, shortlist>>
logVars  == <<head_scores, rolled_at, clock>>
localVars == <<generation, variant, parent, seen, manifest, cause, unsealed>>
ghostVars == <<passed, torn>>
operatorVars == <<restarts, hint>>
vars == <<fileVars, logVars, operatorVars, pc, localVars, ghostVars>>

Stage == {"idle", "loop", "gates", "score", "archive", "check", "finalize",
          "holdout", "record", "publish", "shortlist", "mark", "stamp",
          "read_head", "write_head", "head_score", "rollback"}
Scoring   == {"seed", "generation", "resume"}
Promoting == {"finalize", "promote", "undo", "rollback"}

Lineage0 == [v \in Variants |-> Absent]
Heads0   == [l \in Lanes |-> Seed]

-----------------------------------------------------------------------------
(* The seed is on disk and the head of every lane; it may carry an entry   *)
(* of a lane that was promoted before.                                     *)
Init ==
  /\ dirs = {Seed}
  /\ \/ lineage = Lineage0 /\ clock = 0
     \/ /\ \E l \in Lanes, s \in SearchScores :
             lineage = [Lineage0 EXCEPT ![Seed] =
               [lane |-> l, score |-> s, parent |-> NoVariant, promoted |-> 1]]
        /\ clock = 1
  /\ heads = Heads0
  /\ holdout = [l \in Lanes |-> [v \in Variants |-> NoScore]]
  /\ finalized = [l \in Lanes |-> [v \in Variants |-> NoRecord]]
  /\ shortlist = [l \in Lanes |-> NoVariant]
  /\ head_scores = [l \in Lanes |-> <<>>]
  /\ rolled_at = [l \in Lanes |-> -1]
  /\ restarts = 0
  /\ hint = [l \in Lanes |-> NoVariant]
  /\ pc = [l \in Lanes |-> "idle"]
  /\ generation = [l \in Lanes |-> 0]
  /\ variant = [l \in Lanes |-> NoVariant]
  /\ parent = [l \in Lanes |-> NoVariant]
  /\ seen = [l \in Lanes |-> Lineage0]
  /\ manifest = [l \in Lanes |-> Heads0]
  /\ cause = [l \in Lanes |-> "none"]
  /\ unsealed = [l \in Lanes |-> NoVariant]
  /\ passed = {} /\ torn = {}

Goto(l, stage) == pc' = [pc EXCEPT ![l] = stage]

(* The process is over, its locals with it.                                *)
End(l) ==
  /\ Goto(l, "idle")
  /\ generation' = [generation EXCEPT ![l] = 0]
  /\ variant' = [variant EXCEPT ![l] = NoVariant]
  /\ parent' = [parent EXCEPT ![l] = NoVariant]
  /\ seen' = [seen EXCEPT ![l] = Lineage0]
  /\ manifest' = [manifest EXCEPT ![l] = Heads0]
  /\ cause' = [cause EXCEPT ![l] = "none"]
  /\ unsealed' = [unsealed EXCEPT ![l] = NoVariant]

Launch(l) ==
  /\ pc[l] = "idle"
  /\ restarts < MaxRestarts
  /\ restarts' = restarts + 1
  /\ UNCHANGED hint

(* Killed, interrupted, out of wall time, or an exception that nothing     *)
(* handles (a scoring subprocess that fails, a clone whose directory       *)
(* another lane has just made).  A signal prints a resume hint if a        *)
(* variant is unsealed.                                                    *)
Die(l) ==
  /\ pc[l] # "idle"
  /\ End(l)
  /\ torn' = IF pc[l] \in {"read_head", "write_head"} THEN torn \cup {l} ELSE torn
  /\ \/ UNCHANGED hint
     \/ /\ unsealed[l] # NoVariant
        /\ hint' = [hint EXCEPT ![l] = unsealed[l]]
  /\ UNCHANGED <<fileVars, logVars, restarts, passed>>

-----------------------------------------------------------------------------
(* The generation loop. *)

ToScore(l, v, why) ==    \* the command turns to scoring v
  /\ variant' = [variant EXCEPT ![l] = v]
  /\ cause' = [cause EXCEPT ![l] = why]
  /\ Goto(l, "score")

StartRun(l) ==
  /\ Launch(l)
  /\ generation' = [generation EXCEPT ![l] = 1]
  /\ IF BaselineSeeded(lineage, heads[l], l)
     THEN Goto(l, "loop") /\ UNCHANGED <<variant, cause>>
     ELSE ToScore(l, heads[l], "seed")
  /\ UNCHANGED <<fileVars, logVars, parent, seen, manifest, unsealed, ghostVars>>

(* What a resume is asked for: the variant the hint named when the last    *)
(* command of the lane was killed, or one the lane has archived.           *)
StartResume(l) ==
  /\ Launch(l)
  /\ \E v \in dirs : /\ v = hint[l] \/ lineage[v].lane = l
                     /\ ToScore(l, v, "resume")
  /\ UNCHANGED <<fileVars, logVars, generation, parent, seen, manifest, unsealed, ghostVars>>

(* MUTANT: one generation too many.                                        *)
MoreGenerations(l) == generation[l] <= MaxGeneration + 1

GenerationsLeft(l) == generation[l] <= MaxGeneration

(* The next generation: pick a parent, clone it under the next free id.    *)
CloneParent(l) ==
  /\ pc[l] = "loop" /\ GenerationsLeft(l)
  /\ \E p \in Parents(lineage, dirs, heads[l], l) :
       parent' = [parent EXCEPT ![l] = p]
  /\ \E v \in Variants :
       /\ IsNextVariant(dirs, v)
       /\ dirs' = dirs \cup {v}
       /\ variant' = [variant EXCEPT ![l] = v]
       /\ unsealed' = [unsealed EXCEPT ![l] = v]
  /\ Goto(l, "gates")
  /\ UNCHANGED <<lineage, heads, holdout, finalized, shortlist, logVars,
                 operatorVars, generation, seen, manifest, cause, ghostVars>>

(* The directory goes, and the private results kept for its id.            *)
DiscardVariant(v) ==
  /\ dirs' = dirs \ {v}
  /\ holdout' = [l \in Lanes |-> [holdout[l] EXCEPT ![v] = NoScore]]
  /\ finalized' = [l \in Lanes |-> [finalized[l] EXCEPT ![v] = NoRecord]]

NextGeneration(l) ==
  /\ Goto(l, "loop")
  /\ generation' = [generation EXCEPT ![l] = @ + 1]
  /\ variant' = [variant EXCEPT ![l] = NoVariant]
  /\ parent' = [parent EXCEPT ![l] = NoVariant]
  /\ cause' = [cause EXCEPT ![l] = "none"]

(* The meta agent has mutated the clone; the critic, the lane's validation,*)
(* the novelty check or the compliance gate turns it down ...              *)
RejectVariant(l) ==
  /\ pc[l] = "gates"
  /\ DiscardVariant(variant[l])
  /\ NextGeneration(l)
  /\ UNCHANGED <<lineage, heads, shortlist, logVars, operatorVars, seen, manifest, unsealed, ghostVars>>

(* ... or none does.                                                       *)
AcceptVariant(l) ==
  /\ pc[l] = "gates"
  /\ ToScore(l, variant[l], "generation")
  /\ UNCHANGED <<fileVars, logVars, operatorVars, generation, parent, seen, manifest,
                 unsealed, ghostVars>>

(* The search suite has run: the scorer reads the lineage.                 *)
ReadLineage(l) ==
  /\ pc[l] = "score"
  /\ seen' = [seen EXCEPT ![l] = lineage]
  /\ Goto(l, "archive")
  /\ UNCHANGED <<fileVars, logVars, operatorVars, generation, variant, parent,
                 manifest, cause, unsealed, ghostVars>>

AfterScoring(l) ==
  Goto(l, CASE cause[l] = "seed"       -> "loop"
            [] cause[l] = "generation" -> "check"
            [] cause[l] = "resume"     -> "finalize")

(* MUTANT: the new entry starts without a promotion.                       *)
FreshEntry(old, l, score, p) ==
  [lane |-> l, score |-> score, parent |-> p, promoted |-> 0]

(* The variant's new entry keeps the promotion the old one knew of.        *)
LineageEntry(old, l, score, p) ==
  [lane |-> l, score |-> score, parent |-> p, promoted |-> old.promoted]

(* The variant is archived, and its parent's entry is written again with   *)
(* one child more.                                                         *)
AppendEntry(l) ==
  /\ pc[l] = "archive"
  /\ \E score \in SearchScores :
       LET v == variant[l]
           p == IF parent[l] # NoVariant THEN parent[l] ELSE seen[l][v].parent
       IN lineage' = [u \in Variants |->
            IF u = v THEN LineageEntry(seen[l][v], l, score, p)
            ELSE IF u = p /\ InLineage(seen[l], p) THEN seen[l][p]
            ELSE lineage[u]]
  /\ AfterScoring(l)
  /\ seen' = [seen EXCEPT ![l] = Lineage0]
  /\ UNCHANGED <<dirs, heads, holdout, finalized, shortlist, logVars, operatorVars,
                 generation, variant, parent, manifest, cause, unsealed, ghostVars>>

(* Layer 1 finds the variant invalid: the scorer exits without an entry.   *)
(* On a resume the command goes on after any failure of the scorer.        *)
NotArchived(l) ==
  /\ pc[l] = "score"
  /\ AfterScoring(l)
  /\ UNCHANGED <<fileVars, logVars, operatorVars, generation, variant, parent, seen,
                 manifest, cause, unsealed, ghostVars>>

(* MUTANT: asks the lineage read before the variant was archived.          *)
ArchivedBefore(l) == InLineage(seen[l], variant[l])

Archived(l) == InLineage(lineage, variant[l])

(* The end of a generation: a variant that did not reach the lineage goes, *)
(* and stays the one that a hint would name.                               *)
SettleVariant(l) ==
  /\ pc[l] = "check"
  /\ IF Archived(l)
     THEN /\ unsealed' = [unsealed EXCEPT ![l] = NoVariant]
          /\ UNCHANGED <<dirs, holdout, finalized>>
     ELSE DiscardVariant(variant[l]) /\ UNCHANGED unsealed
  /\ NextGeneration(l)
  /\ UNCHANGED <<lineage, heads, shortlist, logVars, operatorVars, seen, manifest, ghostVars>>

-----------------------------------------------------------------------------
(* The finalize step. *)

Baselines(l, v) == PromotionBaselines(lineage, heads[l], v, l)

(* The loop is over (or out of ids): take the best variant of the lane,    *)
(* unless it is the baseline or its directory is missing.                  *)
PickFinalist(l) ==
  /\ \/ pc[l] = "finalize"
     \/ pc[l] = "loop" /\ (~GenerationsLeft(l) \/ MaxVariant \in dirs)
  /\ LET best == BestInLane(lineage, l)
         finalists == (best \cap dirs) \ Baselines(l, NoVariant) IN
     \/ /\ \E v \in finalists : variant' = [variant EXCEPT ![l] = v]
        /\ Goto(l, "holdout")
        /\ UNCHANGED <<generation, parent, seen, manifest, cause, unsealed>>
     \/ /\ best = {} \/ best # finalists
        /\ End(l)
  /\ UNCHANGED <<fileVars, logVars, operatorVars, ghostVars>>

(* The holdout score of v in lane l: the cached one, or a new one.         *)
HoldoutScore(l, v, s) ==
  s \in Scores /\ holdout[l][v] \in {NoScore, s}

(* The entry is read first: it is minutes old when the gate looks at it.   *)
EvaluateHoldout(l) ==
  /\ pc[l] = "holdout"
  /\ \E s \in Scores :
       /\ HoldoutScore(l, variant[l], s)
       /\ holdout' = [holdout EXCEPT ![l][variant[l]] = s]
  /\ seen' = [seen EXCEPT ![l] = lineage]
  /\ Goto(l, "record")
  /\ UNCHANGED <<dirs, lineage, heads, finalized, shortlist, logVars, operatorVars,
                 generation, variant, parent, manifest, cause, unsealed, ghostVars>>

(* The baseline's score, the gate, and the private record of both.  A      *)
(* baseline that has neither a score nor a directory ends the command.     *)
WriteRecord(l) ==
  /\ pc[l] = "record"
  /\ \E b \in Baselines(l, variant[l]), s \in Scores \cup {NoScore} :
       LET v == variant[l]
           ok == HoldoutEligible(seen[l][v], holdout[l][v], s)
       IN /\ IF b = NoVariant THEN s = NoScore
             ELSE HoldoutScore(l, b, s) /\ (holdout[l][b] # NoScore \/ b \in dirs)
          /\ holdout' = IF b = NoVariant THEN holdout
                        ELSE [holdout EXCEPT ![l][b] = s]
          /\ finalized' = [finalized EXCEPT ![l][v] = [baseline |-> b, eligible |-> ok]]
          /\ passed' = IF ok THEN passed \cup {v} ELSE passed
  /\ seen' = [seen EXCEPT ![l] = lineage]
  /\ Goto(l, "publish")
  /\ UNCHANGED <<dirs, lineage, heads, shortlist, logVars, operatorVars, generation,
                 variant, parent, manifest, cause, unsealed, torn>>

(* The finalist's entry, read again, is written with its holdout metrics.  *)
AppendHoldout(l) ==
  /\ pc[l] = "publish"
  /\ lineage' = [lineage EXCEPT ![variant[l]] = seen[l][variant[l]]]
  /\ seen' = [seen EXCEPT ![l] = Lineage0]
  /\ Goto(l, "shortlist")
  /\ UNCHANGED <<dirs, heads, holdout, finalized, shortlist, logVars, operatorVars,
                 generation, variant, parent, manifest, cause, unsealed, ghostVars>>

(* MUTANTS: whatever the baseline has become; whatever the gate has said.  *)
StaleStatus(l, v) == finalized[l][v].eligible
UngatedStatus(l, v) == finalized[l][v].baseline \in Baselines(l, v)

(* The record counts only against the baseline it was made with.           *)
FinalizeStatus(l, v) ==
  /\ finalized[l][v].eligible
  /\ finalized[l][v].baseline \in Baselines(l, v)

ToPromotion(l, v, why) ==
  /\ variant' = [variant EXCEPT ![l] = v]
  /\ cause' = [cause EXCEPT ![l] = why]
  /\ Goto(l, "mark")

WriteShortlist(l) ==
  /\ pc[l] = "shortlist"
  /\ shortlist' = [shortlist EXCEPT ![l] = variant[l]]
  /\ IF FinalizeStatus(l, variant[l])
     THEN ToPromotion(l, variant[l], "finalize")
          /\ UNCHANGED <<generation, parent, seen, manifest, unsealed>>
     ELSE End(l)
  /\ UNCHANGED <<dirs, lineage, heads, holdout, finalized, logVars, operatorVars, ghostVars>>

-----------------------------------------------------------------------------
(* The promote command, with the holdout required, and its --undo.         *)

StartPromote(l) ==
  /\ Launch(l)
  /\ LET candidates == {v \in Variants :
            /\ IF shortlist[l] # NoVariant THEN v = shortlist[l]
               ELSE ActiveFor(lineage[v], l)
            /\ FinalizeStatus(l, v)}
     IN \E v \in candidates :
          /\ \A w \in candidates : holdout[l][w] <= holdout[l][v]
          /\ ToPromotion(l, v, "promote")
  /\ UNCHANGED <<fileVars, logVars, generation, parent, seen, manifest, unsealed, ghostVars>>

StartUndo(l) ==
  /\ Launch(l)
  /\ \E v \in PreviousPromoted(lineage, l) : ToPromotion(l, v, "undo")
  /\ UNCHANGED <<fileVars, logVars, generation, parent, seen, manifest, unsealed, ghostVars>>

(* promote_atomic: the lock it holds is one process's own.  mark_promoted  *)
(* reads the lineage and appends the stamped entry ...                     *)
ReadForMark(l) ==
  /\ pc[l] = "mark"
  /\ seen' = [seen EXCEPT ![l] = lineage]
  /\ Goto(l, "stamp")
  /\ UNCHANGED <<fileVars, logVars, operatorVars, generation, variant, parent,
                 manifest, cause, unsealed, ghostVars>>

MarkPromoted(l) ==
  /\ pc[l] = "stamp"
  /\ clock < MaxClock
  /\ clock' = clock + 1
  /\ lineage' = [lineage EXCEPT ![variant[l]] =
                   [seen[l][variant[l]] EXCEPT !.promoted = clock + 1]]
  /\ seen' = [seen EXCEPT ![l] = Lineage0]
  /\ Goto(l, "read_head")
  /\ UNCHANGED <<dirs, heads, holdout, finalized, shortlist, head_scores, rolled_at,
                 operatorVars, generation, variant, parent, manifest, cause, unsealed, ghostVars>>

(* ... and set_current_head reads the manifest of all lanes and writes it. *)
ReadManifest(l) ==
  /\ pc[l] = "read_head"
  /\ manifest' = [manifest EXCEPT ![l] = heads]
  /\ Goto(l, "write_head")
  /\ UNCHANGED <<fileVars, logVars, operatorVars, generation, variant, parent, seen,
                 cause, unsealed, ghostVars>>

SetCurrentHead(l) ==
  /\ pc[l] = "write_head"
  /\ heads' = [manifest[l] EXCEPT ![l] = variant[l]]
  /\ torn' = torn \ {l}
  /\ IF cause[l] = "finalize"
     THEN /\ Goto(l, "head_score")
          /\ manifest' = [manifest EXCEPT ![l] = Heads0]
          /\ UNCHANGED <<generation, variant, parent, seen, cause, unsealed>>
     ELSE End(l)
  /\ UNCHANGED <<dirs, lineage, holdout, finalized, shortlist, logVars, operatorVars, passed>>

(* The head_score event; a failure to log it is only warned about.         *)
RecordHeadScore(l) ==
  /\ pc[l] = "head_score"
  /\ \/ head_scores' = [head_scores EXCEPT ![l] = Append(@, variant[l])]
     \/ UNCHANGED head_scores
  /\ Goto(l, "rollback")
  /\ UNCHANGED <<fileVars, rolled_at, clock, operatorVars, localVars, ghostVars>>

(* The samples are enough for the rollback judge to be asked.              *)
RollbackArmed(l) ==
  LET h == head_scores[l]
      current == {i \in DOMAIN h : h[i] = h[Len(h)]}
  IN /\ Cardinality(current) >= 2
     /\ current # DOMAIN h
     /\ rolled_at[l] = -1 \/ Len(h) - rolled_at[l] >= RollbackCooldown

(* The judge keeps the head, cannot be reached, or wants it rolled back,   *)
(* which runs `promote --undo` when the operator has opted in.             *)
CheckRollback(l) ==
  /\ pc[l] = "rollback"
  /\ \/ End(l) /\ UNCHANGED rolled_at
     \/ /\ RollbackArmed(l)
        /\ rolled_at' = [rolled_at EXCEPT ![l] = Len(head_scores[l])]
        /\ IF AutoRollback /\ PreviousPromoted(lineage, l) # {}
           THEN (\E v \in PreviousPromoted(lineage, l) : ToPromotion(l, v, "rollback"))
                /\ UNCHANGED <<generation, parent, seen, manifest, unsealed>>
           ELSE End(l)
  /\ UNCHANGED <<fileVars, head_scores, clock, operatorVars, ghostVars>>

-----------------------------------------------------------------------------
Next ==
  \E l \in Lanes :
    \/ StartRun(l) \/ StartResume(l) \/ StartPromote(l) \/ StartUndo(l) \/ Die(l)
    \/ CloneParent(l) \/ RejectVariant(l) \/ AcceptVariant(l)
    \/ ReadLineage(l) \/ AppendEntry(l) \/ NotArchived(l) \/ SettleVariant(l)
    \/ PickFinalist(l) \/ EvaluateHoldout(l) \/ WriteRecord(l)
    \/ AppendHoldout(l) \/ WriteShortlist(l)
    \/ ReadForMark(l) \/ MarkPromoted(l) \/ ReadManifest(l) \/ SetCurrentHead(l)
    \/ RecordHeadScore(l) \/ CheckRollback(l)

Spec == Init /\ [][Next]_vars
=============================================================================
