------------------------------ MODULE MCHarness ------------------------------
(* Instances of the harness for TLC. *)
EXTENDS HarnessClaims, HarnessBooks, TLC

CONSTANTS w1, w2

(* Two findings of the first cycle, one of the second. *)
MCFinding == {"f1", "f2", "f3"}
MCTrack == {"a"}
MCId == {"F-a-1-1", "F-a-1-2", "F-a-2-1", "F-a-1-10"}
MCIdOf == [f \in MCFinding |->
  CASE f = "f1" -> "F-a-1-1" [] f = "f2" -> "F-a-1-2" [] f = "f3" -> "F-a-2-1"]
MCCycleOf == [f \in MCFinding |-> IF f = "f3" THEN 2 ELSE 1]
MCTrackOf == [f \in MCFinding |-> "a"]
MCIdPrefix == {<<i, i>> : i \in MCId} \cup {<<"F-a-1-1", "F-a-1-10">>}

(* What fixer sessions leave behind. *)
Base == [own |-> "none", dirty |-> TRUE, note |-> FALSE, leak |-> FALSE,
         clean |-> TRUE, verdict |-> "passed", end |-> "ok"]
Passed == Base
Failed == [Base EXCEPT !.verdict = "failed"]
Unclean == [Base EXCEPT !.clean = FALSE]
Tagged == [Base EXCEPT !.own = "tagged", !.dirty = FALSE]
Plain == [Base EXCEPT !.own = "plain", !.dirty = FALSE]
Both == [Base EXCEPT !.own = "tagged", !.verdict = "none"]
Noted == [Base EXCEPT !.dirty = FALSE, !.note = TRUE, !.verdict = "none"]
Nothing == [Base EXCEPT !.dirty = FALSE]
Leaky == [Base EXCEPT !.leak = TRUE, !.own = "tagged"]
Limited == [Base EXCEPT !.end = "rate_limit", !.verdict = "none"]
Exhausted == [Base EXCEPT !.end = "exhausted", !.own = "tagged", !.verdict = "failed"]

(* Two findings of one cycle. *)
OneCycle == {"f1", "f2"}
OneCycleIdOf == [f \in OneCycle |-> MCIdOf[f]]
OneCycleOf == [f \in OneCycle |-> 1]
OneCycleTrackOf == [f \in OneCycle |-> "a"]

(* One finding in each of two cycles, with ids of their own or the same. *)
TwoCycles == {"f1", "f3"}
TwoCyclesIdOf == [f \in TwoCycles |-> MCIdOf[f]]
RecurringIdOf == [f \in TwoCycles |-> "F-a-1-1"]
TwoCyclesOf == [f \in TwoCycles |-> MCCycleOf[f]]
TwoCyclesTrackOf == [f \in TwoCycles |-> "a"]

Symmetry == Permutations({w1, w2})
InterruptedOutcomes == {Passed, Failed, Both, Noted, Exhausted, Limited}
FewOutcomes == {Passed, Failed, Unclean, Limited}
FixerOutcomes == {Passed, Failed, Unclean, Plain, Both, Noted, Nothing, Leaky}
=============================================================================
