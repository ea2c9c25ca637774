------------------------------- MODULE MCTailer -------------------------------
(* Bounded instances in one run: a session with a hook, from its first line   *)
(* on, with other lines and one death or with two deaths; and two sessions    *)
(* whose transcripts are complete, without hook, other lines or death.        *)
EXTENDS TailerProperties

OneSession ==
  /\ \E s \in Hooked : transcript =
       [t \in Session |-> IF t = s THEN NoFile ELSE [NoFile EXCEPT !.age = OldAge]]
  /\ posted = {}
  /\ \/ others = 0 /\ kills = MaxKills - 1
     \/ others = MaxOther /\ kills = 0

TwoSessions ==
  /\ \E last \in BOOLEAN : transcript =
       [s \in Session |-> [size |-> MaxSize, age |-> Fresh, final |-> last /\ s \in Codex]]
  /\ posted = Hooked /\ others = MaxOther /\ kills = MaxKills

MCInit == NothingSeen /\ (OneSession \/ TwoSessions)
MCSpec == MCInit /\ [][Next]_vars /\ Fairness
=============================================================================
