----------------------------- MODULE Lifecycle -----------------------------
(***************************************************************************)
(* What a schedule promises of each of its events when none supersedes     *)
(* another: it waits, it is shown, it is over, and it is forgotten before  *)
(* it may come again.  Every step but forgetting is about one event.       *)
(***************************************************************************)
CONSTANT Event
VARIABLE phase

Phase == {"absent", "waiting", "shown", "over"}

Init == phase = [e \in Event |-> "absent"]

Move(e, from, to) == phase[e] \in from /\ phase' = [phase EXCEPT ![e] = to]

Arrive(e) == Move(e, {"absent"}, "waiting")
ArriveStarted(e) == Move(e, {"absent"}, "shown")
Show(e) == Move(e, {"waiting"}, "shown")
Finish(e) == Move(e, {"waiting", "shown"}, "over")

Forget ==
  \E E \in SUBSET {e \in Event : phase[e] = "over"} :
    phase' = [e \in Event |-> IF e \in E THEN "absent" ELSE phase[e]]

Next ==
  \/ \E e \in Event : Arrive(e) \/ ArriveStarted(e) \/ Show(e) \/ Finish(e)
  \/ Forget

Spec == Init /\ [][Next]_phase
=============================================================================
