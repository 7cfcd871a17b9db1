------------------------------ MODULE Notices ------------------------------
(***************************************************************************)
(* What the handler of a schedule is told of each event: EventCallback of  *)
(* event.rs.  It is asked once to follow an event, is told when it is over *)
(* only if it follows it, and nothing after that, but that the server has  *)
(* withdrawn it: a withdrawal may be read while the event still runs and   *)
(* be carried out when it has ended.                                       *)
(***************************************************************************)
CONSTANT Event
VARIABLE told

\* Why an event is over when the server says so.
Reason == {"Cancelled", "CancelledRandom", "Superseded"}

Init == told = [e \in Event |-> "Unaware"]

Tell(e, s) == told' = [told EXCEPT ![e] = s]

Start(e) == told[e] = "Unaware" /\ (Tell(e, "Active") \/ Tell(e, "Declined"))
End(e) == told[e] = "Active" /\ Tell(e, "Complete")
Withdraw(e) ==
  /\ told[e] \in {"Active", "Complete", "Superseded"}
  /\ \E r \in Reason : Tell(e, r)

\* A new event displaces several at once.
Displace ==
  \E E \in SUBSET {e \in Event : told[e] = "Active"} :
    told' = [e \in Event |-> IF e \in E THEN "Superseded" ELSE told[e]]

Next == Displace \/ \E e \in Event : Start(e) \/ End(e) \/ Withdraw(e)

Spec == Init /\ [][Next]_told
=============================================================================
