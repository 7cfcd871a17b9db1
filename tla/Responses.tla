----------------------------- MODULE Responses -----------------------------
(***************************************************************************)
(* Which responses the client POSTs: the filters by Table 27 and by the    *)
(* responseRequired field at the head of send_der_response and             *)
(* send_pricing_response of client.rs (send_drlc_response filters as the   *)
(* former, send_msg_response as the latter and lets EventNoDisplay pass).  *)
(* required is the set of flags of responseRequired, empty when the event  *)
(* has no such field or no replyTo to send to.                             *)
(***************************************************************************)

Flag == {"MessageReceived", "SpecificResponse", "ResponseRequired"}

\* The responses that report what became of an event.
Specific == {"EventStarted", "EventCompleted", "EventSuperseded",
             "EventAbortedServer", "EventAbortedProgram", "EventExpired"}

\* A cancel or an opt-out is not reported.
SendsPricing(status, required) ==
  \/ status = "EventReceived" /\ "MessageReceived" \in required
  \/ status = "EventAcknowledge" /\ "ResponseRequired" \in required
  \/ status \in Specific /\ "SpecificResponse" \in required

\* The last arm of the match takes any other status, and those whose own arm
\* did not take them.
SendsDER(status, required) ==
  \/ status = "EventReceived" /\ "MessageReceived" \in required
  \/ status = "EventAcknowledge" /\ "ResponseRequired" \in required
  \/ status # "EventNoDisplay" /\ "SpecificResponse" \in required
=============================================================================
