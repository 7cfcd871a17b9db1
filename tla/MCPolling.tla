----------------------------- MODULE MCPolling -----------------------------
(* Instances of Polling for TLC.                                           *)
EXTENDS Polling, TLC

CONSTANTS fast, slow

Rates == fast :> 1 @@ slow :> 3
=============================================================================
