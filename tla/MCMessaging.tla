---------------------------- MODULE MCMessaging -----------------------------
(* Instances of MessagingSchedule for TLC.                                 *)
EXTENDS MessagingSchedule, Catalog
=============================================================================
