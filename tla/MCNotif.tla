------------------------------ MODULE MCNotif ------------------------------
(* An instance of NotifServer for TLC.                                     *)
EXTENDS NotifServer

CONSTANTS c1, c2, c3, reading, unknown, onReading, onDcap
=============================================================================
