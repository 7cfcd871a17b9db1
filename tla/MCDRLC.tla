------------------------------- MODULE MCDRLC -------------------------------
(* Instances of DRLCSchedule for TLC.                                      *)
EXTENDS DRLCSchedule, Catalog
=============================================================================
