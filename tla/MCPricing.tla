----------------------------- MODULE MCPricing ------------------------------
(* Instances of PricingSchedule for TLC.                                   *)
EXTENDS PricingSchedule, Catalog
=============================================================================
