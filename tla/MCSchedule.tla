----------------------------- MODULE MCSchedule -----------------------------
(* Instances of Schedule for TLC, as der.rs uses it.                       *)
EXTENDS Schedule, Catalog

\* All the controls of the catalog set the same target.
SameForAll == Event \X Event

\* Bound: a schedule that is shut down is not followed beyond the last moment at
\* which it may be.
AroundShutdown == sd => now \in ShutdownAt
=============================================================================
