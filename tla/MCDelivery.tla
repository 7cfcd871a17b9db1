----------------------------- MODULE MCDelivery -----------------------------
(* Instances of Delivery for TLC.                                          *)
EXTENDS Delivery, Catalog

SameForAll == Event \X Event
AnyFeed == h1 :> Event
BothPrograms == <<1, 2>>

\* No control is longer than the time between two prunes.
Brief == low :> At(0, 1, 2, 1) @@ high :> At(1, 1, 1, 2)

\* One control asks for every kind of response, the other only for those that
\* say what becomes of it, which the filter takes a receipt to be.
Flags == low :> Flag @@ high :> {"SpecificResponse"}
=============================================================================
