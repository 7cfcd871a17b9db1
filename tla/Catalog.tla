------------------------------ MODULE Catalog ------------------------------
(* The events and retrievals that the model-checking modules share.        *)
EXTENDS Integers, TLC

CONSTANTS low, mid, high,  \* events
          h1, h2           \* handles

\* An event of program p, whose primacy is p too, created at c.
At(s, d, p, c) == [start |-> s, duration |-> d, primacy |-> p, creation |-> c,
                   program |-> p, server |-> 1,
                   randDuration |-> 0, randStart |-> 0]

\* mid supersedes low by its primacy, high supersedes mid by being newer, and
\* high starts after the end of low.
Chain == low :> At(1, 2, 2, 1) @@ mid :> At(3, 2, 1, 1) @@ high :> At(4, 1, 1, 2)

\* All three overlap early; mid and high belong to one program that two
\* servers offer.
Servers ==
  low :> At(1, 2, 2, 1) @@ mid :> At(2, 1, 1, 1)
    @@ high :> [At(2, 1, 1, 2) EXCEPT !.server = 2]

\* The ends of low and high are drawn, up to two earlier: low may end before
\* high starts, with its start, or after it, and high before its own start.
Drawn == [Servers EXCEPT ![low].randStart = -2, ![high].randStart = -2]

\* Offsets of a server whose clock is behind.
Behind == {-2}
JustBehind == {-1}

OuterFeed == h1 :> {low, high}
FirstFeed == h1 :> {low, mid}
OneFeed == h1 :> {low, mid, high}
TwoFeeds == h1 :> {low, high} @@ h2 :> {mid}
SharedFeed == h1 :> {low, mid, high} @@ h2 :> {low, mid, high}
=============================================================================
