-------------------------- MODULE MCPar2Repairer --------------------------
EXTENDS Par2Repairer, TLC

CONSTANTS a, b, x, ta, tb, index, vol

MCFiles     == {a, b}
MCNumBlocks == a :> 2 @@ b :> 1
MCSliced    == {a}
MCBytes     == a :> "A" @@ b :> "B"
MCExtras    == {x, ta, tb}
MCTempOf    == a :> ta @@ b :> tb
MCVolumes   == {index, vol}
MCPacketsIn == index :> 0 @@ vol :> 2

Damaged(f, B) == [WholeOf(f) EXCEPT !.bad = B \X Chunks]
TooLong(f)    == [WholeOf(f) EXCEPT !.len = "long"]

\* Each file there, damaged or gone, and perhaps one of them under the other name.
MCLayouts ==
  {a :> ha @@ b :> hb @@ x :> hx @@ ta :> Nothing @@ tb :> Nothing :
     ha \in {Nothing, WholeOf(a), Damaged(a, {1}), TooLong(a)},
     hb \in {Nothing, WholeOf(b), Damaged(b, {0})},
     hx \in {Nothing, WholeOf(a), WholeOf(b)}}
=============================================================================
