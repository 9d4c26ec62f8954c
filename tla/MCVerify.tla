----------------------------- MODULE MCVerify -----------------------------
EXTENDS Verify, TLC

CONSTANTS a, b, c, x, y

MCFiles     == {a, b, c}
MCNumBlocks == a :> 2 @@ b :> 1 @@ c :> 1
MCSliced    == {a, b}
MCBytes     == a :> "A" @@ b :> "B" @@ c :> "B"
MCExtras    == {x, y}

Damaged(f, B) == [WholeOf(f) EXCEPT !.bad = B \X Chunks]
TooLong(f)    == [WholeOf(f) EXCEPT !.len = "long"]

\* a with every kind of damage; b and c, which have the same bytes, there, gone or
\* damaged; and under the two other names copies of either or nothing.
MCLayouts ==
  {a :> ha @@ b :> hb @@ c :> hc @@ x :> hx @@ y :> hy :
     ha \in {Nothing, WholeOf(a), Damaged(a, {1}), Damaged(a, {0, 1}), TooLong(a), WholeOf(b)},
     hb \in {Nothing, WholeOf(b), Damaged(b, {0})},
     hc \in {Nothing, WholeOf(c), WholeOf(a)},
     hx \in {Nothing, WholeOf(a), WholeOf(b)},
     hy \in {Nothing, WholeOf(b), Damaged(a, {0})}}
=============================================================================
