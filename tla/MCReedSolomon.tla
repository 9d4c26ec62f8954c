--------------------------- MODULE MCReedSolomon ---------------------------
(***************************************************************************)
(* The field of 16 elements, with x^4 + x + 1.  Its group has order        *)
(* 15 = 3 * 5, as that of the code has 65535 = 3 * 5 * 17 * 257: the       *)
(* ratios of some constants have order 3 or 5, as they do in the code.     *)
(***************************************************************************)
EXTENDS ReedSolomon

\* The decoder is linear in the data: one block at a time, and all of them at once.
MCSamples ==
  {[d \in Blocks |-> IF d = only THEN 1 ELSE 0] : only \in Blocks}
    \cup {[d \in Blocks |-> 2 * d + 1]}
=============================================================================
