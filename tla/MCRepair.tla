------------------------------ MODULE MCRepair ------------------------------
EXTENDS Repair, TLC

CONSTANTS a, b, empty, r0, r1, twin, forged

MCFiles     == {a, b, empty}
MCNumBlocks == a :> 2 @@ b :> 1 @@ empty :> 0
MCSliced    == {a, empty}
MCRecovery  == {r0, r1, twin, forged}
MCExponent  == r0 :> 0 @@ r1 :> 1 @@ twin :> 1 @@ forged :> 2
MCAuthentic == {r0, r1, twin}

\* The last block has the constant of the first.
MCBlockConstant == <<a, 0>> :> 1 @@ <<a, 1>> :> 2 @@ <<b, 0>> :> 1

\* Enough for two lost blocks, and for three but with two packets of one exponent; enough for
\* two but for a forged packet; and more packets than block numbers.
MCRecoverySets == {{r0, r1, twin}, {r0, forged}, MCRecovery}
=============================================================================
