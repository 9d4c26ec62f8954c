--------------------------- MODULE Archive_proofs ---------------------------
(***************************************************************************)
(* Proofs about the creation of a recovery set (Creator, Archive): the     *)
(* block size fits the limits, the volumes tile the exponents, and an      *)
(* invariant of what creations and mishaps leave on disk (ArchiveInv).     *)
(***************************************************************************)
EXTENDS Archive, Basics_proofs

-----------------------------------------------------------------------------
(***************************************************************************)
(* The block size of calculate_block_size.                                 *)
(***************************************************************************)
\* A quotient is the last multiple that fits.
LEMMA DivBound ==
  ASSUME NEW a \in Nat, NEW b \in Nat \ {0}
  PROVE  /\ a \div b \in Nat /\ b * (a \div b) =< a /\ a < b * (a \div b) + b
BY SMT

\* Multiplying by a size keeps the order.
LEMMA MulMono ==
  ASSUME NEW s \in Nat, NEW x \in Int, NEW y \in Int, x =< y
  PROVE  s * x =< s * y
BY SMT

\* What fits into m blocks needs at most m blocks (CeilDiv is div_ceil of creator.rs).
LEMMA CeilLe ==
  ASSUME NEW a \in Nat, NEW m \in Nat, NEW s \in Nat \ {0}, a =< s * m
  PROVE  CeilDiv(a, s) \in Nat /\ CeilDiv(a, s) =< m
<1> DEFINE n == a + s - 1
<1> DEFINE q == n \div s
<1>1. n \in Nat
  OBVIOUS
<1> HIDE DEF n
<1>2. q \in Nat /\ s * q =< n /\ n < s * q + s
  BY <1>1, DivBound
<1> HIDE DEF q
<1>3. s * q < s * m + s
  BY <1>2 DEF n
<1>4. ASSUME q > m PROVE FALSE
  <2>1. s * (m + 1) =< s * q
    BY <1>2, <1>4, MulMono
  <2>2. s * (m + 1) = s * m + s
    OBVIOUS
  <2> QED
    BY <1>2, <1>3, <2>1, <2>2
<1>5. q =< m
  BY <1>2, <1>4
<1>6. CeilDiv(a, s) = q
  BY DEF q, n, CeilDiv
<1> QED
  BY <1>2, <1>5, <1>6

\* The share of each of m blocks, rounded up, holds everything.
LEMMA CeilMul ==
  ASSUME NEW a \in Nat, NEW m \in Nat \ {0}
  PROVE  CeilDiv(a, m) \in Nat /\ a =< m * CeilDiv(a, m)
<1> DEFINE n == a + m - 1
<1>1. n \in Nat
  OBVIOUS
<1> HIDE DEF n
<1>2. n \div m \in Nat /\ n < m * (n \div m) + m
  BY <1>1, DivBound
<1> QED
  BY <1>2 DEF n, CeilDiv

\* Rounding up to a multiple of four gives one that is not smaller.
LEMMA RoundUp ==
  ASSUME NEW n \in Nat
  PROVE  RoundUp4(n) \in Nat /\ RoundUp4(n) >= n /\ RoundUp4(n) % 4 = 0
BY SMT DEF RoundUp4

\* The block size that calculate_block_size chooses is a multiple of four, no smaller than
\* the minimum, and so large that however many bytes a single input has, they make no more
\* data blocks than the field allows; whatever the limits are.
THEOREM BlockSizeFits ==
  ASSUME NEW total \in Nat
  PROVE  /\ CalculateBlockSize(total) \in Nat
         /\ CalculateBlockSize(total) % 4 = 0
         /\ CalculateBlockSize(total) >= MinBlockSize
         /\ CeilDiv(total, CalculateBlockSize(total)) =< MaxBlocks
<1> DEFINE wish  == RoundUp4(total \div TargetBlocks)
<1> DEFINE least == RoundUp4(Larger(CeilDiv(total, MaxBlocks), MinBlockSize))
<1> DEFINE s     == CalculateBlockSize(total)
<1>a. MinBlockSize \in Nat /\ MinBlockSize # 0 /\ MinBlockSize % 4 = 0
      /\ MaxBlockSize \in Nat /\ MaxBlockSize % 4 = 0 /\ MinBlockSize =< MaxBlockSize
      /\ TargetBlocks \in Nat \ {0} /\ MaxBlocks \in Nat \ {0}
  BY CreatorAssumption
<1>1. wish \in Nat /\ wish % 4 = 0
  BY <1>a, DivBound, RoundUp
<1>2. CeilDiv(total, MaxBlocks) \in Nat /\ total =< MaxBlocks * CeilDiv(total, MaxBlocks)
  BY <1>a, CeilMul
<1>3. /\ Larger(CeilDiv(total, MaxBlocks), MinBlockSize) \in Nat
      /\ Larger(CeilDiv(total, MaxBlocks), MinBlockSize) >= CeilDiv(total, MaxBlocks)
      /\ Larger(CeilDiv(total, MaxBlocks), MinBlockSize) >= MinBlockSize
  BY <1>a, <1>2 DEF Larger
<1>4. /\ least \in Nat /\ least % 4 = 0 /\ least >= MinBlockSize
      /\ least >= CeilDiv(total, MaxBlocks)
  BY <1>3, <1>2, <1>a, RoundUp
<1> HIDE DEF wish, least
<1>5. CASE total = 0
  <2>1. s = MinBlockSize
    BY <1>5 DEF CalculateBlockSize
  <2>2. CeilDiv(total, s) =< MaxBlocks
    BY <1>5, <1>a, <2>1, CeilLe
  <2> QED
    BY <1>a, <2>1, <2>2
<1>6. CASE total # 0
  <2>1. s = IF least > MaxBlockSize THEN least
            ELSE Larger(Smaller(MaxBlockSize, Larger(MinBlockSize, wish)), least)
    BY <1>6 DEF CalculateBlockSize, wish, least
  <2>2. s \in Nat /\ s % 4 = 0 /\ s >= least
    <3>1. CASE least > MaxBlockSize
      BY <3>1, <1>4, <2>1
    <3>2. CASE ~(least > MaxBlockSize)
      <4> DEFINE clamped == Smaller(MaxBlockSize, Larger(MinBlockSize, wish))
      <4>1. clamped \in {MaxBlockSize, MinBlockSize, wish}
        BY DEF Smaller, Larger
      <4>2. s \in {clamped, least} /\ (clamped \in Nat /\ least \in Nat => s >= least)
        BY <3>2, <2>1 DEF Larger
      <4> QED
        BY <4>1, <4>2, <1>a, <1>1, <1>4
    <3> QED
      BY <3>1, <3>2
  <2> HIDE DEF s
  <2>3. s \in Nat \ {0} /\ s >= CeilDiv(total, MaxBlocks)
    BY <2>2, <1>a, <1>2, <1>4
  <2>4. MaxBlocks * CeilDiv(total, MaxBlocks) =< MaxBlocks * s
    BY <2>3, <1>2, <1>a, MulMono
  <2>5. MaxBlocks * s = s * MaxBlocks
    BY <2>3, <1>a
  <2>6. total =< s * MaxBlocks
    BY <2>3, <2>4, <2>5, <1>2, <1>a
  <2>7. CeilDiv(total, s) =< MaxBlocks
    BY <2>3, <2>6, <1>a, CeilLe
  <2> QED
    BY <2>2, <2>7, <1>4, <1>a DEF s
<1> QED
  BY <1>5, <1>6

-----------------------------------------------------------------------------
(***************************************************************************)
(* The volumes of split_into_volumes.                                      *)
(***************************************************************************)

\* What split_into_volumes makes.
VolumeRecords == [start : Nat, count : Nat]

\* Volumes are not empty and follow on one another from exponent 0.
Tiled(vs) ==
  \A i \in 1 .. Len(vs) :
    /\ vs[i].count > 0
    /\ vs[i].start = IF i = 1 THEN 0 ELSE vs[i - 1].start + vs[i - 1].count

\* The first exponent behind the volumes.
EndOf(vs) == IF Len(vs) = 0 THEN 0 ELSE vs[Len(vs)].start + vs[Len(vs)].count

\* The inductive invariant: the volumes tile the exponents up to their end; during the split
\* the end and the blocks that wait for the next volume make up the next exponent, and when
\* writing begins no block is left.
SplitInv ==
  /\ volumes \in Seq(VolumeRecords) /\ next \in Nat /\ current \in Nat
  /\ Tiled(volumes)
  /\ creating \in {"encode", "split", "write"} => wanted \in Nat
  /\ creating \in {"hash", "encode"} => volumes = <<>> /\ next = 0 /\ current = 0
  /\ creating = "split" => EndOf(volumes) + current = next
  /\ creating = "write" => EndOf(volumes) = wanted

\* What SplitInv depends on.
splitState == <<creating, wanted, volumes, next, current>>

\* The end of the volumes is an exponent.
LEMMA EndIsNat ==
  ASSUME NEW vs \in Seq(VolumeRecords)
  PROVE  EndOf(vs) \in Nat
<1>1. CASE Len(vs) = 0
  BY <1>1 DEF EndOf
<1>2. CASE Len(vs) # 0
  <2>1. vs[Len(vs)] \in VolumeRecords
    BY <1>2
  <2>2. vs[Len(vs)].start \in Nat /\ vs[Len(vs)].count \in Nat
    BY <2>1 DEF VolumeRecords
  <2> QED
    BY <1>2, <2>2 DEF EndOf
<1> QED
  BY <1>1, <1>2

\* A volume that begins where the others end leaves the volumes tiled (VolumeTo is the
\* arithmetic of the push in split_into_volumes).
LEMMA AppendTiles ==
  ASSUME NEW vs \in Seq(VolumeRecords), Tiled(vs),
         NEW end \in Nat, NEW count \in Nat \ {0}, EndOf(vs) + count = end
  PROVE  /\ Append(vs, VolumeTo(end, count)) \in Seq(VolumeRecords)
         /\ Tiled(Append(vs, VolumeTo(end, count)))
         /\ EndOf(Append(vs, VolumeTo(end, count))) = end
<1> DEFINE v  == VolumeTo(end, count)
<1> DEFINE ws == Append(vs, v)
<1>1. EndOf(vs) \in Nat
  BY EndIsNat
<1>2. v.start = EndOf(vs) /\ v.count = count /\ v \in VolumeRecords
  <2>1. end - count = EndOf(vs)
    BY <1>1
  <2>2. v = [start |-> EndOf(vs), count |-> count]
    BY <2>1 DEF VolumeTo
  <2> QED
    BY <2>2, <1>1 DEF VolumeRecords
<1> HIDE DEF v
<1>3. /\ ws \in Seq(VolumeRecords) /\ Len(ws) = Len(vs) + 1
      /\ \A i \in 1 .. Len(vs) : ws[i] = vs[i]
      /\ ws[Len(ws)] = v
  BY <1>2
<1> HIDE DEF ws
<1>4. Tiled(ws)
  <2> SUFFICES ASSUME NEW i \in 1 .. Len(ws)
               PROVE  /\ ws[i].count > 0
                      /\ ws[i].start = IF i = 1 THEN 0 ELSE ws[i - 1].start + ws[i - 1].count
    BY DEF Tiled
  <2>1. CASE i =< Len(vs)
    <3>1. i \in 1 .. Len(vs) /\ (i # 1 => i - 1 \in 1 .. Len(vs))
      BY <2>1, <1>3
    <3> QED
      BY <3>1, <1>3 DEF Tiled
  <2>2. CASE i = Len(vs) + 1
    <3>1. ws[i] = v
      BY <2>2, <1>3
    <3>2. CASE Len(vs) = 0
      BY <3>1, <3>2, <2>2, <1>2 DEF EndOf
    <3>3. CASE Len(vs) # 0
      <4>1. ws[i - 1] = vs[Len(vs)] /\ i # 1
        BY <3>3, <2>2, <1>3
      <4> QED
        BY <3>1, <3>3, <4>1, <1>2 DEF EndOf
    <3> QED
      BY <3>2, <3>3
  <2> QED
    BY <2>1, <2>2, <1>3
<1>5. EndOf(ws) = end
  <2>1. Len(ws) # 0 /\ ws[Len(ws)] = v
    BY <1>3
  <2> QED
    BY <2>1, <1>2 DEF EndOf
<1> QED
  BY <1>3, <1>4, <1>5 DEF ws, v

\* Nothing is split when nothing has been called.
LEMMA SplitInit == ArchiveInit => SplitInv
<1> SUFFICES ASSUME ArchiveInit PROVE SplitInv
  OBVIOUS
<1>1. volumes = <<>> /\ next = 0 /\ current = 0 /\ creating = "idle"
  BY DEF ArchiveInit, CreatorInit
<1>2. volumes \in Seq(VolumeRecords) /\ Len(volumes) = 0
  BY <1>1
<1> QED
  BY <1>1, <1>2 DEF SplitInv, Tiled

\* A step that leaves the split alone keeps the invariant.
LEMMA SplitKept ==
  ASSUME SplitInv, UNCHANGED splitState
  PROVE  SplitInv'
BY DEF SplitInv, splitState, Tiled, EndOf

\* The call returns, or stays where it is before or after the split.
LEMMA SplitReturns ==
  ASSUME SplitInv, UNCHANGED <<volumes, next, current>>,
         creating' \notin {"hash", "encode", "split", "write"}
  PROVE  SplitInv'
BY DEF SplitInv, Tiled, EndOf

\* A new call begins with no volume.
LEMMA BeginSplits == SplitInv /\ Begin => SplitInv'
<1> SUFFICES ASSUME SplitInv, Begin PROVE SplitInv'
  OBVIOUS
<1>1. volumes' = <<>> /\ next' = 0 /\ current' = 0 /\ creating' = "hash"
  BY DEF Begin
<1>2. volumes' \in Seq(VolumeRecords) /\ Len(volumes') = 0
  BY <1>1
<1> QED
  BY <1>1, <1>2 DEF SplitInv, Tiled

\* The count of recovery blocks is a number when the plan is accepted.
LEMMA PlanSplits == SplitInv /\ Plan => SplitInv'
<1> SUFFICES ASSUME SplitInv, Plan PROVE SplitInv'
  OBVIOUS
<1>1. creating = "hash" /\ UNCHANGED <<volumes, next, current>>
  BY DEF Plan, splitVars
<1>2. \/ creating' = "encode" /\ wanted' \in Nat
      \/ creating' = "idle"
  <2> DEFINE blocks == SumOf([i \in 1 .. Len(meta') |-> BlocksOf(meta'[i], size')])
  <2> DEFINE extra  == RecoveryCount(blocks, size', options.percent)
  <2>1. /\ wanted' = extra
        /\ IF /\ size' # 0
              /\ {blocks, extra} \subseteq 0 .. MaxBlocks /\ blocks + extra =< MaxBlocks
             THEN creating' = "encode" /\ created' = created
             ELSE Return("error")
    BY DEF Plan
  <2> HIDE DEF blocks, extra
  <2>2. MaxBlocks \in Nat
    BY CreatorAssumption
  <2>3. CASE creating' = "encode"
    <3>1. extra \in 0 .. MaxBlocks
      BY <2>1, <2>3 DEF Return
    <3> QED
      BY <2>1, <2>2, <2>3, <3>1
  <2> QED
    BY <2>1, <2>3 DEF Return
<1> QED
  BY <1>1, <1>2, SplitReturns DEF SplitInv, Tiled, EndOf

\* The split begins at exponent 0.
LEMMA FinalizeSplits == SplitInv /\ Finalize => SplitInv'
<1> SUFFICES ASSUME SplitInv, Finalize PROVE SplitInv'
  OBVIOUS
<1>1. /\ creating = "encode" /\ creating' = "split"
      /\ UNCHANGED <<wanted, volumes, next, current>>
  BY DEF Finalize, planVars, splitVars
<1>2. volumes = <<>> /\ next = 0 /\ current = 0 /\ wanted \in Nat
  BY <1>1 DEF SplitInv
<1>3. Len(volumes') = 0
  BY <1>1, <1>2
<1> QED
  BY <1>1, <1>2, <1>3 DEF SplitInv, Tiled, EndOf

\* Each round of the loop places one block or closes a volume at the next exponent.
LEMMA PlaceBlockSplits == SplitInv /\ PlaceBlock => SplitInv'
<1> SUFFICES ASSUME SplitInv, PlaceBlock PROVE SplitInv'
  OBVIOUS
<1>1. /\ creating = "split" /\ creating' = "split" /\ next' = next + 1 /\ wanted' = wanted
      /\ \/ /\ volumes' = Append(volumes, VolumeTo(next + 1, current + 1))
            /\ current' = 0
         \/ current' = current + 1 /\ volumes' = volumes
  BY DEF PlaceBlock, SplitUnchanged, planVars
<1>2. /\ volumes \in Seq(VolumeRecords) /\ next \in Nat /\ current \in Nat /\ Tiled(volumes)
      /\ wanted \in Nat /\ EndOf(volumes) + current = next /\ EndOf(volumes) \in Nat
  BY <1>1, EndIsNat DEF SplitInv
<1>3. CASE /\ volumes' = Append(volumes, VolumeTo(next + 1, current + 1))
           /\ current' = 0
  <2>1. EndOf(volumes) + (current + 1) = next + 1
    BY <1>2
  <2>2. /\ volumes' \in Seq(VolumeRecords) /\ Tiled(volumes') /\ EndOf(volumes') = next + 1
    BY <1>2, <1>3, <2>1, AppendTiles
  <2> QED
    BY <1>1, <1>2, <1>3, <2>2 DEF SplitInv
<1>4. CASE current' = current + 1 /\ volumes' = volumes
  BY <1>1, <1>2, <1>4 DEF SplitInv, Tiled, EndOf
<1> QED
  BY <1>1, <1>3, <1>4

\* The rest, if there is one, becomes the last volume.
LEMMA FinishExponentialSplits == SplitInv /\ FinishExponential => SplitInv'
<1> SUFFICES ASSUME SplitInv, FinishExponential PROVE SplitInv'
  OBVIOUS
<1>1. /\ creating = "split" /\ creating' = "write" /\ next = wanted
      /\ UNCHANGED <<wanted, next, current>> /\ volumes' = VolumesWithRest
  BY DEF FinishExponential, SplitUnchanged, planVars
<1>2. /\ volumes \in Seq(VolumeRecords) /\ next \in Nat /\ current \in Nat /\ Tiled(volumes)
      /\ wanted \in Nat /\ EndOf(volumes) + current = next /\ EndOf(volumes) \in Nat
  BY <1>1, EndIsNat DEF SplitInv
<1>3. volumes' \in Seq(VolumeRecords) /\ Tiled(volumes') /\ EndOf(volumes') = wanted
  <2>1. CASE current = 0
    BY <1>1, <1>2, <2>1 DEF VolumesWithRest
  <2>2. CASE current # 0
    BY <1>1, <1>2, <2>2, AppendTiles DEF VolumesWithRest
  <2> QED
    BY <2>1, <2>2
<1> QED
  BY <1>1, <1>2, <1>3 DEF SplitInv

\* The single volume holds all blocks.
LEMMA FinishSingleSplits == SplitInv /\ FinishSingle => SplitInv'
<1> SUFFICES ASSUME SplitInv, FinishSingle PROVE SplitInv'
  OBVIOUS
<1>1. CASE wanted = 0
  BY <1>1, SplitReturns DEF FinishSingle, Return
<1>2. CASE wanted # 0
  <2>1. /\ creating = "split" /\ creating' = "write" /\ wanted' = wanted /\ next' = wanted
        /\ current' = current /\ volumes' = <<[start |-> 0, count |-> wanted]>>
    BY <1>2 DEF FinishSingle, SplitUnchanged, planVars
  <2>2. wanted \in Nat \ {0} /\ current \in Nat
    BY <1>2, <2>1 DEF SplitInv
  <2>3. /\ volumes' \in Seq(VolumeRecords) /\ Len(volumes') = 1
        /\ volumes'[1] = [start |-> 0, count |-> wanted]
    BY <2>1, <2>2 DEF VolumeRecords
  <2>4. Tiled(volumes') /\ EndOf(volumes') = wanted
    BY <2>2, <2>3 DEF Tiled, EndOf
  <2> QED
    BY <2>1, <2>2, <2>3, <2>4 DEF SplitInv
<1> QED
  BY <1>1, <1>2

\* Every step of the archive keeps the invariant, one case per action.
LEMMA SplitNext == SplitInv /\ [ArchiveNext]_archiveVars => SplitInv'
<1> SUFFICES ASSUME SplitInv, [ArchiveNext]_archiveVars PROVE SplitInv'
  OBVIOUS
<1>1. CASE CreatorSteps
  <2>1. CASE Begin
    BY <2>1, BeginSplits
  <2>2. CASE Plan
    BY <2>2, PlanSplits
  <2>3. CASE ReadBlock
    <3>1. UNCHANGED <<wanted, volumes, next, current>> /\ creating' \in {creating, "idle"}
      BY <2>3 DEF ReadBlock, Return, planVars, splitVars
    <3>2. CASE creating' = creating
      BY <3>1, <3>2, SplitKept DEF splitState
    <3> QED
      BY <3>1, <3>2, SplitReturns
  <2>4. CASE Finalize
    BY <2>4, FinalizeSplits
  <2>5. CASE PlaceBlock
    BY <2>5, PlaceBlockSplits
  <2>6. CASE FinishExponential
    BY <2>6, FinishExponentialSplits
  <2>7. CASE FinishSingle
    BY <2>7, FinishSingleSplits
  <2>8. CASE OpenFile \/ WritePacket
    BY <2>8, SplitKept DEF OpenFile, WritePacket, WriteUnchanged, planVars, splitVars, splitState
  <2>9. CASE CloseFile
    <3>1. UNCHANGED <<wanted, volumes, next, current>> /\ creating' \in {creating, "idle"}
      BY <2>9 DEF CloseFile, Return, WriteUnchanged, planVars, splitVars
    <3>2. CASE creating' = creating
      BY <3>1, <3>2, SplitKept DEF splitState
    <3> QED
      BY <3>1, <3>2, SplitReturns
  <2>10. CASE \E f \in Files : HashFile(f)
    BY <2>10, SplitKept DEF HashFile, splitVars, splitState
  <2> QED
    BY <1>1, <2>1, <2>2, <2>3, <2>4, <2>5, <2>6, <2>7, <2>8, <2>9, <2>10
       DEF CreatorSteps, CreatorNext
<1>2. CASE LoaderSteps
  BY <1>2, SplitKept DEF LoaderSteps, creatorVars, planVars, splitVars, splitState
<1>3. CASE Environment
  <2>1. CASE Interrupt
    BY <2>1, SplitReturns DEF Interrupt, Return, splitVars
  <2>2. CASE \E f \in Files : Edit(f)
    BY <2>2, SplitKept DEF Edit, planVars, splitVars, splitState
  <2>3. CASE UNCHANGED creatorVars
    BY <2>3, SplitKept DEF creatorVars, planVars, splitVars, splitState
  <2>4. Interrupt \/ (\E f \in Files : Edit(f)) \/ UNCHANGED creatorVars
    BY <1>3 DEF Environment, Harm, Delete, Rename, Reorder, Mishap
  <2> QED
    BY <2>1, <2>2, <2>3, <2>4
<1>4. CASE Settled \/ UNCHANGED archiveVars
  BY <1>4, SplitKept DEF Settled, archiveVars, creatorVars, planVars, splitVars, splitState
<1> QED
  BY <1>1, <1>2, <1>3, <1>4 DEF ArchiveNext

\* Volumes tile (VolumesTile) in every state, for every number of recovery blocks, cap and
\* number of calls, whatever interrupts them: split_into_volumes leaves no gap and no overlap.
THEOREM VolumesAlwaysTile == ArchiveSpec => []VolumesTile
<1>1. ArchiveInit => SplitInv
  BY SplitInit
<1>2. SplitInv /\ [ArchiveNext]_archiveVars => SplitInv'
  BY SplitNext
<1>3. SplitInv => VolumesTile
  <2> SUFFICES ASSUME SplitInv PROVE VolumesTile
    OBVIOUS
  <2>1. volumes \in Seq(VolumeRecords) /\ Tiled(volumes)
    BY DEF SplitInv
  <2>2. ASSUME creating = "write", wanted > 0
        PROVE  /\ volumes # <<>>
               /\ volumes[Len(volumes)].start + volumes[Len(volumes)].count = wanted
    <3>1. wanted \in Nat /\ EndOf(volumes) = wanted
      BY <2>2 DEF SplitInv
    <3>2. Len(volumes) # 0
      BY <3>1, <2>2 DEF EndOf
    <3>3. volumes # <<>>
      BY <3>2, <2>1
    <3> QED
      BY <3>1, <3>2, <3>3 DEF EndOf
  <2> QED
    BY <2>1, <2>2 DEF VolumesTile, Tiled
<1> QED
  BY <1>1, <1>2, <1>3, PTL DEF ArchiveSpec
-----------------------------------------------------------------------------
(***************************************************************************)
(* Contents and their order.                                               *)
(***************************************************************************)

\* There are finitely many input files.
LEMMA FilesFinite == IsFiniteSet(Files)
<1>1. Inputs \in Seq(Files)
  BY ContentAssumption
<1>2. Files = {Inputs[i] : i \in 1 .. Len(Inputs)} /\ Len(Inputs) \in Nat
  BY <1>1 DEF Files, ToSet
<1> DEFINE f == [i \in 1 .. Len(Inputs) |-> Inputs[i]]
<1>3. f \in Surjection(1 .. Len(Inputs), Files)
  BY <1>2 DEF Surjection
<1> HIDE DEF f
<1> QED
  BY <1>2, <1>3, FS_Interval, FS_Surjection

\* What a content is, and that the id tells whose it is.
LEMMA ContentFacts ==
  /\ \A f \in Files : \A c \in ContentsOf(f) : c \in AllContents /\ c.id \in Nat /\ c.len \in Nat
  /\ \A c \in AllContents : c.id \in Nat /\ c.len \in Nat
  /\ \A f, g \in Files : \A c \in ContentsOf(f), d \in ContentsOf(g) : c.id = d.id => f = g
  /\ \A f \in Files : Originals[f] \in ContentsOf(f)
BY ContentAssumption DEF AllContents, ContentsOf

\* FileOf finds the file.
LEMMA FileOfFacts ==
  ASSUME NEW f \in Files, NEW c \in ContentsOf(f)
  PROVE  FileOf(c) = f
BY ContentFacts DEF FileOf

\* How many numbers add up to a number (SumOf is the sum of create's blocks and bytes).
LEMMA SumOfNat ==
  ASSUME NEW n \in Nat, NEW counts \in [1 .. n -> Nat]
  PROVE  SumOf(counts) \in Nat
<1>1. SumOf(counts) = Total(counts, DOMAIN counts)
  BY DEF SumOf, FoldSeq, FoldFunction, FoldFunctionOnSet, MapThenFoldSet, Total, SumIter, AddsUp
<1>2. DOMAIN counts = 1 .. n /\ IsFiniteSet(1 .. n)
  BY FS_Interval
<1>3. \A x \in 1 .. n : counts[x] \in Nat
  OBVIOUS
<1>4. Total(counts, 1 .. n) \in Nat
  BY <1>2, <1>3, TotalType
<1> QED
  BY <1>1, <1>2, <1>4

\* Contents of different files.
Apart(h) == \A f \in Files : h[f] \in ContentsOf(f)

\* The contents of all files, each once, the ids growing.
InOrderOfIds(m, h) ==
  /\ IsSeq(m)
  /\ \A i \in 1 .. Len(m) : \E f \in Files : m[i] = h[f]
  /\ \A f \in Files : \E i \in 1 .. Len(m) : m[i] = h[f]
  /\ \A i, j \in 1 .. Len(m) : i < j => m[i].id < m[j].id

\* Sorting by id does that.
LEMMA IdOrder ==
  ASSUME NEW h, Apart(h)
  PROVE  InOrderOfIds(InIdOrder({h[f] : f \in Files}), h)
<1> DEFINE C == {h[f] : f \in Files}
           key == [c \in C |-> c.id]
           hf == [f \in Files |-> h[f]]
<1>1. IsFiniteSet(C)
  <2>1. hf \in Surjection(Files, C)
    BY DEF Surjection
  <2> HIDE DEF hf, C
  <2> QED
    BY <2>1, FilesFinite, FS_Surjection
<1>2. key \in [C -> Int] /\ \A x, y \in C : key[x] = key[y] => x = y
  BY ContentFacts DEF Apart
<1>3. InIdOrder(C) = ByRank(C, key)
  <2> DEFINE r == [x \in C |-> Cardinality({y \in C : y.id < x.id})]
             s == [x \in C |-> Cardinality(Below(C, key, x))]
  <2>1. \A x \in C : {y \in C : y.id < x.id} = Below(C, key, x)
    BY DEF Below
  <2> HIDE DEF C, key
  <2>2. r = s
    BY <2>1
  <2>3. InIdOrder(C) = [i \in 1 .. Cardinality(C) |-> CHOOSE x \in C : r[x] = i - 1]
    <3>1. InIdOrder(C) = [i \in 1 .. Cardinality(C) |->
                            CHOOSE x \in C : Cardinality({y \in C : y.id < x.id}) = i - 1]
      BY DEF InIdOrder, InOrder
    <3> QED
      BY <3>1
  <2>4. ByRank(C, key) = [i \in 1 .. Cardinality(C) |-> CHOOSE x \in C : s[x] = i - 1]
    BY DEF ByRank
  <2> HIDE DEF r, s
  <2> QED
    BY <2>2, <2>3, <2>4
<1>4. \A c \in C : key[c] = c.id
  OBVIOUS
<1> DEFINE m == ByRank(C, key)
<1>5. /\ IsSeq(m) /\ Len(m) = Cardinality(C) /\ Cardinality(C) \in Nat
      /\ \A i \in 1 .. Cardinality(C) : m[i] \in C
      /\ \A x \in C : \E i \in 1 .. Cardinality(C) : m[i] = x
      /\ \A i, j \in 1 .. Cardinality(C) : i < j => key[m[i]] < key[m[j]]
  <2> HIDE DEF C, key
  <2> QED
    BY <1>1, <1>2, Sorting DEF SortedBy
<1> HIDE DEF m, key
<1>6. \A i, j \in 1 .. Len(m) : i < j => m[i].id < m[j].id
  <2> HIDE DEF C
  <2> QED
    BY <1>4, <1>5
<1>7. /\ \A i \in 1 .. Len(m) : \E f \in Files : m[i] = h[f]
      /\ \A f \in Files : \E i \in 1 .. Len(m) : m[i] = h[f]
  BY <1>5
<1>8. InOrderOfIds(m, h)
  <2> HIDE DEF C
  <2> QED
    BY <1>5, <1>6, <1>7 DEF InOrderOfIds
<1>9. InIdOrder(C) = m
  BY <1>3 DEF m
<1> HIDE DEF C
<1> QED
  BY <1>8, <1>9 DEF C

-----------------------------------------------------------------------------
(***************************************************************************)
(* What a creation knows.                                                  *)
(***************************************************************************)

\* The plan has been made and accepted; every block has been read.
Planned == creating \in {"encode", "split", "write"} \/ created = "ok"
AllRead == creating \in {"split", "write"} \/ created = "ok"

\* The input files hold contents of theirs, and so does what was hashed.
HashInv ==
  /\ source \in [Files -> AllContents] /\ \A f \in Files : source[f] \in ContentsOf(f)
  /\ blurred \in BOOLEAN
  /\ DOMAIN hashed \subseteq Files
  /\ \A f \in DOMAIN hashed : hashed[f] \in ContentsOf(f)
  /\ options.size \in Nat /\ options.percent \in Nat /\ options.scheme \in Schemes
  /\ creating \in {"idle", "hash", "encode", "split", "write"}
  /\ created \in {"none", "ok", "error", "panic", "interrupted"}
  /\ created = "ok" => creating = "idle"

\* The entries are the hashed files in the order of their ids; of each no more blocks are read
\* than it has, and in the end all.
PlanInv ==
  /\ IsSeq(meta) /\ IsSeq(read) /\ Len(read) = Len(meta)
  /\ size \in Nat /\ wanted \in Nat
  /\ \A i \in Entries : \E f \in DOMAIN hashed : meta[i] = hashed[f]
  /\ \A i, j \in Entries : i < j => meta[i].id < meta[j].id
  /\ \A i \in Entries : IsSeq(read[i])
  /\ meta # <<>> => size # 0
  /\ Planned => /\ size # 0 /\ DOMAIN hashed = Files
                /\ \A f \in Files : \E i \in Entries : meta[i] = hashed[f]
  /\ \A i \in Entries : Len(read[i]) =< BlocksOf(meta[i], size)
  /\ AllRead => \A i \in Entries : Len(read[i]) = BlocksOf(meta[i], size)

\* As long as no file changed under its id or behind a call's back, what was hashed is there,
\* and what was read is what was hashed.
FaithInv ==
  ~blurred =>
    /\ \A f \in Files : source[f] # Originals[f] => source[f].id # Originals[f].id
    /\ \A f \in DOMAIN hashed : hashed[f] = source[f]
    /\ \A i \in Entries : \A j \in 1 .. Len(read[i]) : read[i][j] = Block(meta[i], size, j - 1)

CreateInv == HashInv /\ PlanInv /\ FaithInv

\* What CreateInv depends on.
createState == <<source, blurred, creating, created, planVars, read>>

\* The entries are contents with numbers for ids and lengths.
LEMMA EntryFacts ==
  ASSUME HashInv, PlanInv, NEW i \in Entries
  PROVE  /\ meta[i] \in AllContents /\ meta[i].id \in Nat /\ meta[i].len \in Nat
         /\ \E f \in DOMAIN hashed : f \in Files /\ meta[i] = hashed[f] /\ FileOf(meta[i]) = f
         /\ size # 0 /\ BlocksOf(meta[i], size) \in Nat
<1>1. PICK f \in DOMAIN hashed : meta[i] = hashed[f]
  BY DEF PlanInv
<1>2. f \in Files /\ meta[i] \in ContentsOf(f)
  BY <1>1 DEF HashInv
<1>3. meta[i] \in AllContents /\ meta[i].id \in Nat /\ meta[i].len \in Nat /\ FileOf(meta[i]) = f
  BY <1>2, ContentFacts, FileOfFacts
<1>4. Len(meta) # 0 /\ meta # <<>>
  BY SeqFacts DEF PlanInv, Entries
<1>5. size \in Nat \ {0}
  BY <1>4 DEF PlanInv
<1>6. BlocksOf(meta[i], size) \in Nat
  <2>1. meta[i].len + size - 1 \in Nat
    BY <1>3, <1>5
  <2> QED
    BY <2>1, <1>5, DivBound DEF BlocksOf, CeilDiv
<1> QED
  BY <1>1, <1>2, <1>3, <1>5, <1>6

\* A step that leaves a creation's knowledge alone, or only ends the call, keeps it.
LEMMA CreateKept ==
  ASSUME CreateInv, UNCHANGED <<source, blurred, planVars, read>>,
         \/ UNCHANGED <<creating, created>>
         \/ creating' = "idle" /\ created' \in {"error", "panic", "interrupted"}
         \/ creating = "split" /\ creating' = "write" /\ created' = created
         \/ creating = "write" /\ creating' = "idle" /\ created' = "ok"
  PROVE  CreateInv'
<1>1. HashInv'
  BY DEF CreateInv, HashInv, planVars
<1>2. (Planned' => Planned) /\ (AllRead' => AllRead)
  BY DEF Planned, AllRead, CreateInv, HashInv
<1>3. PlanInv' /\ FaithInv'
  BY <1>2 DEF CreateInv, PlanInv, FaithInv, planVars, Entries, BlocksOf, CeilDiv, Block
<1> QED
  BY <1>1, <1>3 DEF CreateInv

\* Nothing is known before the first call.
LEMMA CreateInit == ArchiveInit => CreateInv
<1> SUFFICES ASSUME ArchiveInit PROVE CreateInv
  OBVIOUS
<1> USE DEF ArchiveInit, CreatorInit
<1>1. HashInv
  <2>1. \A f \in Files : Originals[f] \in ContentsOf(f) /\ Originals[f] \in AllContents
    BY ContentFacts
  <2>2. source \in [Files -> AllContents] /\ source = Originals
    BY ContentAssumption
  <2>3. DOMAIN hashed = {}
    OBVIOUS
  <2>4. options.size = 0 /\ options.percent = 0 /\ options.scheme \in Schemes
    BY DEF NoOptions, Schemes
  <2>5. blurred = FALSE /\ creating = "idle" /\ created = "none"
    OBVIOUS
  <2> HIDE DEF ArchiveInit, CreatorInit
  <2>6. source \in [Files -> AllContents] /\ \A f \in Files : source[f] \in ContentsOf(f)
    BY <2>1, <2>2
  <2>7. DOMAIN hashed \subseteq Files /\ \A f \in DOMAIN hashed : hashed[f] \in ContentsOf(f)
    BY <2>3
  <2>8. options.size \in Nat /\ options.percent \in Nat
    BY <2>4
  <2>9. /\ creating \in {"idle", "hash", "encode", "split", "write"}
        /\ created \in {"none", "ok", "error", "panic", "interrupted"}
        /\ created = "ok" => creating = "idle"
    BY <2>5
  <2>10. blurred \in BOOLEAN
    BY <2>5
  <2> QED
    BY <2>4, <2>6, <2>7, <2>8, <2>9, <2>10 DEF HashInv
<1>2. meta = <<>> /\ read = <<>> /\ IsSeq(meta) /\ Len(meta) = 0 /\ Len(read) = 0
  BY ShortSeqs
<1>3. PlanInv
  BY <1>2 DEF PlanInv, Entries, Planned, AllRead
<1>4. FaithInv
  BY <1>2 DEF FaithInv, Entries
<1> QED
  BY <1>1, <1>3, <1>4 DEF CreateInv

\* A call begins with nothing hashed.
LEMMA BeginCreates == CreateInv /\ Begin => CreateInv'
<1> SUFFICES ASSUME CreateInv, Begin PROVE CreateInv'
  OBVIOUS
<1>1. /\ creating' = "hash" /\ created' = "none" /\ hashed' = <<>> /\ meta' = <<>> /\ size' = 0
      /\ wanted' = 0 /\ read' = <<>> /\ source' = source /\ blurred' = blurred
      /\ \E o \in Options : options' = o
  BY DEF Begin
<1>2. options'.size \in Nat /\ options'.percent \in Nat /\ options'.scheme \in Schemes
  BY <1>1, CreatorAssumption
<1>3. DOMAIN hashed' = {}
  BY <1>1
<1>4. HashInv'
  BY <1>1, <1>2, <1>3 DEF CreateInv, HashInv
<1>5. IsSeq(meta') /\ IsSeq(read') /\ Len(meta') = 0 /\ Len(read') = 0
  BY <1>1, ShortSeqs
<1>6. PlanInv'
  BY <1>1, <1>5 DEF PlanInv, Entries, Planned, AllRead
<1>7. FaithInv'
  BY <1>1, <1>3, <1>5 DEF CreateInv, FaithInv, Entries
<1> QED
  BY <1>4, <1>6, <1>7 DEF CreateInv

\* One more file is hashed.
LEMMA HashCreates ==
  ASSUME CreateInv, NEW f \in Files, HashFile(f)
  PROVE  CreateInv'
<1>1. /\ creating = "hash" /\ f \notin DOMAIN hashed /\ hashed' = With(hashed, f, source[f])
      /\ UNCHANGED <<source, blurred, creating, created, options, meta, size, wanted, read>>
  BY DEF HashFile
<1>2. /\ DOMAIN hashed' = DOMAIN hashed \cup {f} /\ hashed'[f] = source[f]
      /\ \A g \in DOMAIN hashed : hashed'[g] = hashed[g]
  BY <1>1 DEF With
<1>3. HashInv'
  BY <1>1, <1>2 DEF CreateInv, HashInv
<1>4. ~Planned' /\ ~AllRead'
  BY <1>1 DEF Planned, AllRead, CreateInv, HashInv
<1>5. PlanInv'
  BY <1>1, <1>2, <1>4 DEF CreateInv, PlanInv, Entries
<1>6. FaithInv'
  BY <1>1, <1>2 DEF CreateInv, FaithInv, Entries
<1> QED
  BY <1>3, <1>5, <1>6 DEF CreateInv

\* A share of the bytes, in blocks, is a number of blocks.
LEMMA ShareIsNat ==
  ASSUME NEW blocks \in Nat, NEW s \in Nat \ {0}, NEW percent \in Nat
  PROVE  RecoveryCount(blocks, s, percent) \in Nat
<1> DEFINE bytes == blocks * s * percent
<1>1. bytes \in Nat
  <2>1. blocks * s \in Nat
    OBVIOUS
  <2> QED
    BY <2>1
<1> HIDE DEF bytes
<1>2. bytes \div 100 \in Nat
  BY <1>1, DivBound
<1> DEFINE share == bytes \div 100
<1>3. share + s - 1 \in Nat
  BY <1>2
<1> HIDE DEF share
<1>4. (share + s - 1) \div s \in Nat
  BY <1>3, DivBound
<1> QED
  BY <1>4 DEF share, bytes, RecoveryCount, CeilDiv

\* The plan: the entries in canonical order, a block size and so many recovery blocks.
LEMMA PlanCreates == CreateInv /\ Plan => CreateInv'
<1> SUFFICES ASSUME CreateInv, Plan PROVE CreateInv'
  OBVIOUS
<1>1. /\ creating = "hash" /\ DOMAIN hashed = Files /\ Apart(hashed)
      /\ UNCHANGED <<source, blurred, options, hashed>>
  BY DEF Plan, Apart, CreateInv, HashInv
<1> DEFINE m == InIdOrder({hashed[f] : f \in Files})
<1>2. meta' = m /\ read' = [i \in 1 .. Len(meta') |-> <<>>]
  BY DEF Plan
<1>3. /\ IsSeq(m) /\ \A i \in 1 .. Len(m) : \E f \in Files : m[i] = hashed[f]
      /\ \A f \in Files : \E i \in 1 .. Len(m) : m[i] = hashed[f]
      /\ \A i, j \in 1 .. Len(m) : i < j => m[i].id < m[j].id
  <2>1. InOrderOfIds(m, hashed)
    BY <1>1, IdOrder
  <2> HIDE DEF m
  <2> QED
    BY <2>1 DEF InOrderOfIds
<1> HIDE DEF m
<1>4. Len(m) \in Nat
  BY <1>3, SeqFacts
<1>5. IsSeq(read') /\ Len(read') = Len(m) /\ \A i \in 1 .. Len(m) : read'[i] = <<>>
  <2>1. read' = [i \in 1 .. Len(m) |-> read'[i]]
    BY <1>2
  <2> QED
    BY <1>2, <1>4, <2>1, SeqFromFunction
<1>6. \A i \in 1 .. Len(m) : IsSeq(read'[i]) /\ Len(read'[i]) = 0
  BY <1>5, ShortSeqs
<1>7. \A i \in 1 .. Len(m) : m[i].len \in Nat
  BY <1>1, <1>3, ContentFacts DEF Apart
<1>8. size' \in Nat \ {0}
  <2>1. CASE options.size # 0
    BY <2>1 DEF Plan, CreateInv, HashInv
  <2>2. CASE options.size = 0
    <3> DEFINE lens == [i \in 1 .. Len(m) |-> m[i].len]
    <3>1. lens \in [1 .. Len(m) -> Nat]
      BY <1>7
    <3>2. size' = CalculateBlockSize(SumOf(lens))
      BY <1>2, <2>2 DEF Plan
    <3> HIDE DEF lens
    <3>3. SumOf(lens) \in Nat
      BY <1>4, <3>1, SumOfNat
    <3>4. size' \in Nat /\ size' >= MinBlockSize /\ MinBlockSize \in Nat \ {0}
      BY <3>2, <3>3, BlockSizeFits, CreatorAssumption
    <3> QED
      BY <3>4
  <2> QED
    BY <2>1, <2>2
<1>9. \A i \in 1 .. Len(m) : BlocksOf(m[i], size') \in Nat
  <2> SUFFICES ASSUME NEW i \in 1 .. Len(m) PROVE BlocksOf(m[i], size') \in Nat
    OBVIOUS
  <2>1. m[i].len + size' - 1 \in Nat
    BY <1>7, <1>8
  <2> QED
    BY <1>8, <2>1, DivBound DEF BlocksOf, CeilDiv
<1> DEFINE counts == [i \in 1 .. Len(m) |-> BlocksOf(m[i], size')]
           extra == RecoveryCount(SumOf(counts), size', options.percent)
<1>10. counts \in [1 .. Len(m) -> Nat]
  BY <1>9
<1>11. /\ wanted' = extra
       /\ \/ creating' = "encode" /\ created' = created
          \/ creating' = "idle" /\ created' = "error"
  <2>1. /\ wanted' = extra
        /\ IF /\ size' # 0
              /\ {SumOf(counts), extra} \subseteq 0 .. MaxBlocks
              /\ SumOf(counts) + extra =< MaxBlocks
             THEN creating' = "encode" /\ created' = created
             ELSE Return("error")
    BY <1>2 DEF Plan
  <2> HIDE DEF counts, extra
  <2> QED
    BY <2>1 DEF Return
<1> HIDE DEF counts
<1>12. wanted' \in Nat
  <2>1. SumOf(counts) \in Nat
    BY <1>4, <1>10, SumOfNat
  <2>2. options.percent \in Nat
    BY DEF CreateInv, HashInv
  <2> QED
    BY <1>8, <1>11, <2>1, <2>2, ShareIsNat
<1> HIDE DEF extra
<1>13. HashInv'
  BY <1>1, <1>11 DEF CreateInv, HashInv
<1>14. ~AllRead'
  BY <1>1, <1>11 DEF AllRead, CreateInv, HashInv
<1>15. PlanInv'
  <2>1. \A i \in Entries' : Len(read'[i]) =< BlocksOf(meta'[i], size')
    BY <1>2, <1>6, <1>9 DEF Entries
  <2>2. BlocksOf(meta[1], size)' = BlocksOf(meta'[1], size')
    BY DEF BlocksOf, CeilDiv
  <2> QED
    BY <1>1, <1>2, <1>3, <1>5, <1>6, <1>8, <1>12, <1>14, <2>1 DEF PlanInv, Entries
<1>16. FaithInv'
  BY <1>1, <1>2, <1>6 DEF CreateInv, FaithInv, Entries
<1> QED
  BY <1>13, <1>15, <1>16 DEF CreateInv

\* The entry whose turn it is is one that is not at its end.
LEMMA ReadingFacts ==
  ASSUME HashInv, PlanInv, Unread # {}
  PROVE  /\ Reading \in Entries /\ Len(read[Reading]) \in Nat
         /\ Len(read[Reading]) < BlocksOf(meta[Reading], size)
<1>1. Entries \subseteq Nat
  BY SeqFacts DEF PlanInv, Entries
<1>2. Unread \in SUBSET Nat
  BY <1>1 DEF Unread
<1>3. \E m \in Unread : \A k \in Unread : m =< k
  <2>1. \E m \in Unread : \A k \in Unread : m <= k
    BY <1>2, Least
  <2> QED
    BY <2>1
<1>4. Reading \in Unread
  BY <1>3 DEF Reading
<1> QED
  BY <1>4, SeqFacts DEF Unread, PlanInv

\* One more block is read, of the file the entry is about.
LEMMA ReadCreates == CreateInv /\ ReadBlock => CreateInv'
<1> SUFFICES ASSUME CreateInv, ReadBlock PROVE CreateInv'
  OBVIOUS
<1> DEFINE i == Reading
           j == Len(read[i])
           c == source[FileOf(meta[i])]
           longer == Append(read[i], Block(c, size, j))
<1>1. /\ creating = "encode" /\ Unread # {}
      /\ UNCHANGED <<source, blurred, options, hashed, meta, size, wanted>>
      /\ \/ read' = [read EXCEPT ![i] = longer] /\ UNCHANGED <<creating, created>>
         \/ creating' = "idle" /\ created' = "error" /\ read' = read
  BY DEF ReadBlock, Return, planVars
<1>2. CASE creating' = "idle" /\ created' = "error" /\ read' = read
  BY <1>1, <1>2, CreateKept DEF planVars
<1>3. CASE read' = [read EXCEPT ![i] = longer] /\ UNCHANGED <<creating, created>>
  <2>1. i \in Entries /\ j \in Nat /\ j < BlocksOf(meta[i], size) /\ BlocksOf(meta[i], size) \in Nat
    BY <1>1, ReadingFacts, EntryFacts DEF CreateInv
  <2>2. ~blurred => c = meta[i]
    <3>1. PICK f \in DOMAIN hashed : f \in Files /\ meta[i] = hashed[f] /\ FileOf(meta[i]) = f
      BY <2>1, EntryFacts DEF CreateInv
    <3> QED
      BY <3>1 DEF CreateInv, FaithInv
  <2> DEFINE b == Block(c, size, j)
  <2>3. ~blurred => b = Block(meta[i], size, j)
    BY <2>2
  <2> HIDE DEF b
  <2>4. /\ IsSeq(longer) /\ Len(longer) = j + 1
        /\ \A k \in 1 .. j : longer[k] = read[i][k]
        /\ longer[j + 1] = b
    <3>1. IsSeq(read[i])
      BY <2>1 DEF CreateInv, PlanInv
    <3> QED
      BY <3>1, SeqAppend DEF b
  <2> HIDE DEF longer, c
  <2>5. /\ IsSeq(read) /\ Len(read) = Len(meta) /\ Len(meta) \in Nat
        /\ DOMAIN read = Entries /\ read = [k \in 1 .. Len(meta) |-> read[k]]
    BY SeqFacts DEF CreateInv, PlanInv, Entries
  <2>6. read'[i] = longer /\ \A k \in Entries : k # i => read'[k] = read[k]
    BY <1>3, <2>1, <2>5
  <2>7. IsSeq(read') /\ Len(read') = Len(meta)
    <3>1. read' = [k \in 1 .. Len(meta) |-> read'[k]]
      BY <1>3, <2>5
    <3> QED
      BY <2>5, <3>1, SeqFromFunction
  <2>8. \A k \in Entries : /\ IsSeq(read'[k])
                           /\ Len(read'[k]) =< BlocksOf(meta[k], size)
    <3> SUFFICES ASSUME NEW k \in Entries
                 PROVE  IsSeq(read'[k]) /\ Len(read'[k]) =< BlocksOf(meta[k], size)
      OBVIOUS
    <3>1. CASE k = i
      BY <2>1, <2>4, <2>6, <3>1
    <3>2. CASE k # i
      BY <2>6, <3>2 DEF CreateInv, PlanInv
    <3> QED
      BY <3>1, <3>2
  <2>9. HashInv'
    BY <1>1, <1>3 DEF CreateInv, HashInv
  <2>10. ~AllRead' /\ (Planned' => Planned)
    BY <1>1, <1>3 DEF AllRead, Planned, CreateInv, HashInv
  <2>11. PlanInv'
    <3>1. \A k \in Entries' : BlocksOf(meta[k], size)' = BlocksOf(meta[k], size)
      BY <1>1 DEF BlocksOf, CeilDiv
    <3>2. Entries' = Entries /\ UNCHANGED <<meta, size, wanted, hashed>>
      BY <1>1 DEF Entries
    <3>3. \A k \in Entries' : /\ IsSeq(read'[k])
                              /\ Len(read'[k]) =< BlocksOf(meta[k], size)'
      BY <2>8, <3>1, <3>2
    <3>4. /\ IsSeq(meta') /\ IsSeq(read') /\ Len(read') = Len(meta')
          /\ size' \in Nat /\ wanted' \in Nat
          /\ \A k \in Entries' : \E f \in DOMAIN hashed' : meta'[k] = hashed'[f]
          /\ \A k, l \in Entries' : k < l => meta'[k].id < meta'[l].id
          /\ meta' # <<>> => size' # 0
          /\ Planned' => /\ size' # 0 /\ DOMAIN hashed' = Files
                         /\ \A f \in Files : \E k \in Entries' : meta'[k] = hashed'[f]
      BY <2>7, <2>10, <3>2 DEF CreateInv, PlanInv
    <3> QED
      BY <2>10, <3>3, <3>4 DEF PlanInv
  <2>12. FaithInv'
    <3>1. ASSUME ~blurred, NEW k \in Entries, NEW l \in 1 .. Len(read'[k])
          PROVE  read'[k][l] = Block(meta[k], size, l - 1)
      <4>1. CASE k # i
        BY <2>6, <3>1, <4>1 DEF CreateInv, FaithInv
      <4>2. CASE k = i /\ l = j + 1
        <5>1. l - 1 = j
          BY <2>1, <4>2
        <5> QED
          BY <2>3, <2>4, <2>6, <3>1, <4>2, <5>1
      <4>3. CASE k = i /\ l # j + 1
        <5>1. l \in 1 .. j
          BY <2>1, <2>4, <2>6, <4>3
        <5> QED
          BY <2>1, <2>4, <2>6, <3>1, <4>3, <5>1 DEF CreateInv, FaithInv
      <4> QED
        BY <4>1, <4>2, <4>3
    <3>2. UNCHANGED <<source, blurred, hashed, meta, size>> /\ Entries' = Entries
      BY <1>1 DEF Entries
    <3> QED
      BY <3>1, <3>2 DEF CreateInv, FaithInv, Block
  <2> QED
    BY <2>9, <2>11, <2>12 DEF CreateInv
<1> QED
  BY <1>1, <1>2, <1>3

\* The encoder is finished when no entry has a block left.
LEMMA FinalizeCreates == CreateInv /\ Finalize => CreateInv'
<1> SUFFICES ASSUME CreateInv, Finalize PROVE CreateInv'
  OBVIOUS
<1>1. /\ creating = "encode" /\ Unread = {} /\ creating' = "split" /\ created' = created
      /\ UNCHANGED <<source, blurred, options, hashed, meta, size, wanted, read>>
  BY DEF Finalize, planVars
<1>2. HashInv' /\ FaithInv'
  BY <1>1 DEF CreateInv, HashInv, FaithInv, Entries, Block
<1>3. \A i \in Entries : Len(read[i]) = BlocksOf(meta[i], size)
  <2> SUFFICES ASSUME NEW i \in Entries PROVE Len(read[i]) = BlocksOf(meta[i], size)
    OBVIOUS
  <2>1. BlocksOf(meta[i], size) \in Nat /\ Len(read[i]) \in Nat
    BY EntryFacts, SeqFacts DEF CreateInv, PlanInv
  <2>2. ~(Len(read[i]) < BlocksOf(meta[i], size)) /\ Len(read[i]) =< BlocksOf(meta[i], size)
    BY <1>1 DEF Unread, CreateInv, PlanInv
  <2> QED
    BY <2>1, <2>2
<1>4. PlanInv'
  BY <1>1, <1>3 DEF CreateInv, PlanInv, Planned, AllRead, Entries, BlocksOf, CeilDiv
<1> QED
  BY <1>2, <1>4 DEF CreateInv

\* A file is replaced while a call is hashing or encoding.
LEMMA EditCreates ==
  ASSUME CreateInv, NEW f \in Files, Edit(f), creating \in {"hash", "encode"}
  PROVE  CreateInv'
<1>1. PICK c \in Edits[f] : /\ source' = [source EXCEPT ![f] = c]
                            /\ blurred' = (blurred \/ c.id = source[f].id
                                             \/ (creating \in {"hash", "encode"} /\ f \in DOMAIN hashed))
  BY DEF Edit
<1>2. UNCHANGED <<creating, created, options, hashed, meta, size, wanted, read>>
  BY DEF Edit, planVars
<1>3. c \in ContentsOf(f) /\ c \in AllContents
  BY ContentFacts DEF ContentsOf
<1>4. /\ source' \in [Files -> AllContents] /\ source'[f] = c
      /\ \A g \in Files : g # f => source'[g] = source[g]
  BY <1>1, <1>3 DEF CreateInv, HashInv
<1>5. HashInv'
  <2>1. blurred' \in BOOLEAN
    BY <1>1 DEF CreateInv, HashInv
  <2> QED
    BY <1>2, <1>3, <1>4, <2>1 DEF CreateInv, HashInv
<1>6. PlanInv'
  BY <1>2 DEF CreateInv, PlanInv, Planned, AllRead, Entries, BlocksOf, CeilDiv
<1>7. FaithInv'
  <2> SUFFICES ASSUME ~blurred' PROVE FaithInv'
    BY DEF FaithInv
  <2>1. ~blurred /\ c.id # source[f].id /\ f \notin DOMAIN hashed /\ source[f] = Originals[f]
    BY <1>1 DEF Edit
  <2>2. \A g \in Files : source'[g] # Originals[g] => source'[g].id # Originals[g].id
    BY <1>4, <2>1 DEF CreateInv, FaithInv
  <2>3. \A g \in DOMAIN hashed' : hashed'[g] = source'[g]
    BY <1>2, <1>4, <2>1 DEF CreateInv, FaithInv, HashInv
  <2> QED
    BY <1>2, <2>1, <2>2, <2>3 DEF CreateInv, FaithInv, Entries, Block
<1> QED
  BY <1>5, <1>6, <1>7 DEF CreateInv

\* Every step of the archive keeps what a creation knows.
LEMMA CreateNext == CreateInv /\ [ArchiveNext]_archiveVars => CreateInv'
<1> SUFFICES ASSUME CreateInv, [ArchiveNext]_archiveVars PROVE CreateInv'
  OBVIOUS
<1>1. CASE CreatorSteps
  <2>1. CASE Begin
    BY <2>1, BeginCreates
  <2>2. CASE Plan
    BY <2>2, PlanCreates
  <2>3. CASE ReadBlock
    BY <2>3, ReadCreates
  <2>4. CASE Finalize
    BY <2>4, FinalizeCreates
  <2>5. CASE PlaceBlock
    BY <2>5, CreateKept DEF PlaceBlock, SplitUnchanged
  <2>6. CASE FinishExponential
    BY <2>6, CreateKept DEF FinishExponential, SplitUnchanged
  <2>7. CASE FinishSingle
    <3>1. /\ UNCHANGED <<source, blurred, planVars, read>> /\ creating = "split"
          /\ \/ creating' = "idle" /\ created' = "panic"
             \/ creating' = "write" /\ created' = created
      BY <2>7 DEF FinishSingle, SplitUnchanged, Return
    <3> QED
      BY <3>1, CreateKept
  <2>8. CASE OpenFile
    BY <2>8, CreateKept DEF OpenFile, WriteUnchanged
  <2>9. CASE WritePacket
    BY <2>9, CreateKept DEF WritePacket, WriteUnchanged
  <2>10. CASE CloseFile
    <3>1. /\ UNCHANGED <<source, blurred, planVars, read>> /\ creating = "write"
          /\ \/ creating' = "idle" /\ created' = "ok"
             \/ UNCHANGED <<creating, created>>
      BY <2>10 DEF CloseFile, WriteUnchanged, Return
    <3> QED
      BY <3>1, CreateKept
  <2>11. CASE \E f \in Files : HashFile(f)
    BY <2>11, HashCreates
  <2> QED
    BY <1>1, <2>1, <2>2, <2>3, <2>4, <2>5, <2>6, <2>7, <2>8, <2>9, <2>10, <2>11
       DEF CreatorSteps, CreatorNext
<1>2. CASE Environment
  <2>1. CASE Interrupt
    BY <2>1, CreateKept DEF Interrupt, Return
  <2>2. CASE creating \in {"hash", "encode"} /\ \E f \in Files : Edit(f)
    BY <2>2, EditCreates
  <2>3. CASE UNCHANGED creatorVars
    BY <2>3, CreateKept DEF creatorVars
  <2>4. \/ Interrupt \/ (creating \in {"hash", "encode"} /\ \E f \in Files : Edit(f))
        \/ UNCHANGED creatorVars
    BY <1>2 DEF Environment, Harm, Delete, Rename, Reorder, Mishap
  <2> QED
    BY <2>1, <2>2, <2>3, <2>4
<1>3. CASE UNCHANGED creatorVars
  BY <1>3, CreateKept DEF creatorVars
<1> QED
  BY <1>1, <1>2, <1>3 DEF ArchiveNext, LoaderSteps, Settled, archiveVars

-----------------------------------------------------------------------------
(***************************************************************************)
(* The files that are written.                                             *)
(***************************************************************************)

\* Volumes that tile follow on one another.
LEMMA TiledGrows ==
  ASSUME NEW vs \in Seq(VolumeRecords), Tiled(vs)
  PROVE  \A j \in 1 .. Len(vs) : \A i \in 1 .. j - 1 : vs[i].start + vs[i].count =< vs[j].start
<1> DEFINE T == {j \in Nat : j \in 1 .. Len(vs) =>
                    \A i \in 1 .. j - 1 : vs[i].start + vs[i].count =< vs[j].start}
<1>1. 0 \in T
  OBVIOUS
<1>2. ASSUME NEW j \in T PROVE j + 1 \in T
  <2>0. j + 1 \in Nat /\ (j + 1) - 1 = j
    OBVIOUS
  <2> SUFFICES ASSUME j + 1 \in 1 .. Len(vs), NEW i \in 1 .. j
               PROVE  vs[i].start + vs[i].count =< vs[j + 1].start
    BY <2>0
  <2>1. j \in 1 .. Len(vs) /\ i \in 1 .. Len(vs) /\ j \in Nat
    OBVIOUS
  <2>2. vs[j + 1].start = vs[j].start + vs[j].count
    <3>1. (j + 1) - 1 = j /\ j + 1 # 1
      BY <2>1
    <3> QED
      BY <3>1 DEF Tiled
  <2>3. /\ vs[i].start \in Nat /\ vs[i].count \in Nat
        /\ vs[j].start \in Nat /\ vs[j].count \in Nat
    <3>1. vs[i] \in VolumeRecords /\ vs[j] \in VolumeRecords
      BY <2>1
    <3> QED
      BY <3>1 DEF VolumeRecords
  <2>4. CASE i = j
    <3> HIDE DEF T
    <3> QED
      BY <2>2, <2>3, <2>4
  <2>5. CASE i # j
    <3>1. i \in 1 .. j - 1
      BY <2>1, <2>5
    <3>2. vs[i].start + vs[i].count =< vs[j].start
      BY <2>1, <3>1
    <3> DEFINE x == vs[i].start
               c == vs[i].count
               y == vs[j].start
               d == vs[j].count
    <3>3. x \in Nat /\ c \in Nat /\ y \in Nat /\ d \in Nat /\ x + c =< y /\ vs[j + 1].start = y + d
      BY <2>2, <2>3, <3>2
    <3> HIDE DEF T, x, c, y, d
    <3>4. x + c =< vs[j + 1].start
      BY <3>3
    <3> QED
      BY <3>4 DEF x, c
  <2> QED
    BY <2>4, <2>5
<1>3. Nat \subseteq T
  <2> HIDE DEF T
  <2> QED
    BY <1>1, <1>2, SetInduction
<1> QED
  BY <1>3

\* Each exponent below their end is in one of them.
LEMMA TiledCovers ==
  ASSUME NEW vs \in Seq(VolumeRecords), Tiled(vs), NEW e \in Nat, e < EndOf(vs)
  PROVE  \E i \in 1 .. Len(vs) : vs[i].start =< e /\ e < vs[i].start + vs[i].count
<1> DEFINE end(j) == IF j = 0 THEN 0 ELSE vs[j].start + vs[j].count
           Found(j) == \E i \in 1 .. j : vs[i].start =< e /\ e < vs[i].start + vs[i].count
           T == {j \in Nat : j =< Len(vs) /\ e < end(j) => Found(j)}
<1>1. 0 \in T
  OBVIOUS
<1>2. ASSUME NEW j \in T PROVE j + 1 \in T
  <2> SUFFICES ASSUME j + 1 =< Len(vs), e < vs[j + 1].start + vs[j + 1].count
               PROVE  Found(j + 1)
    OBVIOUS
  <2>1. j \in Nat /\ j + 1 \in 1 .. Len(vs) /\ (j + 1) - 1 = j /\ Len(vs) \in Nat
    OBVIOUS
  <2>2. vs[j + 1].start \in Nat /\ vs[j + 1].start = end(j)
    <3>1. vs[j + 1] \in VolumeRecords
      BY <2>1
    <3> QED
      BY <2>1, <3>1 DEF Tiled, VolumeRecords
  <2>3. CASE vs[j + 1].start =< e
    BY <2>1, <2>3
  <2>4. CASE ~(vs[j + 1].start =< e)
    <3>1. Found(j)
      BY <2>1, <2>2, <2>4
    <3> QED
      BY <2>1, <3>1
  <2> QED
    BY <2>3, <2>4
<1>3. Nat \subseteq T
  <2> HIDE DEF T
  <2> QED
    BY <1>1, <1>2, SetInduction
<1>4. Len(vs) \in T /\ e < end(Len(vs))
  BY <1>3 DEF EndOf
<1> QED
  BY <1>4

\* The files of a creation: so many recovery blocks from an exponent in each, all names
\* different, each exponent in one file.
OutputsOK ==
  /\ IsSeq(Outputs) /\ Len(Outputs) >= 1
  /\ \A k \in 1 .. Len(Outputs) : Outputs[k].start \in Nat /\ Outputs[k].count \in Nat
  /\ \A k, l \in 1 .. Len(Outputs) : Outputs[k].name = Outputs[l].name => k = l
  /\ EndOf(volumes) = wanted =>
       /\ \A k \in 1 .. Len(Outputs) : Outputs[k].start + Outputs[k].count =< wanted
       /\ \A k, l \in 1 .. Len(Outputs) :
            k < l => Outputs[k].start + Outputs[k].count =< Outputs[l].start
       /\ \A e \in 0 .. wanted - 1 : \E k \in 1 .. Len(Outputs) :
            Outputs[k].start =< e /\ e < Outputs[k].start + Outputs[k].count

\* The volumes that tile make such files.
LEMMA OutputsFacts == SplitInv /\ wanted \in Nat => OutputsOK
<1> SUFFICES ASSUME SplitInv, wanted \in Nat PROVE OutputsOK
  OBVIOUS
<1>1. volumes \in Seq(VolumeRecords) /\ Tiled(volumes) /\ Len(volumes) \in Nat
  BY DEF SplitInv
<1>2. \A i \in 1 .. Len(volumes) : volumes[i].start \in Nat /\ volumes[i].count \in Nat \ {0}
  <2> SUFFICES ASSUME NEW i \in 1 .. Len(volumes)
               PROVE  volumes[i].start \in Nat /\ volumes[i].count \in Nat \ {0}
    OBVIOUS
  <2>1. volumes[i] \in VolumeRecords /\ volumes[i].count > 0
    BY <1>1 DEF Tiled
  <2> QED
    BY <2>1 DEF VolumeRecords
<1>3. CASE options.scheme = "Single"
  <2> DEFINE out == [name |-> Index, start |-> 0, count |-> wanted]
  <2>1. Outputs = <<out>>
    BY <1>3 DEF Outputs
  <2>2. out.start = 0 /\ out.count = wanted
    OBVIOUS
  <2> HIDE DEF out
  <2>3. IsSeq(Outputs) /\ Len(Outputs) = 1 /\ Outputs[1] = out
    BY <2>1 DEF IsSeq
  <2> QED
    BY <2>2, <2>3 DEF OutputsOK
<1>4. CASE options.scheme # "Single"
  <2> DEFINE first == [name |-> Index, start |-> 0, count |-> 0]
             rest  == [i \in 1 .. Len(volumes) |->
                         [name |-> VolumeName(volumes[i]), start |-> volumes[i].start,
                          count |-> volumes[i].count]]
  <2>1. Outputs = <<first>> \o rest
    BY <1>4 DEF Outputs
  <2>2. first.start = 0 /\ first.count = 0 /\ first.name.count = 0
    BY DEF Index
  <2>3. \A i \in 1 .. Len(volumes) :
          /\ rest[i].start = volumes[i].start /\ rest[i].count = volumes[i].count
          /\ rest[i].name.start = volumes[i].start /\ rest[i].name.count = volumes[i].count
    BY DEF VolumeName
  <2>4. IsSeq(rest) /\ Len(rest) = Len(volumes)
    <3>1. rest = [i \in 1 .. Len(volumes) |-> rest[i]]
      OBVIOUS
    <3> HIDE DEF rest
    <3> QED
      BY <1>1, <3>1, SeqFromFunction
  <2> HIDE DEF first, rest
  <2>5. IsSeq(<<first>>) /\ Len(<<first>>) = 1 /\ <<first>>[1] = first
    BY DEF IsSeq
  <2>6. /\ IsSeq(Outputs) /\ Len(Outputs) = 1 + Len(volumes) /\ Outputs[1] = first
        /\ \A i \in 1 .. Len(volumes) : Outputs[1 + i] = rest[i]
    <3> DEFINE one == <<first>>
    <3>1. IsSeq(one) /\ Len(one) = 1 /\ one[1] = first /\ Outputs = one \o rest
      BY <2>1, <2>5
    <3> HIDE DEF one
    <3>2. Joined(Outputs, one, rest)
      BY <2>4, <3>1, SeqConcat
    <3>3. 1 \in 1 .. Len(one)
      BY <3>1
    <3> QED
      BY <2>4, <3>1, <3>2, <3>3 DEF Joined
  <2>7. \A k \in 1 .. Len(Outputs) :
          k # 1 => k - 1 \in 1 .. Len(volumes) /\ Outputs[k] = rest[k - 1]
    <3> SUFFICES ASSUME NEW k \in 1 .. Len(Outputs), k # 1
                 PROVE  k - 1 \in 1 .. Len(volumes) /\ Outputs[k] = rest[k - 1]
      OBVIOUS
    <3>1. k - 1 \in 1 .. Len(volumes) /\ 1 + (k - 1) = k
      BY <1>1, <2>6
    <3> QED
      BY <2>6, <3>1
  <2>8. \A k \in 1 .. Len(Outputs) : Outputs[k].start \in Nat /\ Outputs[k].count \in Nat
    <3> SUFFICES ASSUME NEW k \in 1 .. Len(Outputs)
                 PROVE  Outputs[k].start \in Nat /\ Outputs[k].count \in Nat
      OBVIOUS
    <3>1. CASE k = 1
      BY <2>2, <2>6, <3>1
    <3>2. CASE k # 1
      <4> DEFINE i == k - 1
      <4>1. i \in 1 .. Len(volumes) /\ Outputs[k] = rest[i]
        BY <2>7, <3>2
      <4> HIDE DEF i
      <4> QED
        BY <1>2, <2>3, <4>1
    <3> QED
      BY <3>1, <3>2
  <2>9. ASSUME NEW k \in 1 .. Len(Outputs), NEW l \in 1 .. Len(Outputs), k < l
        PROVE  /\ Outputs[k].start + Outputs[k].count =< Outputs[l].start
               /\ Outputs[k].name # Outputs[l].name
    <3>1. l # 1 /\ l - 1 \in 1 .. Len(volumes) /\ Outputs[l] = rest[l - 1]
      <4>1. l # 1
        BY <2>6, <2>9
      <4> QED
        BY <2>7, <4>1
    <3>2. CASE k = 1
      <4>1. Outputs[k].start + Outputs[k].count = 0 /\ Outputs[k].name.count = 0
        BY <2>2, <2>6, <3>2
      <4>2. /\ Outputs[l].start = volumes[l - 1].start
            /\ Outputs[l].name.count = volumes[l - 1].count
        BY <2>3, <3>1
      <4>3. volumes[l - 1].start \in Nat /\ volumes[l - 1].count # 0
        BY <1>2, <3>1
      <4> QED
        BY <4>1, <4>2, <4>3
    <3>3. CASE k # 1
      <4>1. k - 1 \in 1 .. Len(volumes) /\ Outputs[k] = rest[k - 1]
        BY <2>7, <3>3
      <4>2. k - 1 \in 1 .. (l - 1) - 1
        BY <1>1, <2>6, <2>9, <3>1, <4>1
      <4>3. volumes[k - 1].start + volumes[k - 1].count =< volumes[l - 1].start
        BY <1>1, <3>1, <4>2, TiledGrows
      <4>4. volumes[k - 1].start # volumes[l - 1].start
        BY <1>2, <3>1, <4>1, <4>3
      <4> QED
        BY <2>3, <3>1, <4>1, <4>3, <4>4
    <3> QED
      BY <3>2, <3>3
  <2>10. ASSUME NEW k \in 1 .. Len(Outputs), NEW l \in 1 .. Len(Outputs),
                Outputs[k].name = Outputs[l].name
         PROVE  k = l
    <3>1. ~(k < l) /\ ~(l < k)
      BY <2>9, <2>10
    <3> QED
      BY <3>1, <2>6, <1>1
  <2>11. ASSUME EndOf(volumes) = wanted, NEW k \in 1 .. Len(Outputs)
         PROVE  Outputs[k].start + Outputs[k].count =< wanted
    <3>1. CASE k = 1
      BY <2>2, <2>6, <3>1
    <3>2. CASE k # 1
      <4> DEFINE i == k - 1
      <4>1. i \in 1 .. Len(volumes) /\ Outputs[k] = rest[i]
        BY <2>7, <3>2
      <4> HIDE DEF i
      <4>2. volumes[Len(volumes)].start + volumes[Len(volumes)].count = wanted
        BY <2>11, <4>1 DEF EndOf
      <4>3. CASE i = Len(volumes)
        BY <1>2, <2>3, <4>1, <4>2, <4>3
      <4>4. CASE i # Len(volumes)
        <5>1. i \in 1 .. Len(volumes) - 1 /\ Len(volumes) \in 1 .. Len(volumes)
          BY <1>1, <4>1, <4>4
        <5>2. volumes[i].start + volumes[i].count =< volumes[Len(volumes)].start
          BY <1>1, <5>1, TiledGrows
        <5> QED
          BY <1>2, <2>3, <4>1, <4>2, <5>1, <5>2
      <4> QED
        BY <4>3, <4>4
    <3> QED
      BY <3>1, <3>2
  <2>12. ASSUME EndOf(volumes) = wanted, NEW e \in 0 .. wanted - 1
         PROVE  \E k \in 1 .. Len(Outputs) :
                  Outputs[k].start =< e /\ e < Outputs[k].start + Outputs[k].count
    <3>1. PICK i \in 1 .. Len(volumes) :
            volumes[i].start =< e /\ e < volumes[i].start + volumes[i].count
      BY <1>1, <2>12, TiledCovers
    <3>2. 1 + i \in 1 .. Len(Outputs) /\ Outputs[1 + i] = rest[i]
      BY <1>1, <2>6
    <3> QED
      BY <2>3, <3>1, <3>2
  <2>13. Len(Outputs) >= 1
    BY <1>1, <2>6
  <2> QED
    BY <2>6, <2>8, <2>9, <2>10, <2>11, <2>12, <2>13 DEF OutputsOK
<1> QED
  BY <1>3, <1>4

-----------------------------------------------------------------------------
(***************************************************************************)
(* The packets of a file.                                                  *)
(***************************************************************************)

\* The ids in the set's id are those of the entries, in their order: build_main_packet_body
\* sorts what is in order already.
LEMMA SetIdFacts ==
  ASSUME HashInv, PlanInv
  PROVE  /\ SetId.size = size /\ IsSeq(SetId.ids) /\ Len(SetId.ids) = Len(meta)
         /\ \A i \in Entries : SetId.ids[i] = meta[i].id
<1> DEFINE S == {meta[i].id : i \in Entries}
           key == [x \in S |-> x]
           s == [i \in Entries |-> meta[i].id]
<1>1. Len(meta) \in Nat /\ \A i \in Entries : meta[i].id \in Nat
  BY EntryFacts, SeqFacts DEF PlanInv
<1>2. IsSeq(s) /\ Len(s) = Len(meta)
  <2>1. s = [i \in 1 .. Len(meta) |-> s[i]]
    BY DEF Entries
  <2> HIDE DEF s
  <2> QED
    BY <1>1, <2>1, SeqFromFunction
<1>3. \A i \in Entries : s[i] = meta[i].id
  OBVIOUS
<1>4. key \in [S -> Int] /\ \A x \in S : key[x] = x
  BY <1>1
<1>5. /\ \A i \in 1 .. Len(s) : s[i] \in S
      /\ \A x \in S : \E i \in 1 .. Len(s) : s[i] = x
  BY <1>2, <1>3 DEF Entries
<1> HIDE DEF s, key, S
<1>6. \A i, j \in 1 .. Len(s) : i < j => key[s[i]] < key[s[j]]
  <2>1. \A i, j \in 1 .. Len(s) : i < j => meta[i].id < meta[j].id
    BY <1>2 DEF PlanInv, Entries
  <2>2. \A i \in 1 .. Len(s) : key[s[i]] = meta[i].id
    BY <1>2, <1>3, <1>4, <1>5 DEF Entries
  <2> QED
    BY <2>1, <2>2
<1>7. ByRank(S, key) = s
  BY <1>2, <1>4, <1>5, <1>6, SortedOnce
<1>8. Ascending(S) = s
  BY <1>7, AscendingIsByRank DEF key
<1>9. SetId.size = size /\ SetId.ids = s
  BY <1>8 DEF SetId, SetIdOf, S
<1> QED
  BY <1>2, <1>3, <1>9

\* Where the packets are: the Creator and the Main packet, the descriptions, the checksums,
\* the recovery blocks.
Laid(ps, out) ==
  /\ IsSeq(ps) /\ Len(ps) = 2 + 2 * Len(meta) + out.count
  /\ ps[1] = CreatorPacket(SetId) /\ ps[2] = MainPacket(SetId)
  /\ \A i \in Entries : ps[2 + i] = FileDescPacket(SetId, meta[i])
  /\ \A i \in Entries : ps[2 + Len(meta) + i] = IfscPacket(SetId, meta[i].id, read[i])
  /\ \A k \in 1 .. out.count :
       ps[2 + 2 * Len(meta) + k] = RecoverySlice(SetId, out.start + k - 1, Encoded)

\* PacketsFor puts them there.
LEMMA PacketsAreLaid ==
  ASSUME IsSeq(meta), NEW out, out.count \in Nat
  PROVE  Laid(PacketsFor(out), out)
<1> DEFINE m == Len(meta)
           n == out.count
           a == <<CreatorPacket(SetId), MainPacket(SetId)>>
           b == [i \in Entries |-> FileDescPacket(SetId, meta[i])]
           c == [i \in Entries |-> IfscPacket(SetId, meta[i].id, read[i])]
           d == [k \in 1 .. n |-> RecoverySlice(SetId, out.start + k - 1, Encoded)]
<1>1. m \in Nat /\ n \in Nat /\ Entries = 1 .. m
  BY SeqFacts DEF Entries
<1>2. IsSeq(a) /\ Len(a) = 2 /\ a[1] = CreatorPacket(SetId) /\ a[2] = MainPacket(SetId)
  BY ShortSeqs
<1>3. \A i \in 1 .. m : b[i] = FileDescPacket(SetId, meta[i])
  BY <1>1
<1>4. \A i \in 1 .. m : c[i] = IfscPacket(SetId, meta[i].id, read[i])
  BY <1>1
<1>5. \A k \in 1 .. n : d[k] = RecoverySlice(SetId, out.start + k - 1, Encoded)
  OBVIOUS
<1>6. IsSeq(b) /\ Len(b) = m
  <2>1. b = [i \in 1 .. m |-> b[i]]
    BY <1>1
  <2> HIDE DEF b, m
  <2> QED
    BY <1>1, <2>1, SeqFromFunction
<1>7. IsSeq(c) /\ Len(c) = m
  <2>1. c = [i \in 1 .. m |-> c[i]]
    BY <1>1
  <2> HIDE DEF c, m
  <2> QED
    BY <1>1, <2>1, SeqFromFunction
<1>8. IsSeq(d) /\ Len(d) = n
  <2>1. d = [k \in 1 .. n |-> d[k]]
    OBVIOUS
  <2> HIDE DEF d, n
  <2> QED
    BY <1>1, <2>1, SeqFromFunction
<1>9. PacketsFor(out) = ((a \o b) \o c) \o d
  BY DEF PacketsFor
<1> HIDE DEF a, b, c, d, m, n
<1> DEFINE ab == a \o b
<1>10. Joined(ab, a, b)
  BY <1>2, <1>6, SeqConcat
<1>11. IsSeq(ab)
  BY <1>10 DEF Joined
<1> DEFINE abc == ab \o c
<1> HIDE DEF ab
<1>12. Joined(abc, ab, c)
  BY <1>7, <1>11, SeqConcat
<1>13. IsSeq(abc)
  BY <1>12 DEF Joined
<1> DEFINE ps == abc \o d
<1> HIDE DEF abc
<1>14. Joined(ps, abc, d)
  BY <1>8, <1>13, SeqConcat
<1>15. PacketsFor(out) = ps
  BY <1>9 DEF abc, ab
<1> HIDE DEF ps
<1>16. Len(ab) = 2 + m /\ Len(abc) = 2 + 2 * m /\ Len(ps) = 2 + 2 * m + n
  BY <1>1, <1>2, <1>6, <1>7, <1>8, <1>10, <1>12, <1>14 DEF Joined
<1>17. \A x \in 1 .. 2 + m : abc[x] = ab[x] /\ ps[x] = abc[x]
  BY <1>1, <1>12, <1>14, <1>16 DEF Joined
<1>18. \A x \in 1 .. 2 : ab[x] = a[x]
  BY <1>2, <1>10 DEF Joined
<1>19. ps[1] = a[1] /\ ps[2] = a[2]
  BY <1>1, <1>17, <1>18
<1>20. \A i \in 1 .. m : ps[2 + i] = b[i]
  <2> SUFFICES ASSUME NEW i \in 1 .. m PROVE ps[2 + i] = b[i]
    OBVIOUS
  <2>1. 2 + i \in 1 .. 2 + m
    BY <1>1
  <2>2. ab[2 + i] = b[i]
    BY <1>2, <1>6, <1>10 DEF Joined
  <2> QED
    BY <1>17, <2>1, <2>2
<1>21. \A i \in 1 .. m : ps[2 + m + i] = c[i]
  <2> SUFFICES ASSUME NEW i \in 1 .. m PROVE ps[2 + m + i] = c[i]
    OBVIOUS
  <2>1. 2 + m + i \in 1 .. Len(abc)
    BY <1>1, <1>16
  <2>2. abc[2 + m + i] = c[i]
    BY <1>7, <1>12, <1>16 DEF Joined
  <2> QED
    BY <1>14, <2>1, <2>2 DEF Joined
<1>22. \A k \in 1 .. n : ps[2 + 2 * m + k] = d[k]
  BY <1>8, <1>14, <1>16 DEF Joined
<1>23. IsSeq(ps)
  BY <1>14 DEF Joined
<1> QED
  BY <1>1, <1>2, <1>3, <1>4, <1>5, <1>15, <1>16, <1>19, <1>20, <1>21, <1>22, <1>23
     DEF Laid, m, n

\* There are no others.
LEMMA LaidIsAll ==
  ASSUME IsSeq(meta), NEW out, out.count \in Nat, NEW ps, Laid(ps, out), NEW x \in 1 .. Len(ps)
  PROVE  \/ x = 1 \/ x = 2
         \/ \E i \in Entries : x = 2 + i \/ x = 2 + Len(meta) + i
         \/ \E k \in 1 .. out.count : x = 2 + 2 * Len(meta) + k
<1> DEFINE m == Len(meta)
<1>1. m \in Nat /\ Len(ps) = 2 + 2 * m + out.count /\ Entries = 1 .. m
  BY SeqFacts DEF Laid, Entries
<1> HIDE DEF m
<1>2. CASE x =< 2 + m
  <2>1. x = 1 \/ x = 2 \/ (x - 2 \in 1 .. m /\ x = 2 + (x - 2))
    BY <1>1, <1>2
  <2> QED
    BY <1>1, <2>1
<1>3. CASE x > 2 + m /\ x =< 2 + 2 * m
  <2>1. x - (2 + m) \in 1 .. m /\ x = 2 + m + (x - (2 + m))
    BY <1>1, <1>3
  <2> QED
    BY <1>1, <2>1 DEF m
<1>4. CASE x > 2 + 2 * m
  <2>1. x - (2 + 2 * m) \in 1 .. out.count /\ x = 2 + 2 * m + (x - (2 + 2 * m))
    BY <1>1, <1>4
  <2> QED
    BY <2>1 DEF m
<1> QED
  BY <1>1, <1>2, <1>3, <1>4

-----------------------------------------------------------------------------
(***************************************************************************)
(* What the files of the directory hold.                                   *)
(***************************************************************************)

\* A packet of some set, whose ids grow; a Main packet says of which set, and a description
\* is of one of its files.
Shape(p) ==
  /\ p = [kind |-> p.kind, set |-> p.set, body |-> p.body, harm |-> p.harm]
  /\ PacketOK(p)
  /\ p.set.size \in Nat \ {0} /\ IsSeq(p.set.ids)
  /\ \A k \in 1 .. Len(p.set.ids) : p.set.ids[k] \in Nat
  /\ \A k, l \in 1 .. Len(p.set.ids) : k < l => p.set.ids[k] < p.set.ids[l]
  /\ p.kind = "Main" => p.body = p.set
  /\ p.kind = "FileDesc" => \E k \in 1 .. Len(p.set.ids) : p.body.id = p.set.ids[k]

\* The bytes the input files had or have.
Used == {Originals[f] : f \in Files} \cup {source[f] : f \in Files}

\* Files that were used, of a set, in the order of their ids.
OfSet(cs, set, used) ==
  /\ IsSeq(cs) /\ Len(cs) = Len(set.ids)
  /\ \A k \in 1 .. Len(cs) : cs[k] \in used /\ cs[k].id = set.ids[k]
  /\ \A k, l \in 1 .. Len(cs) : k < l => cs[k].id < cs[l].id

\* The data blocks of files.
DataBlocks(cs, s) == FlattenSeq([k \in 1 .. Len(cs) |-> BlockSeq(cs[k], s)])

\* A packet whose body is computed from the bytes of the set's files.
Honest(p, used) ==
  \E cs : /\ OfSet(cs, p.set, used)
          /\ p.kind = "FileDesc" => \E k \in 1 .. Len(cs) : p.body = cs[k]
          /\ p.kind = "IFSC" => \E k \in 1 .. Len(cs) :
               p.body.id = cs[k].id /\ p.body.sums = BlockSeq(cs[k], p.set.size)
          /\ p.kind = "RecoverySlice" => p.body.of = DataBlocks(cs, p.set.size)

\* What can be said of a packet, if the history is clear and if it is not.
GoodPacket(p, used, clear) == Shape(p) /\ (clear => Honest(p, used))

\* All packets of a file are of one set.
GoodFile(ps, used, clear) ==
  /\ IsSeq(ps) /\ \A i \in 1 .. Len(ps) : GoodPacket(ps[i], used, clear)
  /\ \A i, j \in 1 .. Len(ps) : ps[i].set = ps[j].set

DirInv == \A name \in DOMAIN dir : GoodFile(dir[name], Used, ~blurred)

\* What a creation writes is of its set, and computed from the files.
LEMMA NewPackets ==
  ASSUME CreateInv, AllRead, NEW out, out.count \in Nat, NEW ps, Laid(ps, out)
  PROVE  \A x \in 1 .. Len(ps) : GoodPacket(ps[x], Used, ~blurred) /\ ps[x].set = SetId
<1>1. /\ size \in Nat \ {0} /\ IsSeq(meta) /\ Len(meta) \in Nat
      /\ SetId.size = size /\ IsSeq(SetId.ids) /\ Len(SetId.ids) = Len(meta)
      /\ \A i \in Entries : SetId.ids[i] = meta[i].id
  BY SetIdFacts, SeqFacts DEF CreateInv, PlanInv, AllRead, Planned
<1>a. /\ \A k \in 1 .. Len(SetId.ids) : SetId.ids[k] \in Nat
      /\ \A k, l \in 1 .. Len(SetId.ids) : k < l => SetId.ids[k] < SetId.ids[l]
  <2>1. /\ \A i \in Entries : meta[i].id \in Nat
        /\ \A i, j \in Entries : i < j => meta[i].id < meta[j].id
    BY EntryFacts DEF CreateInv, PlanInv
  <2> QED
    BY <1>1, <2>1 DEF Entries
<1>2. ASSUME NEW p, p \in {Packet(kind, SetId, body) :
                             kind \in {"Creator", "FileDesc", "IFSC", "RecoverySlice"},
                             body \in {p.body}},
             p.kind = "FileDesc" => \E k \in 1 .. Len(SetId.ids) : p.body.id = SetId.ids[k]
      PROVE  Shape(p) /\ p.set = SetId
  <2>1. PICK kind \in {"Creator", "FileDesc", "IFSC", "RecoverySlice"} :
          p = Packet(kind, SetId, p.body)
    BY <1>2
  <2>2. /\ p = [kind |-> kind, set |-> SetId, body |-> p.body, harm |-> "none"]
        /\ p.kind = kind /\ p.set = SetId /\ p.harm = "none"
    BY <2>1 DEF Packet
  <2>3. p = [kind |-> p.kind, set |-> p.set, body |-> p.body, harm |-> p.harm]
    BY <2>2
  <2>4. PacketOK(p)
    BY <2>2 DEF PacketOK
  <2> QED
    BY <1>1, <1>2, <1>a, <2>2, <2>3, <2>4 DEF Shape
<1>3. Shape(MainPacket(SetId)) /\ MainPacket(SetId).set = SetId
  <2> DEFINE p == MainPacket(SetId)
  <2>1. /\ p = [kind |-> "Main", set |-> SetId, body |-> SetId, harm |-> "none"]
        /\ p.kind = "Main" /\ p.set = SetId /\ p.body = SetId /\ p.harm = "none"
    BY DEF MainPacket, Packet
  <2> HIDE DEF p
  <2>2. p = [kind |-> p.kind, set |-> p.set, body |-> p.body, harm |-> p.harm]
    BY <2>1
  <2>3. PacketOK(p)
    BY <2>1 DEF PacketOK
  <2> QED
    BY <1>1, <1>a, <2>1, <2>2, <2>3 DEF Shape, p
<1>4. ~blurred => OfSet(meta, SetId, Used)
  <2> SUFFICES ASSUME ~blurred, NEW i \in Entries PROVE meta[i] \in Used
    BY <1>1 DEF OfSet, CreateInv, PlanInv, Entries
  <2>1. PICK f \in DOMAIN hashed : meta[i] = hashed[f]
    BY DEF CreateInv, PlanInv
  <2> QED
    BY <2>1 DEF CreateInv, HashInv, FaithInv, Used
<1>5. ~blurred => \A i \in Entries : read[i] = BlockSeq(meta[i], size)
  <2> SUFFICES ASSUME ~blurred, NEW i \in Entries PROVE read[i] = BlockSeq(meta[i], size)
    OBVIOUS
  <2> DEFINE n == BlocksOf(meta[i], size)
  <2>1. IsSeq(read[i]) /\ Len(read[i]) = n
    BY DEF CreateInv, PlanInv
  <2>2. read[i] = [j \in 1 .. n |-> read[i][j]]
    BY <2>1, SeqFacts
  <2>3. \A j \in 1 .. n : read[i][j] = Block(meta[i], size, j - 1)
    BY <2>1 DEF CreateInv, FaithInv
  <2>4. BlockSeq(meta[i], size) = [j \in 1 .. n |-> Block(meta[i], size, j - 1)]
    BY DEF BlockSeq
  <2> HIDE DEF n
  <2> QED
    BY <2>2, <2>3, <2>4
<1>6. ~blurred => Encoded = DataBlocks(meta, size)
  <2> SUFFICES ASSUME ~blurred PROVE Encoded = DataBlocks(meta, size)
    OBVIOUS
  <2>1. read = [i \in 1 .. Len(meta) |-> read[i]]
    BY SeqFacts DEF CreateInv, PlanInv
  <2>2. read = [i \in 1 .. Len(meta) |-> BlockSeq(meta[i], size)]
    BY <1>5, <2>1 DEF Entries
  <2> QED
    BY <2>2 DEF Encoded, DataBlocks
<1> SUFFICES ASSUME NEW x \in 1 .. Len(ps)
             PROVE  GoodPacket(ps[x], Used, ~blurred) /\ ps[x].set = SetId
  OBVIOUS
<1>7. CASE x = 1
  <2>1. ps[x] = Packet("Creator", SetId, <<>>)
    BY <1>7 DEF Laid, CreatorPacket
  <2>2. ps[x].kind = "Creator" /\ ps[x].body = <<>>
    BY <2>1 DEF Packet
  <2>3. Shape(ps[x]) /\ ps[x].set = SetId
    BY <1>2, <2>1, <2>2
  <2> QED
    BY <1>4, <2>2, <2>3 DEF GoodPacket, Honest
<1>8. CASE x = 2
  <2>1. ps[x] = MainPacket(SetId)
    BY <1>8 DEF Laid
  <2>2. ps[x].kind = "Main"
    BY <2>1 DEF Packet, MainPacket
  <2> QED
    BY <1>3, <1>4, <2>1, <2>2 DEF GoodPacket, Honest
<1>9. ASSUME NEW i \in Entries, x = 2 + i
      PROVE  GoodPacket(ps[x], Used, ~blurred) /\ ps[x].set = SetId
  <2>1. ps[x] = Packet("FileDesc", SetId, meta[i])
    BY <1>9 DEF Laid, FileDescPacket
  <2>2. ps[x].kind = "FileDesc" /\ ps[x].body = meta[i]
    BY <2>1 DEF Packet
  <2>4. i \in 1 .. Len(meta) /\ i \in 1 .. Len(SetId.ids) /\ SetId.ids[i] = ps[x].body.id
    BY <1>1, <2>2 DEF Entries
  <2>3. Shape(ps[x]) /\ ps[x].set = SetId
    BY <1>2, <2>1, <2>2, <2>4
  <2> QED
    BY <1>4, <2>2, <2>3, <2>4 DEF GoodPacket, Honest
<1>10. ASSUME NEW i \in Entries, x = 2 + Len(meta) + i
       PROVE  GoodPacket(ps[x], Used, ~blurred) /\ ps[x].set = SetId
  <2>1. ps[x] = Packet("IFSC", SetId, [id |-> meta[i].id, sums |-> read[i]])
    BY <1>10 DEF Laid, IfscPacket
  <2>2. /\ ps[x].kind = "IFSC" /\ ps[x].body = [id |-> meta[i].id, sums |-> read[i]]
        /\ ps[x].body.id = meta[i].id /\ ps[x].body.sums = read[i]
    BY <2>1 DEF Packet
  <2>3. Shape(ps[x]) /\ ps[x].set = SetId
    BY <1>2, <2>1, <2>2
  <2>4. i \in 1 .. Len(meta)
    BY DEF Entries
  <2> QED
    BY <1>1, <1>4, <1>5, <2>2, <2>3, <2>4 DEF GoodPacket, Honest
<1>11. ASSUME NEW k \in 1 .. out.count, x = 2 + 2 * Len(meta) + k
       PROVE  GoodPacket(ps[x], Used, ~blurred) /\ ps[x].set = SetId
  <2>1. ps[x] = Packet("RecoverySlice", SetId, [exp |-> out.start + k - 1, of |-> Encoded])
    BY <1>11 DEF Laid, RecoverySlice
  <2>2. /\ ps[x].kind = "RecoverySlice"
        /\ ps[x].body = [exp |-> out.start + k - 1, of |-> Encoded]
        /\ ps[x].body.of = Encoded
    BY <2>1 DEF Packet
  <2>3. Shape(ps[x]) /\ ps[x].set = SetId
    BY <1>2, <2>1, <2>2
  <2> QED
    BY <1>1, <1>4, <1>6, <2>2, <2>3 DEF GoodPacket, Honest
<1> QED
  BY <1>1, <1>7, <1>8, <1>9, <1>10, <1>11, LaidIsAll

\* One more packet of the set.
LEMMA AppendedFile ==
  ASSUME NEW used, NEW clear, NEW ps, GoodFile(ps, used, clear),
         NEW p, GoodPacket(p, used, clear),
         \A i \in 1 .. Len(ps) : ps[i].set = p.set
  PROVE  GoodFile(Append(ps, p), used, clear)
<1> DEFINE qs == Append(ps, p)
<1>1. /\ IsSeq(qs) /\ Len(qs) = Len(ps) + 1 /\ Len(ps) \in Nat
      /\ \A i \in 1 .. Len(ps) : qs[i] = ps[i]
      /\ qs[Len(ps) + 1] = p
  BY SeqAppend, SeqFacts DEF GoodFile
<1> HIDE DEF qs
<1>2. \A i \in 1 .. Len(qs) : GoodPacket(qs[i], used, clear) /\ qs[i].set = p.set
  <2> SUFFICES ASSUME NEW i \in 1 .. Len(qs)
               PROVE  GoodPacket(qs[i], used, clear) /\ qs[i].set = p.set
    OBVIOUS
  <2>1. i \in 1 .. Len(ps) \/ i = Len(ps) + 1
    BY <1>1
  <2> QED
    BY <1>1, <2>1 DEF GoodFile
<1> QED
  BY <1>1, <1>2 DEF GoodFile, qs

\* Damage to a packet changes nothing but its state.
LEMMA HarmedPacket ==
  ASSUME NEW used, NEW clear, NEW p, GoodPacket(p, used, clear), NEW h \in {"cut"} \cup Harms
  PROVE  /\ GoodPacket([p EXCEPT !.harm = h], used, clear)
         /\ [p EXCEPT !.harm = h].set = p.set
<1> DEFINE q == [p EXCEPT !.harm = h]
<1>1. p = [kind |-> p.kind, set |-> p.set, body |-> p.body, harm |-> p.harm]
  BY DEF GoodPacket, Shape
<1>2. /\ q.kind = p.kind /\ q.set = p.set /\ q.body = p.body /\ q.harm = h
      /\ q = [kind |-> q.kind, set |-> q.set, body |-> q.body, harm |-> q.harm]
  BY <1>1
<1> HIDE DEF q
<1>3. Shape(q)
  BY <1>2 DEF GoodPacket, Shape, PacketOK
<1>4. Honest(p, used) => Honest(q, used)
  BY <1>2 DEF Honest
<1> QED
  BY <1>2, <1>3, <1>4 DEF GoodPacket, q

\* Damage to a packet of a file.
LEMMA HarmedFile ==
  ASSUME NEW used, NEW clear, NEW ps, GoodFile(ps, used, clear),
         NEW i \in 1 .. Len(ps), NEW h \in Harms
  PROVE  GoodFile([ps EXCEPT ![i].harm = h], used, clear)
<1> DEFINE q == [ps[i] EXCEPT !.harm = h]
           qs == [ps EXCEPT ![i].harm = h]
<1>1. GoodPacket(q, used, clear) /\ q.set = ps[i].set
  BY HarmedPacket DEF GoodFile
<1>2. ps = [j \in 1 .. Len(ps) |-> ps[j]] /\ Len(ps) \in Nat /\ DOMAIN ps = 1 .. Len(ps)
  BY SeqFacts DEF GoodFile
<1>3. /\ qs = [j \in 1 .. Len(ps) |-> qs[j]] /\ qs[i] = q
      /\ \A j \in 1 .. Len(ps) : j # i => qs[j] = ps[j]
  BY <1>2
<1> HIDE DEF q, qs
<1>4. IsSeq(qs) /\ Len(qs) = Len(ps)
  BY <1>2, <1>3, SeqFromFunction
<1> QED
  BY <1>1, <1>3, <1>4 DEF GoodFile, qs

\* The same packets in another order.
LEMMA ReversedFile ==
  ASSUME NEW used, NEW clear, NEW ps, GoodFile(ps, used, clear)
  PROVE  GoodFile(Reverse(ps), used, clear)
<1> DEFINE qs == Reverse(ps)
<1>1. Len(ps) \in Nat
  BY SeqFacts DEF GoodFile
<1>2. qs = [i \in 1 .. Len(ps) |-> ps[(Len(ps) - i) + 1]]
  BY DEF Reverse
<1>3. \A i \in 1 .. Len(ps) :
        qs[i] = ps[(Len(ps) - i) + 1] /\ (Len(ps) - i) + 1 \in 1 .. Len(ps)
  BY <1>1, <1>2
<1>4. qs = [i \in 1 .. Len(ps) |-> qs[i]]
  BY <1>2
<1> HIDE DEF qs
<1>5. IsSeq(qs) /\ Len(qs) = Len(ps)
  BY <1>1, <1>4, SeqFromFunction
<1>6. \A i \in 1 .. Len(qs) : GoodPacket(qs[i], used, clear)
  BY <1>3, <1>5 DEF GoodFile
<1>7. \A i, j \in 1 .. Len(qs) : qs[i].set = qs[j].set
  <2> SUFFICES ASSUME NEW i \in 1 .. Len(qs), NEW j \in 1 .. Len(qs)
               PROVE  qs[i].set = qs[j].set
    OBVIOUS
  <2>1. PICK k \in 1 .. Len(ps) : qs[i] = ps[k]
    BY <1>3, <1>5
  <2>2. PICK l \in 1 .. Len(ps) : qs[j] = ps[l]
    BY <1>3, <1>5
  <2> QED
    BY <2>1, <2>2 DEF GoodFile
<1> QED
  BY <1>5, <1>6, <1>7 DEF GoodFile, qs

\* An empty file.
LEMMA EmptyFile ==
  ASSUME NEW used, NEW clear
  PROVE  GoodFile(<<>>, used, clear)
<1> DEFINE none == <<>>
<1>1. IsSeq(none) /\ Len(none) = 0
  BY ShortSeqs
<1> HIDE DEF none
<1>2. GoodFile(none, used, clear)
  BY <1>1 DEF GoodFile
<1> QED
  BY <1>2 DEF none

-----------------------------------------------------------------------------
(***************************************************************************)
(* What has been written.                                                  *)
(***************************************************************************)

\* The packets of each file to write.
Plans == [k \in 1 .. Len(Outputs) |-> PacketsFor(Outputs[k])]

\* What is there of a file, and a file that is there.
InPart(ps, qs) == IsSeq(ps) /\ Len(ps) =< Len(qs) /\ \A i \in 1 .. Len(ps) : ps[i] = qs[i]
Whole(d, name, qs) == name \in DOMAIN d /\ d[name] = qs

\* The files before the one that is written are whole, that one is there in part; and after a
\* call that succeeded all are whole until somebody meddles with the directory.
WriteInv ==
  /\ writing \in Nat /\ target \in Nat /\ mishaps \in Nat /\ opened \in BOOLEAN
  /\ creating = "write" => writing \in 1 .. Len(Outputs)
  /\ creating = "write" \/ created = "ok" => EndOf(volumes) = wanted
  /\ opened => /\ creating = "write" /\ Outputs[writing].name \in DOMAIN dir
               /\ InPart(dir[Outputs[writing].name], Plans[writing])
  /\ creating = "write" =>
       \A k \in 1 .. writing - 1 : Whole(dir, Outputs[k].name, Plans[k])
  /\ created = "ok" /\ mishaps = 0 =>
       \A k \in 1 .. Len(Outputs) : Whole(dir, Outputs[k].name, Plans[k])

\* What the files and their packets depend on.
LEMMA OutputsSame ==
  ASSUME UNCHANGED <<options, volumes, wanted>>
  PROVE  Outputs' = Outputs
BY DEF Outputs, VolumeName, Width

\* The packets depend on the entries too.
LEMMA PlansSame ==
  ASSUME UNCHANGED <<options, volumes, wanted, meta, size, read>>
  PROVE  Plans' = Plans
<1>1. Outputs' = Outputs
  BY OutputsSame
<1>2. SetId' = SetId /\ Entries' = Entries /\ Encoded' = Encoded
  BY DEF SetId, Entries, Encoded
<1> QED
  BY <1>1, <1>2 DEF Plans, PacketsFor

\* A step that leaves the writing alone keeps the invariant.
LEMMA WriteKept ==
  ASSUME WriteInv,
         UNCHANGED <<planVars, read, splitVars, writing, opened, creating, created, dir>>,
         mishaps' \in {mishaps, mishaps + 1}
  PROVE  WriteInv'
<1>1. /\ UNCHANGED <<options, volumes, wanted, meta, size, read>>
      /\ UNCHANGED <<writing, opened, creating, created, dir, target>>
  BY DEF planVars, splitVars
<1>2. Outputs' = Outputs /\ Plans' = Plans
  BY <1>1, OutputsSame, PlansSame
<1>3. mishaps' \in Nat /\ (mishaps' = 0 => mishaps = 0)
  BY DEF WriteInv
<1>4. EndOf(volumes)' = EndOf(volumes)
  BY <1>1 DEF EndOf
<1> QED
  BY <1>1, <1>2, <1>3, <1>4 DEF WriteInv

\* Before and after the writing there is nothing to say.
LEMMA WriteIdle ==
  ASSUME writing' \in Nat, target' \in Nat, mishaps' \in Nat, opened' = FALSE,
         creating' # "write", created' # "ok"
  PROVE  WriteInv'
BY DEF WriteInv

\* Nothing is open while nothing is written.
LEMMA NotOpened ==
  ASSUME WriteInv, creating # "write"
  PROVE  opened = FALSE
BY DEF WriteInv

\* Nothing is written to begin with.
LEMMA WriteInit == ArchiveInit => WriteInv
<1> SUFFICES ASSUME ArchiveInit PROVE WriteInv
  OBVIOUS
<1>1. /\ writing = 0 /\ target = 1 /\ mishaps = 0 /\ opened = FALSE
      /\ creating = "idle" /\ created = "none"
  BY DEF ArchiveInit, CreatorInit
<1> QED
  BY <1>1 DEF WriteInv

\* The writing begins with the first file.
LEMMA WriteBegins ==
  ASSUME SplitInv, CreateInv, WriteInv, SplitInv',
         creating = "split", creating' = "write", writing' = 1,
         UNCHANGED <<planVars, created, target, opened, mishaps>>
  PROVE  WriteInv'
<1>1. /\ opened' = FALSE /\ created' # "ok"
      /\ wanted' \in Nat /\ target' \in Nat /\ mishaps' \in Nat
  BY NotOpened DEF CreateInv, HashInv, PlanInv, WriteInv, planVars
<1>2. (SplitInv /\ wanted \in Nat => OutputsOK)'
  BY OutputsFacts, PTL
<1>3. Len(Outputs') >= 1 /\ Len(Outputs') \in Nat
  BY <1>1, <1>2, SeqFacts DEF OutputsOK
<1>4. EndOf(volumes)' = wanted'
  BY DEF SplitInv
<1> QED
  BY <1>1, <1>3, <1>4 DEF WriteInv

\* The file that is written, and its packets.
LEMMA OutFacts ==
  ASSUME SplitInv, CreateInv, WriteInv, creating = "write"
  PROVE  /\ OutputsOK /\ writing \in 1 .. Len(Outputs) /\ Out = Outputs[writing]
         /\ Out.count \in Nat /\ Plans[writing] = PacketsFor(Out)
         /\ Laid(PacketsFor(Out), Out) /\ IsSeq(PacketsFor(Out))
         /\ Len(PacketsFor(Out)) \in Nat /\ AllRead
<1>1. OutputsOK
  BY OutputsFacts DEF CreateInv, PlanInv
<1>2. writing \in 1 .. Len(Outputs) /\ Out = Outputs[writing]
  BY DEF WriteInv, Out
<1>3. Out.count \in Nat
  BY <1>1, <1>2 DEF OutputsOK
<1>4. Laid(PacketsFor(Out), Out)
  BY <1>3, PacketsAreLaid DEF CreateInv, PlanInv
<1>5. IsSeq(PacketsFor(Out)) /\ Len(PacketsFor(Out)) \in Nat
  BY <1>4, SeqFacts DEF Laid
<1> QED
  BY <1>1, <1>2, <1>3, <1>4, <1>5 DEF Plans, AllRead

\* A file is cut to nothing.
LEMMA OpenWrites == SplitInv /\ CreateInv /\ WriteInv /\ OpenFile => WriteInv'
<1> SUFFICES ASSUME SplitInv, CreateInv, WriteInv, OpenFile PROVE WriteInv'
  OBVIOUS
<1>1. /\ creating = "write" /\ Put(Out.name, <<>>) /\ opened' = TRUE
      /\ UNCHANGED <<creating, created, writing, target, mishaps, volumes, wanted>>
      /\ UNCHANGED <<options, volumes, wanted, meta, size, read>>
  BY DEF OpenFile, WriteUnchanged, planVars, splitVars
<1>2. Outputs' = Outputs /\ Plans' = Plans
  BY <1>1, OutputsSame, PlansSame
<1>3. EndOf(volumes)' = EndOf(volumes) /\ created # "ok"
  BY <1>1 DEF EndOf, CreateInv, HashInv
<1>4. /\ OutputsOK /\ writing \in 1 .. Len(Outputs) /\ Out = Outputs[writing]
      /\ Plans[writing] = PacketsFor(Out) /\ Len(PacketsFor(Out)) \in Nat
  BY <1>1, OutFacts
<1> DEFINE none == <<>>
<1>5. IsSeq(none) /\ Len(none) = 0
  BY ShortSeqs
<1>6. /\ Outputs[writing].name \in DOMAIN dir' /\ dir'[Outputs[writing].name] = none
      /\ DOMAIN dir \subseteq DOMAIN dir'
      /\ \A n \in DOMAIN dir : n # Outputs[writing].name => dir'[n] = dir[n]
  <2> HIDE DEF none
  <2>1. Put(Outputs[writing].name, none)
    BY <1>1, <1>4 DEF none
  <2> QED
    BY <2>1 DEF Put, With
<1> HIDE DEF none
<1>7. InPart(dir'[Outputs[writing].name], Plans[writing])
  BY <1>4, <1>5, <1>6 DEF InPart
<1>8. \A k \in 1 .. writing - 1 : Whole(dir', Outputs[k].name, Plans[k])
  <2> SUFFICES ASSUME NEW k \in 1 .. writing - 1
               PROVE  Whole(dir', Outputs[k].name, Plans[k])
    OBVIOUS
  <2>1. k \in 1 .. Len(Outputs) /\ k # writing /\ Whole(dir, Outputs[k].name, Plans[k])
    BY <1>1, <1>4 DEF WriteInv
  <2> QED
    BY <1>4, <1>6, <2>1 DEF Whole, OutputsOK
<1>9. WriteInv
  OBVIOUS
<1> QED
  BY <1>1, <1>2, <1>3, <1>4, <1>6, <1>7, <1>8, <1>9 DEF WriteInv

\* One packet more.
LEMMA PacketWrites == SplitInv /\ CreateInv /\ WriteInv /\ WritePacket => WriteInv'
<1> SUFFICES ASSUME SplitInv, CreateInv, WriteInv, WritePacket PROVE WriteInv'
  OBVIOUS
<1>1. /\ creating = "write" /\ opened /\ Len(dir[Out.name]) < Len(PacketsFor(Out))
      /\ Put(Out.name, Append(dir[Out.name], PacketsFor(Out)[Len(dir[Out.name]) + 1]))
      /\ UNCHANGED <<creating, created, writing, opened, target, mishaps, volumes, wanted>>
      /\ UNCHANGED <<options, volumes, wanted, meta, size, read>>
  BY DEF WritePacket, WriteUnchanged, planVars, splitVars, Written, NextPacket
<1>2. Outputs' = Outputs /\ Plans' = Plans
  BY <1>1, OutputsSame, PlansSame
<1>3. EndOf(volumes)' = EndOf(volumes) /\ created # "ok"
  BY <1>1 DEF EndOf, CreateInv, HashInv
<1>4. /\ OutputsOK /\ writing \in 1 .. Len(Outputs) /\ Out = Outputs[writing]
      /\ Plans[writing] = PacketsFor(Out) /\ Len(PacketsFor(Out)) \in Nat
  BY <1>1, OutFacts
<1> DEFINE ps == dir[Out.name]
           qs == PacketsFor(Out)
           more == Append(ps, qs[Len(ps) + 1])
<1>5. Out.name \in DOMAIN dir /\ InPart(ps, qs)
  BY <1>1, <1>4 DEF WriteInv
<1>6. /\ dir'[Out.name] = more /\ DOMAIN dir' = DOMAIN dir
      /\ \A n \in DOMAIN dir : n # Out.name => dir'[n] = dir[n]
  <2>1. Put(Out.name, more)
    BY <1>1
  <2> HIDE DEF more, ps, qs
  <2> QED
    BY <1>5, <2>1 DEF Put, With
<1>7. Len(ps) < Len(qs) /\ Len(qs) \in Nat
  BY <1>1, <1>4
<1> HIDE DEF qs
<1>8. /\ IsSeq(more) /\ Len(more) = Len(ps) + 1 /\ Len(ps) \in Nat
      /\ \A i \in 1 .. Len(ps) : more[i] = ps[i]
      /\ more[Len(ps) + 1] = qs[Len(ps) + 1]
  <2> HIDE DEF ps
  <2>1. IsSeq(ps)
    BY <1>5 DEF InPart
  <2> QED
    BY <2>1, SeqAppend, SeqFacts
<1> HIDE DEF ps, more
<1>9. InPart(more, qs)
  <2>1. \A i \in 1 .. Len(more) : more[i] = qs[i]
    <3> SUFFICES ASSUME NEW i \in 1 .. Len(more) PROVE more[i] = qs[i]
      OBVIOUS
    <3>1. i \in 1 .. Len(ps) \/ i = Len(ps) + 1
      BY <1>8
    <3> QED
      BY <1>5, <1>8, <3>1 DEF InPart
  <2> QED
    BY <1>7, <1>8, <2>1 DEF InPart
<1>10. \A k \in 1 .. writing - 1 : Whole(dir', Outputs[k].name, Plans[k])
  <2> SUFFICES ASSUME NEW k \in 1 .. writing - 1
               PROVE  Whole(dir', Outputs[k].name, Plans[k])
    OBVIOUS
  <2>1. k \in 1 .. Len(Outputs) /\ k # writing /\ Whole(dir, Outputs[k].name, Plans[k])
    BY <1>1, <1>4 DEF WriteInv
  <2>2. Outputs[k].name # Out.name
    BY <1>4, <2>1 DEF OutputsOK
  <2> QED
    BY <1>6, <2>1, <2>2 DEF Whole
<1>11. /\ Outputs[writing].name \in DOMAIN dir'
       /\ InPart(dir'[Outputs[writing].name], Plans[writing])
  BY <1>4, <1>5, <1>6, <1>9 DEF qs
<1>12. WriteInv
  OBVIOUS
<1> QED
  BY <1>1, <1>2, <1>3, <1>4, <1>10, <1>11, <1>12 DEF WriteInv

\* A file is complete; the call returns after the last.
LEMMA CloseWrites == SplitInv /\ CreateInv /\ WriteInv /\ CloseFile => WriteInv'
<1> SUFFICES ASSUME SplitInv, CreateInv, WriteInv, CloseFile PROVE WriteInv'
  OBVIOUS
<1>1. /\ creating = "write" /\ opened /\ Len(dir[Out.name]) = Len(PacketsFor(Out))
      /\ opened' = FALSE /\ writing' = writing + 1
      /\ IF writing = Len(Outputs)
           THEN creating' = "idle" /\ created' = "ok" ELSE UNCHANGED <<creating, created>>
      /\ UNCHANGED <<dir, target, mishaps, volumes, wanted>>
      /\ UNCHANGED <<options, volumes, wanted, meta, size, read>>
  BY DEF CloseFile, WriteUnchanged, planVars, splitVars, Written, Return
<1>2. Outputs' = Outputs /\ Plans' = Plans
  BY <1>1, OutputsSame, PlansSame
<1>3. EndOf(volumes)' = EndOf(volumes) /\ created # "ok"
  BY <1>1 DEF EndOf, CreateInv, HashInv
<1>4. /\ OutputsOK /\ writing \in 1 .. Len(Outputs) /\ Out = Outputs[writing]
      /\ Plans[writing] = PacketsFor(Out) /\ IsSeq(PacketsFor(Out))
  BY <1>1, OutFacts
<1>5. Out.name \in DOMAIN dir /\ InPart(dir[Out.name], PacketsFor(Out))
  BY <1>1, <1>4 DEF WriteInv
<1>6. dir[Out.name] = PacketsFor(Out)
  BY <1>1, <1>4, <1>5, SeqSame DEF InPart
<1>7. Whole(dir, Outputs[writing].name, Plans[writing])
  BY <1>4, <1>5, <1>6 DEF Whole
<1>8. Len(Outputs) \in Nat /\ writing \in Nat
  BY <1>4, SeqFacts DEF OutputsOK
<1>9. \A k \in 1 .. writing : Whole(dir, Outputs[k].name, Plans[k])
  <2> SUFFICES ASSUME NEW k \in 1 .. writing PROVE Whole(dir, Outputs[k].name, Plans[k])
    OBVIOUS
  <2>1. k = writing \/ k \in 1 .. writing - 1
    BY <1>8
  <2> QED
    BY <1>1, <1>7, <2>1 DEF WriteInv
<1>10. /\ target \in Nat /\ mishaps \in Nat /\ EndOf(volumes) = wanted
  BY <1>1 DEF WriteInv
<1>a. /\ writing' \in Nat /\ target' \in Nat /\ mishaps' \in Nat /\ opened' = FALSE
      /\ EndOf(volumes)' = wanted' /\ dir' = dir
  BY <1>1, <1>3, <1>8, <1>10
<1>11. CASE writing = Len(Outputs)
  <2>1. creating' = "idle"
    BY <1>1, <1>11
  <2>2. \A k \in 1 .. Len(Outputs') : Whole(dir', Outputs'[k].name, Plans'[k])
    BY <1>2, <1>9, <1>11, <1>a
  <2> QED
    BY <1>a, <2>1, <2>2 DEF WriteInv
<1>12. CASE writing # Len(Outputs)
  <2>1. writing + 1 \in 1 .. Len(Outputs) /\ (writing + 1) - 1 = writing
    BY <1>4, <1>8, <1>12
  <2>2. writing' \in 1 .. Len(Outputs') /\ writing' - 1 = writing
    BY <1>1, <1>2, <2>1
  <2>3. \A k \in 1 .. writing' - 1 : Whole(dir', Outputs'[k].name, Plans'[k])
    BY <1>2, <1>9, <1>a, <2>2
  <2>4. creating' = creating /\ created' # "ok"
    BY <1>1, <1>3, <1>12
  <2> QED
    BY <1>a, <2>2, <2>3, <2>4 DEF WriteInv
<1> QED
  BY <1>11, <1>12

\* Every step of the archive keeps what is known of the writing.
LEMMA WriteNext == SplitInv /\ CreateInv /\ WriteInv /\ [ArchiveNext]_archiveVars => WriteInv'
<1> SUFFICES ASSUME SplitInv, CreateInv, WriteInv, [ArchiveNext]_archiveVars PROVE WriteInv'
  OBVIOUS
<1>a. writing \in Nat /\ target \in Nat /\ mishaps \in Nat /\ (mishaps + 1) \in Nat
  BY DEF WriteInv
<1>b. created = "ok" => creating = "idle"
  BY DEF CreateInv, HashInv
<1>c. SplitInv'
  BY SplitNext
<1>1. CASE CreatorSteps
  <2>1. CASE Begin
    <3>1. /\ creating' = "hash" /\ created' = "none" /\ writing' = 0 /\ target' = 1
          /\ opened' = FALSE /\ mishaps' = mishaps
      BY <2>1 DEF Begin
    <3> QED
      BY <1>a, <3>1, WriteIdle
  <2>2. CASE \/ Plan \/ ReadBlock \/ Finalize \/ (\E f \in Files : HashFile(f))
    <3>1. /\ UNCHANGED <<writing, target, mishaps, opened>>
          /\ creating \in {"hash", "encode"} /\ creating' # "write"
          /\ created' = created \/ created' = "error"
      BY <2>2 DEF Plan, ReadBlock, Finalize, HashFile, Return, splitVars, planVars
    <3> QED
      BY <1>a, <1>b, <3>1, WriteIdle, NotOpened
  <2>3. CASE PlaceBlock
    <3>1. /\ UNCHANGED <<writing, mishaps, opened, creating, created>> /\ creating = "split"
          /\ target' = target \/ target' = Smaller(2 * target, VolumeCap)
      BY <2>3 DEF PlaceBlock, SplitUnchanged
    <3>2. target' \in Nat
      <4>1. VolumeCap \in Nat /\ 2 * target \in Nat
        BY <1>a, CreatorAssumption
      <4> QED
        BY <1>a, <3>1, <4>1 DEF Smaller
    <3> QED
      BY <1>a, <1>b, <3>1, <3>2, WriteIdle, NotOpened
  <2>4. CASE FinishExponential
    <3>1. /\ UNCHANGED <<planVars, created, target, opened, mishaps>>
          /\ creating = "split" /\ creating' = "write" /\ writing' = 1
      BY <2>4 DEF FinishExponential, SplitUnchanged
    <3> QED
      BY <1>c, <3>1, WriteBegins
  <2>5. CASE FinishSingle
    <3>1. /\ UNCHANGED <<planVars, target, opened, mishaps>> /\ creating = "split"
          /\ \/ creating' = "idle" /\ created' = "panic" /\ writing' = writing
             \/ creating' = "write" /\ created' = created /\ writing' = 1
      BY <2>5 DEF FinishSingle, SplitUnchanged, Return
    <3>2. CASE creating' = "idle" /\ created' = "panic" /\ writing' = writing
      BY <1>a, <3>1, <3>2, WriteIdle, NotOpened
    <3>3. CASE creating' = "write" /\ created' = created /\ writing' = 1
      BY <1>c, <3>1, <3>3, WriteBegins
    <3> QED
      BY <3>1, <3>2, <3>3
  <2>6. CASE OpenFile
    BY <2>6, OpenWrites
  <2>7. CASE WritePacket
    BY <2>7, PacketWrites
  <2>8. CASE CloseFile
    BY <2>8, CloseWrites
  <2> QED
    BY <1>1, <2>1, <2>2, <2>3, <2>4, <2>5, <2>6, <2>7, <2>8 DEF CreatorSteps, CreatorNext
<1>2. CASE Environment
  <2>1. CASE Interrupt
    <3>1. /\ writing' = writing /\ target' = target /\ mishaps' = mishaps + 1 /\ opened' = FALSE
          /\ creating' = "idle" /\ created' = "interrupted"
      BY <2>1 DEF Interrupt, Return, splitVars
    <3> QED
      BY <1>a, <3>1, WriteIdle
  <2>2. CASE \E f \in Files : Edit(f)
    BY <2>2, WriteKept DEF Edit
  <2>3. CASE \E name \in DOMAIN dir :
               Harm(name) \/ Delete(name) \/ Rename(name) \/ Reorder(name)
    <3>1. creating = "idle" /\ UNCHANGED creatorVars /\ mishaps' = mishaps + 1
      BY <2>3 DEF Harm, Delete, Rename, Reorder, Mishap, Undisturbed
    <3>2. /\ mishaps' \in Nat /\ mishaps' # 0 /\ opened' = FALSE
          /\ UNCHANGED <<writing, target, creating, created>>
          /\ UNCHANGED <<options, volumes, wanted, meta, size, read>>
      BY <1>a, <3>1, NotOpened DEF creatorVars, planVars, splitVars
    <3>3. EndOf(volumes)' = EndOf(volumes)
      BY <3>2 DEF EndOf
    <3> QED
      BY <1>a, <3>1, <3>2, <3>3 DEF WriteInv
  <2>4. CASE mishaps' = mishaps + 1 /\ UNCHANGED <<dir, creatorVars>>
    BY <2>4, WriteKept DEF creatorVars
  <2> QED
    BY <1>2, <2>1, <2>2, <2>3, <2>4 DEF Environment
<1>3. CASE UNCHANGED <<dir, mishaps, creatorVars>>
  BY <1>3, WriteKept DEF creatorVars
<1> QED
  BY <1>1, <1>2, <1>3 DEF ArchiveNext, LoaderSteps, Settled, archiveVars

-----------------------------------------------------------------------------
(***************************************************************************)
(* Every packet of the directory is good.                                  *)
(***************************************************************************)

\* The next packet of a file that is open is of the set of those before it.
LEMMA NextIsGood ==
  ASSUME SplitInv, CreateInv, WriteInv, DirInv, opened, Written < Len(PacketsFor(Out))
  PROVE  /\ GoodPacket(NextPacket, Used, ~blurred) /\ Out.name \in DOMAIN dir
         /\ GoodFile(dir[Out.name], Used, ~blurred)
         /\ \A i \in 1 .. Len(dir[Out.name]) : dir[Out.name][i].set = NextPacket.set
<1> DEFINE ps == dir[Out.name]
           qs == PacketsFor(Out)
<1>1. creating = "write"
  BY DEF WriteInv
<1>2. /\ Out = Outputs[writing] /\ Plans[writing] = qs /\ Laid(qs, Out) /\ Len(qs) \in Nat
      /\ AllRead /\ Out.count \in Nat
  BY <1>1, OutFacts
<1>3. Out.name \in DOMAIN dir /\ InPart(ps, qs)
  BY <1>2 DEF WriteInv
<1>4. GoodFile(ps, Used, ~blurred)
  BY <1>3 DEF DirInv
<1>5. NextPacket = qs[Len(ps) + 1] /\ Len(ps) < Len(qs)
  BY DEF NextPacket, Written
<1> HIDE DEF qs
<1>6. \A x \in 1 .. Len(qs) : GoodPacket(qs[x], Used, ~blurred) /\ qs[x].set = SetId
  BY <1>2, NewPackets
<1>7. Len(ps) \in Nat /\ Len(ps) + 1 \in 1 .. Len(qs)
  BY <1>2, <1>3, <1>5, SeqFacts DEF InPart
<1>8. \A i \in 1 .. Len(ps) : ps[i].set = SetId
  BY <1>2, <1>3, <1>6, <1>7 DEF InPart
<1> QED
  BY <1>3, <1>4, <1>5, <1>6, <1>7, <1>8

\* A good file is put into the directory.
LEMMA PutIsGood ==
  ASSUME DirInv, NEW name, NEW ps, Put(name, ps), GoodFile(ps, Used, ~blurred),
         UNCHANGED <<source, blurred>>
  PROVE  DirInv'
<1>1. Used' = Used /\ (~blurred)' = ~blurred
  BY DEF Used
<1>2. \A n \in DOMAIN dir' : dir'[n] = ps \/ (n \in DOMAIN dir /\ dir'[n] = dir[n])
  BY DEF Put, With
<1>3. \A n \in DOMAIN dir' : GoodFile(dir'[n], Used, ~blurred)
  BY <1>2 DEF DirInv
<1> QED
  BY <1>1, <1>3 DEF DirInv

\* Files of the directory stay, perhaps under other names.
LEMMA DirKept ==
  ASSUME DirInv, UNCHANGED <<source, blurred>>,
         \A n \in DOMAIN dir' : \E m \in DOMAIN dir : dir'[n] = dir[m]
  PROVE  DirInv'
<1>1. Used' = Used /\ (~blurred)' = ~blurred
  BY DEF Used
<1>2. \A n \in DOMAIN dir' : GoodFile(dir'[n], Used, ~blurred)
  BY DEF DirInv
<1> QED
  BY <1>1, <1>2 DEF DirInv

\* An input file is replaced: what it held is not forgotten, and if the history stays clear
\* the new content has an id of its own.
LEMMA EditIsGood ==
  ASSUME CreateInv, DirInv, NEW f \in Files, Edit(f)
  PROVE  DirInv'
<1>1. PICK c \in Edits[f] : source' = [source EXCEPT ![f] = c]
  BY DEF Edit
<1>2. source[f] = Originals[f] /\ dir' = dir /\ (~blurred' => ~blurred)
  BY DEF Edit
<1>3. \A g \in Files : g # f => source'[g] = source[g]
  BY <1>1 DEF CreateInv, HashInv
<1>4. Used \subseteq Used'
  BY <1>2, <1>3 DEF Used
<1>5. ASSUME NEW p, GoodPacket(p, Used, ~blurred) PROVE GoodPacket(p, Used', ~blurred')
  <2>1. ASSUME Honest(p, Used) PROVE Honest(p, Used')
    <3>1. ASSUME NEW cs, OfSet(cs, p.set, Used) PROVE OfSet(cs, p.set, Used')
      BY <1>4, <3>1 DEF OfSet
    <3> QED
      BY <2>1, <3>1 DEF Honest
  <2> QED
    BY <1>2, <1>5, <2>1 DEF GoodPacket
<1>6. \A n \in DOMAIN dir' : GoodFile(dir'[n], Used', ~blurred')
  <2> SUFFICES ASSUME NEW n \in DOMAIN dir PROVE GoodFile(dir[n], Used', ~blurred')
    BY <1>2
  <2> DEFINE ps == dir[n]
  <2>1. GoodFile(ps, Used, ~blurred)
    BY DEF DirInv
  <2> HIDE DEF ps
  <2>2. GoodFile(ps, Used', ~blurred')
    BY <1>5, <2>1 DEF GoodFile
  <2> QED
    BY <2>2 DEF ps
<1> QED
  BY <1>6 DEF DirInv

\* Every step of the archive keeps the files good.
LEMMA DirNext ==
  SplitInv /\ CreateInv /\ WriteInv /\ DirInv /\ [ArchiveNext]_archiveVars => DirInv'
<1> SUFFICES ASSUME SplitInv, CreateInv, WriteInv, DirInv, [ArchiveNext]_archiveVars
             PROVE  DirInv'
  OBVIOUS
<1>1. CASE UNCHANGED <<dir, source, blurred>>
  BY <1>1, DirKept
<1>2. CASE OpenFile
  <2> DEFINE none == <<>>
  <2>1. Put(Out.name, none) /\ UNCHANGED <<source, blurred>>
    BY <1>2 DEF OpenFile, WriteUnchanged
  <2>2. GoodFile(none, Used, ~blurred)
    BY EmptyFile
  <2> HIDE DEF none
  <2> QED
    BY <2>1, <2>2, PutIsGood
<1>3. CASE WritePacket
  <2> DEFINE ps == Append(dir[Out.name], NextPacket)
  <2>1. /\ opened /\ Written < Len(PacketsFor(Out)) /\ Put(Out.name, ps)
        /\ UNCHANGED <<source, blurred>>
    BY <1>3 DEF WritePacket, WriteUnchanged
  <2>2. GoodFile(ps, Used, ~blurred)
    BY <2>1, NextIsGood, AppendedFile
  <2> HIDE DEF ps
  <2> QED
    BY <2>1, <2>2, PutIsGood
<1>4. CASE Interrupt
  <2> DEFINE p == [NextPacket EXCEPT !.harm = "cut"]
             ps == Append(dir[Out.name], p)
  <2>1. /\ UNCHANGED <<source, blurred>>
        /\ \/ UNCHANGED dir
           \/ opened /\ Written < Len(PacketsFor(Out)) /\ Put(Out.name, ps)
    BY <1>4 DEF Interrupt
  <2>2. CASE opened /\ Written < Len(PacketsFor(Out)) /\ Put(Out.name, ps)
    <3>1. /\ GoodPacket(NextPacket, Used, ~blurred)
          /\ GoodFile(dir[Out.name], Used, ~blurred)
          /\ \A i \in 1 .. Len(dir[Out.name]) : dir[Out.name][i].set = NextPacket.set
      BY <2>2, NextIsGood
    <3>2. GoodPacket(p, Used, ~blurred) /\ p.set = NextPacket.set
      BY <3>1, HarmedPacket
    <3> HIDE DEF p
    <3>3. GoodFile(ps, Used, ~blurred)
      BY <3>1, <3>2, AppendedFile
    <3> HIDE DEF ps
    <3> QED
      BY <2>1, <2>2, <3>3, PutIsGood
  <2> QED
    BY <1>1, <2>1, <2>2
<1>5. CASE \E f \in Files : Edit(f)
  BY <1>5, EditIsGood
<1>6. ASSUME NEW name \in DOMAIN dir, Harm(name) PROVE DirInv'
  <2>1. UNCHANGED <<source, blurred>>
    BY <1>6 DEF Harm, Mishap, creatorVars
  <2>2. PICK i \in 1 .. Len(dir[name]), h \in Harms :
          Put(name, [dir[name] EXCEPT ![i].harm = h])
    BY <1>6 DEF Harm
  <2> DEFINE ps == [dir[name] EXCEPT ![i].harm = h]
  <2>3. GoodFile(ps, Used, ~blurred)
    BY HarmedFile DEF DirInv
  <2> HIDE DEF ps
  <2>4. Put(name, ps)
    BY <2>2 DEF ps
  <2> QED
    BY <2>1, <2>3, <2>4, PutIsGood
<1>7. ASSUME NEW name \in DOMAIN dir, Delete(name) PROVE DirInv'
  <2>1. UNCHANGED <<source, blurred>> /\ dir' = Without(name)
    BY <1>7 DEF Delete, Mishap, creatorVars
  <2> QED
    BY <2>1, DirKept DEF Without
<1>8. ASSUME NEW name \in DOMAIN dir, Rename(name) PROVE DirInv'
  <2>1. /\ UNCHANGED <<source, blurred>>
        /\ dir' = [n \in (DOMAIN dir \ {name}) \cup {Obfuscated} |->
                     IF n = Obfuscated THEN dir[name] ELSE dir[n]]
    BY <1>8 DEF Rename, Mishap, creatorVars
  <2>2. \A n \in DOMAIN dir' : \E m \in DOMAIN dir : dir'[n] = dir[m]
    BY <2>1
  <2> QED
    BY <2>1, <2>2, DirKept
<1>9. ASSUME NEW name \in DOMAIN dir, Reorder(name) PROVE DirInv'
  <2> DEFINE ps == Reverse(dir[name])
  <2>1. UNCHANGED <<source, blurred>> /\ Put(name, ps)
    BY <1>9 DEF Reorder, Mishap, creatorVars
  <2>2. GoodFile(ps, Used, ~blurred)
    BY ReversedFile DEF DirInv
  <2> HIDE DEF ps
  <2> QED
    BY <2>1, <2>2, PutIsGood
<1>10. CASE CreatorSteps
  <2>1. OpenFile \/ WritePacket \/ UNCHANGED <<dir, source, blurred>>
    BY <1>10 DEF CreatorSteps, CreatorNext, Begin, Plan, ReadBlock, Finalize, PlaceBlock,
                 FinishExponential, FinishSingle, CloseFile, HashFile, SplitUnchanged,
                 WriteUnchanged
  <2> QED
    BY <1>1, <1>2, <1>3, <2>1
<1>11. CASE Environment
  <2>1. \/ Interrupt \/ (\E f \in Files : Edit(f))
        \/ \E name \in DOMAIN dir : Harm(name) \/ Delete(name) \/ Rename(name) \/ Reorder(name)
        \/ UNCHANGED <<dir, creatorVars>>
    BY <1>11 DEF Environment
  <2> QED
    BY <1>1, <1>4, <1>5, <1>6, <1>7, <1>8, <1>9, <2>1 DEF creatorVars
<1>12. CASE UNCHANGED <<dir, creatorVars>>
  BY <1>1, <1>12 DEF creatorVars
<1> QED
  BY <1>10, <1>11, <1>12 DEF ArchiveNext, LoaderSteps, Settled, archiveVars

\* What a creation leaves, whatever happens to it.
ArchiveInv == SplitInv /\ CreateInv /\ WriteInv /\ DirInv

LEMMA ArchiveInvHolds == ArchiveSpec => []ArchiveInv
<1>1. ArchiveInit => ArchiveInv
  <2>1. ArchiveInit => DirInv
    BY DEF ArchiveInit, DirInv
  <2> QED
    BY <2>1, SplitInit, CreateInit, WriteInit DEF ArchiveInv
<1>2. ArchiveInv /\ [ArchiveNext]_archiveVars => ArchiveInv'
  BY SplitNext, CreateNext, WriteNext, DirNext DEF ArchiveInv
<1> QED
  BY <1>1, <1>2, PTL DEF ArchiveSpec
=============================================================================
