--------------------------- MODULE Repair_proofs ---------------------------
(***************************************************************************)
(* Theorems about Repair, for every set of files, numbering of blocks,     *)
(* number of threads, set of recovery packets and number of I/O failures.  *)
(***************************************************************************)
EXTENDS Repair, FiniteSetTheorems, TLAPS

-----------------------------------------------------------------------------
(***************************************************************************)
(* The ranges handed to the repair threads are disjoint and give every     *)
(* chunk to exactly one of them, for every number of chunks and threads.   *)
(* This is what the unsafe impl Sync of ResultsWrapper rests on: a worker  *)
(* writes only the cells of its own range.                                 *)
(***************************************************************************)

\* a div b, rounded up: enough groups of that size, and none of them empty.
LEMMA DivCeilBounds ==
  ASSUME NEW a \in Nat \ {0}, NEW b \in Nat \ {0}
  PROVE  /\ DivCeil(a, b) \in Nat \ {0}
         /\ a <= b * DivCeil(a, b)
<1> DEFINE q == (a + b - 1) \div b
<1>1. /\ q \in Int
      /\ b * q <= a + b - 1
      /\ a + b - 1 < b * q + b
  BY SMTT(30)
<1>2. q >= 1
  <2> SUFFICES ASSUME q <= 0 PROVE FALSE
    BY <1>1
  <2>1. b * q <= 0
    BY <1>1
  <2> QED
    BY <1>1, <2>1
<1>3. a <= b * q
  BY <1>1
<1> QED
  BY <1>1, <1>2, <1>3 DEF DivCeil

LEMMA RangeFacts ==
  /\ ChunksPerThread \in Nat \ {0}
  /\ NumChunks <= NumThreads * ChunksPerThread
  /\ \A t \in Threads : RangeStart(t) \in Nat /\ RangeEnd(t) \in Nat
BY DivCeilBounds, RangeAssumption DEF ChunksPerThread, Threads, RangeStart, RangeEnd

\* No chunk belongs to two threads: no two workers ever write the same result cell.
THEOREM RangesDisjoint ==
  \A t, u \in Threads, c \in Chunks :
    /\ RangeStart(t) <= c /\ c < RangeEnd(t)
    /\ RangeStart(u) <= c /\ c < RangeEnd(u)
    => t = u
<1> DEFINE K == ChunksPerThread
<1> SUFFICES ASSUME NEW t \in Threads, NEW u \in Threads, NEW c \in Chunks,
                    t * K <= c, c < t * K + K, u * K <= c, c < u * K + K
             PROVE  t = u
  BY RangeAssumption, RangeFacts DEF RangeStart, RangeEnd, Chunks, Threads
<1> HIDE DEF K
<1>1. K \in Nat \ {0} /\ t \in Nat /\ u \in Nat /\ c \in Nat
  BY RangeFacts, RangeAssumption DEF K, Threads, Chunks
<1>2. ASSUME NEW x \in Nat, NEW y \in Nat, x < y, y * K <= c, c < x * K + K
      PROVE  FALSE
  <2>1. y >= x + 1
    BY <1>2
  <2>2. y * K >= (x + 1) * K
    BY <1>1, <2>1
  <2>3. (x + 1) * K = x * K + K
    BY <1>1
  <2> QED
    BY <1>1, <1>2, <2>2, <2>3
<1>3. ~(t < u) /\ ~(u < t)
  BY <1>1, <1>2
<1> QED
  BY <1>1, <1>3

\* Every chunk belongs to a thread that the loop spawns: no result cell stays empty.
THEOREM RangesCover ==
  \A c \in Chunks : \E t \in Spawned : RangeStart(t) <= c /\ c < RangeEnd(t)
<1> DEFINE K == ChunksPerThread
<1> SUFFICES ASSUME NEW c \in Chunks
             PROVE  \E t \in Spawned : RangeStart(t) <= c /\ c < RangeEnd(t)
  OBVIOUS
<1>1. /\ K \in Nat \ {0} /\ NumThreads \in Nat \ {0} /\ NumChunks \in Nat \ {0}
      /\ NumChunks <= NumThreads * K
      /\ c \in Nat /\ c < NumChunks
  BY RangeFacts, RangeAssumption DEF Chunks
<1> DEFINE t == c \div K
<1> HIDE DEF K
<1>2. t \in Int /\ K * t <= c /\ c < K * t + K
  BY <1>1, SMTT(30)
<1> HIDE DEF t
<1>3. t >= 0
  <2> SUFFICES ASSUME t <= -1 PROVE FALSE
    BY <1>2
  <2>1. K * t <= K * (-1)
    BY <1>1, <1>2
  <2> QED
    BY <1>1, <1>2, <2>1
<1>4. t < NumThreads
  <2> SUFFICES ASSUME t >= NumThreads PROVE FALSE
    BY <1>1, <1>2
  <2>1. K * t >= K * NumThreads
    BY <1>1, <1>2
  <2>2. K * NumThreads = NumThreads * K
    BY <1>1
  <2> QED
    BY <1>1, <1>2, <2>1, <2>2
<1>5. t * K = K * t
  BY <1>1, <1>2
<1>6. t \in Threads /\ RangeStart(t) <= c /\ c < RangeEnd(t)
  BY <1>1, <1>2, <1>3, <1>4, <1>5 DEF Threads, RangeStart, RangeEnd, K
<1>7. t \in Spawned
  BY <1>1, <1>2, <1>6, RangeFacts DEF Spawned, RangeStart
<1> QED
  BY <1>6, <1>7

-----------------------------------------------------------------------------
(* The chunks of a block.                                                  *)

LEMMA DoubleIsEven == \A x \in Nat : (2 * x) % 2 = 0
OBVIOUS

LEMMA RawChunkSizeIsInt ==
  ASSUME NEW block \in Nat, NEW cpus \in Nat \ {0}, NEW ideal \in Nat \ {0}
  PROVE  RawChunkSize(block, cpus, ideal) \in Int
<1> DEFINE perThread == block \div cpus
           parts == cpus * Larger(perThread \div ideal, 1)
<1>1. perThread \in Int /\ block \div (4 * cpus) \in Int
  BY SMTT(30)
<1>2. perThread \div ideal \in Int
  BY <1>1
<1>3. Larger(perThread \div ideal, 1) \in Nat \ {0}
  BY <1>2 DEF Larger
<1>4. parts \in Nat \ {0}
  BY <1>3
<1>5. block \div parts \in Int
  BY <1>4
<1> QED
  BY <1>1, <1>5 DEF RawChunkSize, Larger

\* Whatever the thread count, the vector unit and the environment variable, the chunk
\* size is an even number of bytes, at least one symbol, and no more than the block.
THEOREM ChunkSizeFits ==
  ASSUME NEW block \in Nat, block >= 2,
         NEW cpus \in Nat \ {0}, NEW ideal \in Nat \ {0}, NEW minimum \in Nat
  PROVE  LET size == ChunkSize(block, cpus, ideal, minimum)
         IN  size \in Nat /\ size % 2 = 0 /\ 2 <= size /\ size <= block
<1> DEFINE wanted  == Larger(RawChunkSize(block, cpus, ideal), minimum)
           clamped == Smaller(Larger(wanted, Smaller(4096, block)), block)
           half    == clamped \div 2
<1>1. wanted \in Int
  BY RawChunkSizeIsInt DEF Larger
<1> HIDE DEF wanted
<1>2. clamped \in Nat /\ clamped >= 2 /\ clamped <= block
  BY <1>1 DEF Larger, Smaller
<1> HIDE DEF clamped
<1>3. half \in Nat /\ 2 * half <= clamped /\ half >= 1
  BY <1>2
<1> HIDE DEF half
<1>4. Larger(2 * half, 2) = 2 * half
  BY <1>3 DEF Larger
<1>5. (2 * half) % 2 = 0
  BY <1>3, DoubleIsEven
<1> QED
  BY <1>2, <1>3, <1>4, <1>5 DEF ChunkSize, wanted, clamped, half

\* Chunks of an even size tile a block of an even size: each one starts inside the
\* block, is a positive and even number of bytes (no symbol is cut in two), starts where
\* the one before it ends, and the last ends with the block.
THEOREM ChunksTile ==
  ASSUME NEW block \in Nat \ {0}, block % 2 = 0,
         NEW size \in Nat \ {0}, size % 2 = 0,
         NEW i \in 0 .. DivCeil(block, size) - 1
  PROVE  LET offset == ChunkOffset(size, i)  this == ThisChunkSize(block, size, i)
         IN  /\ offset < block
             /\ this > 0 /\ this % 2 = 0
             /\ i = DivCeil(block, size) - 1 => offset + this = block
             /\ i < DivCeil(block, size) - 1 => offset + this = ChunkOffset(size, i + 1)
<1> DEFINE n == DivCeil(block, size)
<1>1. /\ n \in Nat \ {0} /\ i \in Nat /\ i <= n - 1
      /\ block <= size * n /\ size * n < block + size
  <2>1. n \in Nat \ {0} /\ block <= size * n
    BY DivCeilBounds
  <2>2. size * n <= block + size - 1
    BY SMTT(30) DEF DivCeil
  <2> QED
    BY <2>1, <2>2
<1> HIDE DEF n
<1>2. i * size \in Nat /\ (i + 1) * size = i * size + size
  BY <1>1
<1>3. (i + 1) * size <= size * n
  <2>1. (i + 1) * size <= n * size
    BY <1>1
  <2> QED
    BY <1>1, <2>1
<1>4. i * size < block
  BY <1>1, <1>2, <1>3
<1>5. (i * size) % 2 = 0
  <2>1. PICK h \in Nat : size = 2 * h
    <3>1. size = 2 * (size \div 2) /\ size \div 2 \in Nat
      OBVIOUS
    <3> QED
      BY <3>1
  <2>2. i * size = 2 * (i * h) /\ i * h \in Nat
    BY <1>1, <2>1
  <2>3. (2 * (i * h)) % 2 = 0
    BY <2>2, DoubleIsEven
  <2> QED
    BY <2>2, <2>3
<1>6. (block - i * size) % 2 = 0
  BY <1>2, <1>4, <1>5
<1>7. ASSUME i < n - 1
      PROVE  (i + 1) * size < block
  <2>1. (i + 2) * size <= n * size
    BY <1>1, <1>7
  <2>2. (i + 2) * size = (i + 1) * size + size /\ n * size = size * n
    BY <1>1
  <2> QED
    BY <1>1, <1>2, <2>1, <2>2
<1>8. ASSUME i = n - 1
      PROVE  block <= i * size + size
  BY <1>1, <1>2, <1>8
<1> QED
  BY <1>1, <1>2, <1>4, <1>6, <1>7, <1>8 DEF ChunkOffset, ThisChunkSize, Smaller, n

-----------------------------------------------------------------------------
(* Lemmas about the data.                                                  *)

LEMMA ConstantContents == Absent \in Contents /\ Intact \in Contents
BY DEF Absent, Intact, Contents, Lengths

LEMMA CellsTyped == \A f \in Files : Cells(f) \subseteq Nat \X Chunks
BY DataAssumption DEF Cells, Blocks

LEMMA ShapesTyped == \A f \in Files : DamageShapes(f) \subseteq Contents
<1> SUFFICES ASSUME NEW f \in Files, NEW k \in DamageShapes(f) PROVE k \in Contents
  OBVIOUS
<1>1. CASE k = Absent
  BY <1>1, ConstantContents
<1>2. CASE \E l \in {"exact", "short", "long"}, B \in SUBSET Blocks(f) :
             k = [len |-> l, bad |-> B \X Chunks]
  <2>1. PICK l \in {"exact", "short", "long"}, B \in SUBSET Blocks(f) :
               k = [len |-> l, bad |-> B \X Chunks]
    BY <1>2
  <2>2. B \X Chunks \subseteq Nat \X Chunks
    <3>1. B \subseteq Nat
      BY DataAssumption DEF Blocks
    <3> QED
      BY <3>1
  <2> QED
    BY <2>1, <2>2 DEF Contents, Lengths
<1> QED
  BY <1>1, <1>2, DataAssumption DEF DamageShapes

LEMMA DisksTyped == Disks \subseteq [Files -> Contents]
BY ShapesTyped DEF Disks

LEMMA VerdictTyped ==
  ASSUME NEW seen \in [Files -> Contents], NEW at,
         at \in [Files -> {"own", "extra", "gone"}]
  PROVE  VerdictOf(seen, at) \in Verdicts
<1>1. \A f \in Files : BadBlocks(seen[f]) \subseteq Nat
  BY DEF BadBlocks, Contents
<1> QED
  BY <1>1 DEF VerdictOf, Verdicts, Paths

\* What the call derives from the verification result changes only with it.
LEMMA SameVerdict ==
  ASSUME vr' = vr
  PROVE  Targets' = Targets /\ Lost' = Lost /\ Good' = Good
BY DEF Targets, Lost, Good, AllBlocks, FileBlocks

LEMMA TargetsAreFiles == TypeOK => Targets \subseteq Files
BY DEF TypeOK, Verdicts, Targets

-----------------------------------------------------------------------------
(* Type correctness.                                                       *)

\* An error return keeps the types, whatever temps it found.
LEMMA AbortTyped ==
  ASSUME TypeOK, NEW o \in Outcomes, NEW tmp \in [Files -> Contents],
         NEW made \in SUBSET Files, NEW n \in Nat,
         Abort(o, tmp, made, n), unsized' \subseteq Files
  PROVE  TypeOK'
<1>1. PICK keep \in SUBSET {f \in made : tmp[f] # Absent} :
             /\ failures' = failures + n + Cardinality(keep)
             /\ failures' <= FailureBound
             /\ temp' = [f \in Files |-> IF f \in made \ keep THEN Absent ELSE tmp[f]]
             /\ stuck' = keep
  BY DEF Abort
<1>2. temp' \in [Files -> Contents]
  BY <1>1, ConstantContents
<1>3. failures' \in Nat
  <2>1. IsFiniteSet(keep)
    BY RepairAssumption, FS_Subset
  <2>2. Cardinality(keep) \in Nat
    BY <2>1, FS_CardinalityType
  <2> QED
    BY <1>1, <2>2 DEF TypeOK
<1>4. stuck' \subseteq Files
  BY <1>1
<1> QED
  BY <1>2, <1>3, <1>4, SameVerdict
  DEF TypeOK, Abort, Return, Phases, callVars, setupVars, computeVars, commitVars

LEMMA InitTyped == Init => TypeOK
<1> SUFFICES ASSUME Init PROVE TypeOK
  OBVIOUS
<1>1. vr \in Verdicts /\ disk \in [Files -> Contents]
  BY DisksTyped, VerdictTyped DEF Init, Consistent
<1>2. \A t \in Threads : RangeStart(t) \in Nat
  BY RangeFacts
<1>3. temp \in [Files -> Contents] /\ disk0 \in [Files -> Contents]
  BY <1>1, ConstantContents DEF Init
<1>4. cell \in [Chunks -> [st : {"none", "ok", "err"}, wrong : SUBSET Lost]]
  BY DEF Init
<1>5. cursor \in 0 .. NumChunks
  BY RangeAssumption DEF Init
<1> QED
  BY <1>1, <1>2, <1>3, <1>4, <1>5, RepairAssumption DEF Init, TypeOK, Phases, Outcomes

\* The contents that setup and the write loop give a temp.
LEMMA TempContents ==
  ASSUME TypeOK, NEW f \in Files
  PROVE  /\ Zeroed(f) \in Contents
         /\ Truncated(f) \in Contents
         /\ [len |-> "exact", bad |-> disk[f].bad] \in Contents
         /\ \A c \in Chunks : [len |-> temp[f].len, bad |-> Written(f, c)] \in Contents
<1>1. Cells(f) \subseteq Nat \X Chunks
  BY CellsTyped
<1>2. disk[f].bad \subseteq Nat \X Chunks /\ temp[f].bad \subseteq Nat \X Chunks
  BY DEF TypeOK, Contents
<1>3. ASSUME NEW c \in Chunks PROVE Written(f, c) \subseteq Nat \X Chunks
  <2>1. Blocks(f) \subseteq Nat
    BY DataAssumption DEF Blocks
  <2>2. SUFFICES ASSUME NEW p \in Written(f, c) PROVE p \in Nat \X Chunks
    OBVIOUS
  <2>3. CASE p \in temp[f].bad
    BY <1>2, <2>3
  <2>4. CASE \E b \in Blocks(f) : p = <<b, c>>
    BY <2>1, <2>4
  <2> QED
    BY <2>2, <2>3, <2>4 DEF Written
<1>4. temp[f] \in Contents
  BY DEF TypeOK
<1> QED
  BY <1>1, <1>2, <1>3, <1>4 DEF Zeroed, Truncated, Contents, Lengths

LEMMA StepTyped == TypeOK /\ [Next]_vars => TypeOK'
<1> SUFFICES ASSUME TypeOK, [Next]_vars PROVE TypeOK'
  OBVIOUS
<1> USE DEF Return, NoFailure, callVars, setupVars, computeVars, commitVars, historyVars,
            Phases, Outcomes
<1>0. /\ temp \in [Files -> Contents] /\ ready \subseteq Files
      /\ ready \ renamed \subseteq Files /\ failures \in Nat
  BY TargetsAreFiles DEF TypeOK
<1>1. CASE RejectSet \/ NothingLost \/ Insufficient
  BY <1>1, SameVerdict DEF TypeOK, RejectSet, NothingLost, Insufficient
<1>2. CASE SelectRecovery
  BY <1>2, SameVerdict DEF TypeOK, SelectRecovery, LowestExponents
<1>3. ASSUME NEW f \in Files, SetUpMissing(f) PROVE TypeOK'
  BY <1>3, SameVerdict, TempContents DEF TypeOK, SetUpMissing, NextTarget
<1>4. ASSUME NEW f \in Files, SetUpDamaged(f) PROVE TypeOK'
  BY <1>4, SameVerdict, TempContents DEF TypeOK, SetUpDamaged, NextTarget
<1>5. ASSUME NEW f \in Files, SetUpGone(f) PROVE TypeOK'
  BY <1>0, <1>5, AbortTyped DEF TypeOK, SetUpGone
<1>6. ASSUME NEW f \in Files, SetUpFails(f) PROVE TypeOK'
  <2>1. /\ [temp EXCEPT ![f] = Truncated(f)] \in [Files -> Contents]
        /\ [temp EXCEPT ![f] = Zeroed(f)] \in [Files -> Contents]
        /\ ready \cup {f} \subseteq Files
    BY <1>0, TempContents
  <2> QED
    BY <1>0, <1>6, <2>1, AbortTyped DEF TypeOK, SetUpFails
<1>7. CASE SetUpCancelled \/ Unsolvable \/ JoinCancelled \/ WriteNoResult \/ WriteFails
           \/ WriteCancelled
  BY <1>0, <1>7, AbortTyped DEF TypeOK, SetUpCancelled, Unsolvable, JoinCancelled,
     WriteNoResult, WriteFails, WriteCancelled
<1>8. CASE OpenInputs
  <2>1. PICK fail \in SUBSET {f \in Files \ Targets : Readable(f)} :
               /\ failures' = failures + Cardinality(fail)
               /\ inputs' = inputs \cup ({f \in Files \ Targets : Readable(f)} \ fail)
    BY <1>8 DEF OpenInputs
  <2>2. IsFiniteSet(fail)
    BY RepairAssumption, FS_Subset
  <2>3. failures' \in Nat
    BY <1>0, <2>1, <2>2, FS_CardinalityType
  <2> QED
    BY <1>8, <2>1, <2>3, SameVerdict DEF TypeOK, OpenInputs
<1>9. CASE PrepareTransform \/ JoinWorkers \/ FinishWrite \/ OpenGate
  BY <1>9, SameVerdict DEF TypeOK, PrepareTransform, JoinWorkers, FinishWrite, OpenGate
<1>10. ASSUME NEW t \in Threads, WorkerStops(t) PROVE TypeOK'
  <2>1. RangeEnd(t) \in Nat
    BY RangeFacts
  <2> QED
    BY <1>10, <2>1, SameVerdict DEF TypeOK, WorkerStops, Working
<1>11. ASSUME NEW t \in Threads, WorkerChunk(t) PROVE TypeOK'
  BY <1>11, SameVerdict DEF TypeOK, WorkerChunk, StoreCell
<1>12. ASSUME NEW t \in Threads, WorkerReadFails(t) PROVE TypeOK'
  <2>1. cell' \in [Chunks -> [st : {"none", "ok", "err"}, wrong : SUBSET Lost]]
    <3>1. [st |-> "err", wrong |-> {}] \in [st : {"none", "ok", "err"}, wrong : SUBSET Lost]
      OBVIOUS
    <3> QED
      BY <1>12, <3>1 DEF TypeOK, WorkerReadFails, StoreCell
  <2>2. nextChunk' \in [Threads -> Nat]
    BY <1>12 DEF TypeOK, WorkerReadFails, StoreCell
  <2>3. failures' \in Nat
    BY <1>0, <1>12 DEF WorkerReadFails
  <2> QED
    BY <1>12, <2>1, <2>2, <2>3, SameVerdict DEF TypeOK, WorkerReadFails, StoreCell
<1>13. CASE WriteChunk
  <2>1. cursor \in Chunks /\ cursor + 1 \in 0 .. NumChunks
    BY <1>13, RangeAssumption DEF TypeOK, WriteChunk, Chunks
  <2>2. temp' \in [Files -> Contents]
    BY <1>0, <1>13, <2>1, TempContents DEF WriteChunk
  <2> QED
    BY <1>13, <2>1, <2>2, SameVerdict DEF TypeOK, WriteChunk
<1>14. ASSUME NEW f \in Files,
              GateCancelled(f) \/ GateRefuses(f) \/ GateFails(f) \/ RenameFails(f)
       PROVE  TypeOK'
  BY <1>0, <1>14, AbortTyped DEF TypeOK, GateCancelled, GateRefuses, GateFails, RenameFails
<1>15. ASSUME NEW f \in Files, GateAccepts(f) PROVE TypeOK'
  BY <1>15, SameVerdict DEF TypeOK, GateAccepts
<1>16. ASSUME NEW f \in Files, Rename(f) PROVE TypeOK'
  BY <1>16, SameVerdict, ConstantContents DEF TypeOK, Rename
<1>17. CASE Finish \/ RequestCancel \/ Crash
  BY <1>17, SameVerdict DEF TypeOK, Finish, RequestCancel, Crash
<1>18. CASE UNCHANGED vars
  BY <1>18, SameVerdict DEF TypeOK, vars
<1> QED
  BY <1>1, <1>2, <1>3, <1>4, <1>5, <1>6, <1>7, <1>8, <1>9, <1>10, <1>11, <1>12, <1>13,
     <1>14, <1>15, <1>16, <1>17, <1>18 DEF Next, Step, Returned

\* Every variable of the repair call keeps its type.
THEOREM TypeCorrect == Spec => []TypeOK
BY InitTyped, StepTyped, PTL DEF Spec

-----------------------------------------------------------------------------
(* Safety: what happens to the originals and to the temps.                 *)

\* An error return keeps CommitInv if its clean-up list covers the temps there are, a
\* temp whose set_len failed excepted, and no file has been replaced if it reports a
\* cancellation.
LEMMA AbortKeepsInv ==
  ASSUME TypeOK, CommitInv, pc # "done",
         NEW o \in Outcomes \ {"running", "ok"}, NEW tmp \in [Files -> Contents],
         NEW made \in SUBSET Files, NEW n, Abort(o, tmp, made, n),
         o = "cancelled" => renamed = {},
         \A f \in renamed : tmp[f] = Absent,
         \A f \in Files : tmp[f] # Absent => f \in made \cup unsized'
  PROVE  CommitInv'
<1>1. PICK keep \in SUBSET {f \in made : tmp[f] # Absent} :
             /\ temp' = [f \in Files |-> IF f \in made \ keep THEN Absent ELSE tmp[f]]
             /\ stuck' = keep
  BY DEF Abort
<1>2. /\ Targets' = Targets /\ Lost' = Lost /\ pc' = "done" /\ outcome' = o
      /\ renamed' = renamed /\ disk' = disk /\ disk0' = disk0
  BY SameVerdict DEF Abort, Return, callVars, commitVars
<1>3. \A f \in renamed : temp'[f] = Absent
  BY <1>1, TargetsAreFiles DEF CommitInv
<1>4. \A f \in Files : temp'[f] # Absent => f \in stuck' \cup unsized'
  BY <1>1
<1> QED
  BY <1>2, <1>3, <1>4 DEF CommitInv, Outcomes

LEMMA InitInv == Init => CommitInv
BY DEF Init, CommitInv

LEMMA StepInv == TypeOK /\ CommitInv /\ [Next]_vars => CommitInv'
<1> SUFFICES ASSUME TypeOK, CommitInv, [Next]_vars PROVE CommitInv'
  OBVIOUS
<1> USE DEF Return, NoFailure, callVars, setupVars, computeVars, commitVars, historyVars
<1>0. /\ temp \in [Files -> Contents] /\ ready \subseteq Files
      /\ ready \ renamed \subseteq Files /\ renamed \subseteq Files
  BY TargetsAreFiles DEF TypeOK, CommitInv
<1>1. ASSUME pc # "done", renamed = {}, UNCHANGED unsized,
             NEW o \in {"cancelled", "failed", "io"}, NEW n \in {0, 1},
             Abort(o, temp, ready, n)
      PROVE  CommitInv'
  <2>1. \A f \in Files : temp[f] # Absent => f \in ready \cup unsized'
    BY <1>1 DEF CommitInv
  <2>2. o \in Outcomes \ {"running", "ok"}
    BY DEF Outcomes
  <2> QED
    BY <1>0, <1>1, <2>1, <2>2, AbortKeepsInv
<1>2. CASE RejectSet \/ Insufficient \/ NothingLost
  BY <1>2, SameVerdict DEF CommitInv, TypeOK, RejectSet, Insufficient, NothingLost
<1>3. CASE SelectRecovery
  BY <1>3, SameVerdict DEF CommitInv, SelectRecovery
<1>4. ASSUME NEW f \in Files, SetUpMissing(f) \/ SetUpDamaged(f) PROVE CommitInv'
  <2>1. pc = "setup" /\ pc' = pc /\ renamed = {} /\ ready' = ready \cup {f}
    BY <1>4 DEF CommitInv, SetUpMissing, SetUpDamaged, NextTarget
  <2>2. \A g \in Files : temp'[g] # Absent => g \in ready'
    BY <1>0, <1>4, <2>1 DEF CommitInv, SetUpMissing, SetUpDamaged
  <2> QED
    BY <1>4, <2>1, <2>2, SameVerdict DEF CommitInv, SetUpMissing, SetUpDamaged
<1>5. ASSUME NEW f \in Files, SetUpGone(f) PROVE CommitInv'
  BY <1>1, <1>5 DEF CommitInv, SetUpGone, NextTarget
<1>6. ASSUME NEW f \in Files, SetUpFails(f) PROVE CommitInv'
  <2>1. pc # "done" /\ renamed = {}
        /\ \A g \in Files : temp[g] # Absent => g \in ready
    BY <1>6 DEF CommitInv, SetUpFails, NextTarget
  <2>2. CASE Abort("io", temp, ready, 1) /\ UNCHANGED unsized
    BY <1>1, <2>1, <2>2
  <2>3. CASE Abort("io", [temp EXCEPT ![f] = Truncated(f)], ready, 1) /\ unsized' = {f}
    <3> DEFINE tmp == [temp EXCEPT ![f] = Truncated(f)]
    <3>1. tmp \in [Files -> Contents]
      BY <1>0, TempContents
    <3>2. \A g \in Files : tmp[g] # Absent => g \in ready \cup unsized'
      BY <1>0, <2>1, <2>3
    <3> QED
      BY <1>0, <2>1, <2>3, <3>1, <3>2, AbortKeepsInv DEF Outcomes
  <2>4. CASE Abort("io", [temp EXCEPT ![f] = Zeroed(f)], ready \cup {f}, 1)
             /\ UNCHANGED unsized
    <3> DEFINE tmp == [temp EXCEPT ![f] = Zeroed(f)]
    <3>1. tmp \in [Files -> Contents]
      BY <1>0, TempContents
    <3>2. \A g \in Files : tmp[g] # Absent => g \in (ready \cup {f}) \cup unsized'
      BY <1>0, <2>1, <2>4
    <3> QED
      BY <1>0, <2>1, <2>4, <3>1, <3>2, AbortKeepsInv DEF Outcomes
  <2> QED
    BY <1>6, <2>2, <2>3, <2>4 DEF SetUpFails
<1>7. CASE SetUpCancelled \/ Unsolvable \/ JoinCancelled \/ WriteNoResult \/ WriteFails
           \/ WriteCancelled
  BY <1>1, <1>7 DEF CommitInv, SetUpCancelled, Unsolvable, JoinCancelled, WriteNoResult,
     WriteFails, WriteCancelled
<1>8. CASE OpenInputs \/ PrepareTransform \/ JoinWorkers
  BY <1>8, SameVerdict DEF CommitInv, OpenInputs, PrepareTransform, JoinWorkers
<1>9. ASSUME NEW t \in Threads, WorkerStops(t) \/ WorkerChunk(t) \/ WorkerReadFails(t)
      PROVE  CommitInv'
  BY <1>9, SameVerdict
  DEF CommitInv, WorkerStops, WorkerChunk, WorkerReadFails, StoreCell, Working
<1>10. CASE WriteChunk
  <2>1. pc = "write" /\ pc' = pc /\ renamed = {} /\ ready = Targets
    BY <1>10 DEF CommitInv, WriteChunk
  <2>2. \A f \in Files : temp'[f] # Absent => f \in ready
    BY <1>10 DEF CommitInv, WriteChunk
  <2> QED
    BY <1>10, <2>1, <2>2, SameVerdict DEF CommitInv, WriteChunk
<1>11. CASE FinishWrite
  <2>1. pc = "write" /\ pc' = "gate" /\ renamed = {}
    BY <1>11 DEF CommitInv, FinishWrite
  <2>2. checked = {}
    BY <1>11 DEF CommitInv, FinishWrite
  <2> QED
    BY <1>11, <2>1, <2>2, SameVerdict DEF CommitInv, FinishWrite
<1>12. ASSUME NEW f \in Files, GateCancelled(f) \/ GateRefuses(f) \/ GateFails(f)
       PROVE  CommitInv'
  BY <1>1, <1>12 DEF CommitInv, GateCancelled, GateRefuses, GateFails, AtGate
<1>13. ASSUME NEW f \in Files, GateAccepts(f) PROVE CommitInv'
  BY <1>13, SameVerdict DEF CommitInv, GateAccepts, AtGate
<1>14. CASE OpenGate
  BY <1>14, SameVerdict DEF CommitInv, OpenGate
<1>15. ASSUME NEW f \in Files, Rename(f) PROVE CommitInv'
  <2>1. /\ pc = "commit" /\ ready = Targets /\ f \in Targets \ renamed
        /\ temp[f] = Intact /\ renamed' = renamed \cup {f} /\ outcome = "running"
    BY <1>15 DEF CommitInv, Rename
  <2>2. /\ disk' = [disk EXCEPT ![f] = Intact]
        /\ temp' = [temp EXCEPT ![f] = Absent]
    BY <1>15, <2>1 DEF Rename
  <2>3. \A g \in renamed' : disk'[g] = Intact /\ temp'[g] = Absent
    BY <1>0, <2>1, <2>2 DEF CommitInv, TypeOK
  <2>4. \A g \in Files \ renamed' : disk'[g] = disk0[g]
    BY <2>1, <2>2 DEF CommitInv, TypeOK
  <2>5. \A g \in Targets \ renamed' : temp'[g] = Intact
    BY <2>1, <2>2, TargetsAreFiles DEF CommitInv, TypeOK
  <2> QED
    BY <1>0, <1>15, <2>1, <2>2, <2>3, <2>4, <2>5, SameVerdict DEF CommitInv, Rename, TypeOK
<1>16. ASSUME NEW f \in Files, RenameFails(f) PROVE CommitInv'
  <2>1. \A g \in Files : temp[g] # Absent => g \in (ready \ renamed) \cup unsized'
    BY <1>16 DEF CommitInv, RenameFails
  <2>2. \A g \in renamed : temp[g] = Absent
    BY DEF CommitInv
  <2> QED
    BY <1>0, <1>16, <2>1, <2>2, AbortKeepsInv DEF RenameFails, Outcomes
<1>17. CASE Finish
  BY <1>17, SameVerdict DEF CommitInv, Finish
<1>18. CASE RequestCancel \/ Crash
  BY <1>18, SameVerdict DEF CommitInv, RequestCancel, Crash
<1>19. CASE UNCHANGED vars
  BY <1>19, SameVerdict DEF CommitInv, vars
<1> QED
  BY <1>2, <1>3, <1>4, <1>5, <1>6, <1>7, <1>8, <1>9, <1>10, <1>11, <1>12, <1>13, <1>14,
     <1>15, <1>16, <1>17, <1>18, <1>19 DEF Next, Step, Returned

\* CommitInv is an invariant of the repair call.
THEOREM CommitInvariant == Spec => []CommitInv
BY InitTyped, StepTyped, InitInv, StepInv, PTL DEF Spec

\* Whatever fails, whoever cancels or kills the process, and whatever bytes the files
\* and the recovery packets hold: an original is what it was or is intact.
THEOREM OriginalsSafe == Spec => []OldOrIntact
<1>1. CommitInv => OldOrIntact
  BY DEF CommitInv, OldOrIntact
<1> QED
  BY <1>1, CommitInvariant, PTL

\* A call that returns Cancelled has changed no original.
THEOREM CancelSafe == Spec => []CancelledUntouched
<1>1. TypeOK /\ CommitInv => CancelledUntouched
  BY DEF CommitInv, CancelledUntouched, TypeOK
<1> QED
  BY <1>1, CommitInvariant, TypeCorrect, PTL

\* A call that returns Ok with something to rebuild has made every target whole and
\* left no temp.
THEOREM SuccessIsWhole == Spec => []OkMeansRepaired
<1>1. CommitInv => OkMeansRepaired
  BY DEF CommitInv, OkMeansRepaired
<1> QED
  BY <1>1, CommitInvariant, PTL

\* No original is replaced before the replacement of every target is known to be right.
THEOREM VerifyAllThenReplace == Spec => AllVerifiedBeforeAny
<1>1. TypeOK /\ CommitInv /\ [Next]_vars =>
        [disk' # disk => \A f \in Targets : temp[f] = Intact \/ disk[f] = Intact]_vars
  <2> SUFFICES ASSUME TypeOK, CommitInv, [Next]_vars, disk' # disk, NEW f \in Targets
               PROVE  temp[f] = Intact \/ disk[f] = Intact
    OBVIOUS
  <2>1. CASE \E g \in Files : Rename(g)
    BY <2>1 DEF Rename, CommitInv
  <2>2. CASE UNCHANGED vars
    BY <2>2 DEF vars
  <2>3. CASE \A g \in Files : ~Rename(g)
    BY <2>2, <2>3
    DEF Next, Step, Returned, RejectSet, NothingLost, Insufficient, SelectRecovery,
        SetUpMissing, SetUpDamaged, SetUpGone, SetUpFails, SetUpCancelled, OpenInputs,
        Unsolvable, PrepareTransform, WorkerStops, WorkerChunk, WorkerReadFails, StoreCell,
        JoinCancelled, JoinWorkers, WriteChunk, WriteNoResult, WriteFails, WriteCancelled,
        FinishWrite, GateCancelled, GateAccepts, GateRefuses, GateFails, OpenGate,
        RenameFails, Finish, RequestCancel, Crash, Abort
  <2> QED
    BY <2>1, <2>2, <2>3
<1> QED
  BY <1>1, CommitInvariant, TypeCorrect, PTL DEF Spec, AllVerifiedBeforeAny

-----------------------------------------------------------------------------
(* The workers leave no cell empty.                                        *)

LEMMA InitWork == Init => WorkInv
<1> SUFFICES ASSUME Init, NEW t \in Threads, NEW c \in Chunks,
                    RangeStart(t) <= c, c < nextChunk[t]
             PROVE  FALSE
  BY DEF Init, WorkInv, EveryChunkProcessed
<1>1. nextChunk[t] = RangeStart(t) /\ RangeStart(t) \in Nat /\ c \in Nat
  BY RangeFacts, RangeAssumption DEF Init, Chunks
<1> QED
  BY <1>1

LEMMA StoreWork ==
  ASSUME TypeOK, WorkInv, NEW t \in Threads, Working(t), NEW result, StoreCell(t, result),
         result.st # "none"
  PROVE  WorkInv'
<1>1. /\ pc = "compute" /\ pc' = pc /\ observed' = observed
      /\ nextChunk' = [nextChunk EXCEPT ![t] = nextChunk[t] + 1]
      /\ cell' = [cell EXCEPT ![nextChunk[t]] = result]
  BY DEF Working, StoreCell
<1>2. ASSUME ~observed, NEW u \in Threads, NEW c \in Chunks,
             RangeStart(u) <= c, c < nextChunk'[u]
      PROVE  cell'[c].st # "none"
  <2>1. CASE c = nextChunk[t]
    BY <1>1, <2>1 DEF TypeOK
  <2>2. CASE c # nextChunk[t]
    <3>1. c < nextChunk[u]
      BY <1>1, <1>2, <2>2, RangeAssumption DEF TypeOK, Chunks
    <3>2. cell[c].st # "none"
      BY <1>2, <3>1 DEF WorkInv
    <3> QED
      BY <1>1, <2>2, <3>2 DEF TypeOK
  <2> QED
    BY <2>1, <2>2
<1> QED
  BY <1>1, <1>2 DEF WorkInv, EveryChunkProcessed

LEMMA StepWork == TypeOK /\ WorkInv /\ [Next]_vars => WorkInv'
<1> SUFFICES ASSUME TypeOK, WorkInv, [Next]_vars PROVE WorkInv'
  OBVIOUS
<1> USE DEF WorkInv, EveryChunkProcessed, computeVars
<1>1. CASE \E t \in Threads : WorkerStops(t)
  BY <1>1 DEF WorkerStops, Working
<1>2. ASSUME NEW t \in Threads, WorkerChunk(t) PROVE WorkInv'
  <2>1. PICK W : StoreCell(t, [st |-> "ok", wrong |-> W])
                 \/ StoreCell(t, [st |-> "err", wrong |-> {}])
    BY <1>2 DEF WorkerChunk
  <2> QED
    BY <1>2, <2>1, StoreWork DEF WorkerChunk
<1>3. ASSUME NEW t \in Threads, WorkerReadFails(t) PROVE WorkInv'
  BY <1>3, StoreWork DEF WorkerReadFails
<1>4. CASE JoinWorkers
  <2>1. ASSUME NEW c \in Chunks PROVE cell[c].st # "none"
    <3>1. PICK t \in Spawned : RangeStart(t) <= c /\ c < RangeEnd(t)
      BY RangesCover
    <3>2. t \in Threads /\ nextChunk[t] >= RangeEnd(t) /\ nextChunk[t] \in Nat
          /\ RangeEnd(t) \in Nat /\ c \in Nat
      BY <1>4, <3>1, RangeFacts, RangeAssumption
      DEF JoinWorkers, AllJoined, Spawned, TypeOK, Chunks
    <3>3. c < nextChunk[t]
      BY <3>1, <3>2
    <3> QED
      BY <1>4, <3>1, <3>2, <3>3 DEF JoinWorkers
  <2> QED
    BY <1>4, <2>1 DEF JoinWorkers
<1>5. CASE WriteChunk
  BY <1>5 DEF WriteChunk
<1>6. CASE UNCHANGED vars
  BY <1>6 DEF vars
<1>7. CASE /\ \A t \in Threads : ~WorkerStops(t) /\ ~WorkerChunk(t) /\ ~WorkerReadFails(t)
           /\ ~JoinWorkers /\ ~WriteChunk /\ ~UNCHANGED vars
  <2>1. UNCHANGED computeVars /\ (pc' = "write" => pc = "write")
    BY <1>7
    DEF Next, Step, Returned, RejectSet, NothingLost, Insufficient, SelectRecovery,
        SetUpMissing, SetUpDamaged, SetUpGone, SetUpFails, SetUpCancelled, OpenInputs,
        Unsolvable, PrepareTransform, JoinCancelled, WriteNoResult, WriteFails,
        WriteCancelled, FinishWrite, GateCancelled, GateAccepts, GateRefuses, GateFails,
        OpenGate, Rename, RenameFails, Finish, RequestCancel, Crash, Abort, Return
  <2> QED
    BY <2>1
<1> QED
  BY <1>1, <1>2, <1>3, <1>4, <1>5, <1>6, <1>7

\* When the write loop runs every cell has been filled, for every number of chunks and
\* of threads.
THEOREM NoChunkSkipped == Spec => []EveryChunkProcessed
<1>1. Spec => []WorkInv
  BY InitTyped, StepTyped, InitWork, StepWork, PTL DEF Spec
<1>2. WorkInv => EveryChunkProcessed
  BY DEF WorkInv
<1> QED
  BY <1>1, <1>2, PTL

-----------------------------------------------------------------------------
(* Refinement.                                                             *)

LEMMA ContractInit == Init => Contract!Init
<1> SUFFICES ASSUME Init PROVE Contract!Init
  OBVIOUS
<1>1. TypeOK
  BY InitTyped
<1> QED
  BY <1>1, TargetsAreFiles DEF Contract!Init, Init, TypeOK

LEMMA ContractStep ==
  TypeOK /\ CommitInv /\ TypeOK' /\ CommitInv' /\ [Next]_vars => [Contract!Next]_(Contract!vars)
<1> SUFFICES ASSUME TypeOK, CommitInv, [Next]_vars
             PROVE  Contract!Next \/ UNCHANGED Contract!vars
  OBVIOUS
<1> DEFINE todo == IF Lost = {} THEN {} ELSE Targets
           result(o) == IF o \in {"running", "ok", "cancelled"} THEN o ELSE "broken"
<1> USE DEF Return, callVars, setupVars, computeVars, commitVars
<1>1. ASSUME pc # "done", vr' = vr, disk' = disk, renamed' = renamed,
             outcome' \in {"invalid", "insufficient", "failed", "io", "crashed"}
      PROVE  Contract!Break
  BY <1>1, SameVerdict DEF Contract!Break, CommitInv
<1>2. ASSUME pc # "done", vr' = vr, disk' = disk, renamed' = renamed, renamed = {},
             outcome' = "cancelled"
      PROVE  Contract!GiveUp
  BY <1>2, SameVerdict DEF Contract!GiveUp, CommitInv
<1>3. ASSUME vr' = vr, disk' = disk, renamed' = renamed, outcome' = outcome
      PROVE  UNCHANGED Contract!vars
  BY <1>3, SameVerdict DEF Contract!vars
<1>4. CASE NothingLost
  BY <1>4, SameVerdict DEF NothingLost, Contract!Next, Contract!Succeed, CommitInv
<1>5. CASE Finish
  BY <1>5, SameVerdict DEF Finish, Contract!Next, Contract!Succeed, CommitInv
<1>6. ASSUME NEW f \in Files, Rename(f) PROVE Contract!Next
  <2>1. /\ Lost # {} /\ f \in Targets \ renamed /\ temp[f] = Intact /\ outcome = "running"
    BY <1>6 DEF Rename, CommitInv
  <2> QED
    BY <1>6, <2>1, SameVerdict DEF Rename, Contract!Next, Contract!Replace
<1>7. CASE RejectSet \/ Insufficient \/ Crash
  BY <1>1, <1>7 DEF RejectSet, Insufficient, Crash, Contract!Next
<1>8. ASSUME NEW o, NEW tmp, NEW made, NEW n, Abort(o, tmp, made, n), pc # "done",
             o \in {"failed", "io"} \/ (o = "cancelled" /\ renamed = {})
      PROVE  Contract!Next
  BY <1>1, <1>2, <1>8 DEF Abort, Contract!Next
<1>9. CASE \/ \E f \in Files : \/ SetUpGone(f) \/ SetUpFails(f) \/ GateRefuses(f)
                               \/ GateFails(f) \/ RenameFails(f) \/ GateCancelled(f)
           \/ SetUpCancelled \/ Unsolvable \/ JoinCancelled \/ WriteNoResult \/ WriteFails
           \/ WriteCancelled
  BY <1>8, <1>9
  DEF CommitInv, SetUpGone, SetUpFails, NextTarget, GateRefuses, GateFails, RenameFails,
      GateCancelled, AtGate, SetUpCancelled, Unsolvable, JoinCancelled, WriteNoResult,
      WriteFails, WriteCancelled
<1>10. CASE \/ \E f \in Files : SetUpMissing(f) \/ SetUpDamaged(f) \/ GateAccepts(f)
            \/ \E t \in Threads : WorkerStops(t) \/ WorkerChunk(t) \/ WorkerReadFails(t)
            \/ SelectRecovery \/ OpenInputs \/ PrepareTransform \/ JoinWorkers \/ WriteChunk
            \/ FinishWrite \/ OpenGate \/ RequestCancel \/ UNCHANGED vars
  BY <1>3, <1>10
  DEF SetUpMissing, SetUpDamaged, GateAccepts, WorkerStops, WorkerChunk, WorkerReadFails,
      StoreCell, SelectRecovery, OpenInputs, PrepareTransform, JoinWorkers, WriteChunk,
      FinishWrite, OpenGate, RequestCancel, vars
<1> QED
  BY <1>4, <1>5, <1>6, <1>7, <1>9, <1>10 DEF Next, Step, Returned

\* The repair call implements its contract: whole files, all verified before any is
\* replaced, nothing replaced when it reports a cancellation.
THEOREM RepairImplementsContract == Spec => ImplementsContract
BY InitTyped, StepTyped, InitInv, StepInv, ContractInit, ContractStep, PTL
DEF Spec, ImplementsContract, Contract!Spec
-----------------------------------------------------------------------------
(***************************************************************************)
(* A failed repair has a cause.                                            *)
(***************************************************************************)

\* None of the causes FailureHasCause names.
NoCause ==
  /\ failures = 0
  /\ UpToDate
  /\ used \subseteq Authentic
  /\ AlwaysSolvable(used)
  /\ \A b \in Good : vr.path[b[1]] # "gone"

\* The temp of f has its final size, and what is not right of it is a lost block's and
\* lies in a chunk from n on.
Rebuilt(f, n) ==
  /\ temp[f].len = "exact"
  /\ \A x \in temp[f].bad :
       x[1] \in Blocks(f) /\ <<f, x[1]>> \in Lost /\ x[2] \in Chunks /\ n <= x[2]

\* What a call establishes, phase by phase, when none of the causes applies: every good
\* block has a handle to read it from, the chunks computed are right, and the write loop
\* leaves nothing wrong behind it.
RebuildInv ==
  /\ outcome # "failed"
  /\ \A c \in Chunks : cell[c].st # "err" /\ cell[c].wrong = {}
  /\ pc = "setup" => ready \cap vr.damaged \subseteq inputs
  /\ pc \in {"prepare", "compute"} => \A b \in Good : b[1] \in inputs
  /\ pc \in {"setup", "prepare", "compute", "write"} => \A f \in ready : Rebuilt(f, cursor)
  /\ pc = "gate" => \A f \in ready : temp[f] = Intact

\* Where the call is and what it started from.
StartInv ==
  /\ disk0 \in Disks
  /\ pc = "start" => used = {}
  /\ pc \in {"start", "setup"} => cursor = 0

CauseInv == StartInv /\ (NoCause => RebuildInv)

\* An error return never takes a failure back.
LEMMA AbortFails ==
  ASSUME TypeOK, NEW o, NEW tmp, NEW made \in SUBSET Files, NEW n \in Nat,
         Abort(o, tmp, made, n), failures' = 0
  PROVE  failures = 0 /\ n = 0
<1>1. PICK keep \in SUBSET made : failures' = failures + n + Cardinality(keep)
  BY DEF Abort
<1>2. Cardinality(keep) \in Nat
  BY RepairAssumption, FS_Subset, FS_CardinalityType
<1> QED
  BY <1>1, <1>2 DEF TypeOK

\* A path is absent or has whole blocks of other bytes.
LEMMA WholeBlocksAreBad ==
  ASSUME NEW f \in Files, NEW k \in DamageShapes(f), NEW x \in k.bad
  PROVE  x[1] \in Blocks(f) /\ x[2] \in Chunks
<1>1. k # Absent
  BY DEF Absent
<1>2. \E l \in {"exact", "short", "long"}, B \in SUBSET Blocks(f) :
        k = [len |-> l, bad |-> B \X Chunks]
  BY <1>1, DataAssumption DEF DamageShapes
<1>3. PICK B \in SUBSET Blocks(f) : k.bad = B \X Chunks
  BY <1>2
<1> QED
  BY <1>3

\* A verified damaged file is damaged within its lost blocks only.
LEMMA DamageIsLost ==
  ASSUME TypeOK, disk0 \in Disks, UpToDate, NEW f \in vr.damaged, NEW x \in disk0[f].bad
  PROVE  x[1] \in Blocks(f) /\ <<f, x[1]>> \in Lost /\ x[2] \in Chunks
<1>1. f \in Files
  BY DEF TypeOK, Verdicts
<1>2. disk0[f] \in DamageShapes(f)
  BY <1>1 DEF Disks
<1>3. x[1] \in Blocks(f) /\ x[2] \in Chunks
  BY <1>1, <1>2, WholeBlocksAreBad
<1>4. f \in vr.mapped => x[1] \in vr.badBlocks[f]
  <2>1. vr.badBlocks = [g \in Files |-> IF g \in vr.mapped THEN BadBlocks(disk0[g]) ELSE {}]
    BY DEF UpToDate, VerdictOf
  <2>2. x[1] \in BadBlocks(disk0[f])
    BY DEF BadBlocks
  <2> QED
    BY <1>1, <2>1, <2>2
<1>5. x[1] \in IF f \in vr.mapped THEN vr.badBlocks[f] ELSE Blocks(f)
  BY <1>3, <1>4
<1> QED
  BY <1>3, <1>5 DEF Lost

\* No file is in both lists.
LEMMA MissingNotDamaged == UpToDate => vr.missing \cap vr.damaged = {}
BY DEF UpToDate, VerdictOf

\* A good block's file is damaged, or it is intact and can be opened.
LEMMA GoodIsReadable ==
  ASSUME TypeOK, UpToDate, disk = disk0, NEW b \in Good, vr.path[b[1]] # "gone"
  PROVE  /\ b[1] \in Files
         /\ \/ b[1] \in vr.damaged /\ SourceOf(b[1]) = disk0[b[1]]
            \/ b[1] \notin Targets /\ Readable(b[1]) /\ SourceOf(b[1]) = Intact
<1> DEFINE at == [g \in Files |-> IF vr.path[g] = "none" THEN "own" ELSE vr.path[g]]
           good == {g \in Files : disk0[g] = Intact \/ at[g] = "extra"}
           f == b[1]
<1>1. PICK h \in Files : b \in {h} \X Blocks(h)
  BY DEF Good, AllBlocks, FileBlocks
<1>2. f \in Files /\ b \in {f} \X Blocks(f)
  BY <1>1
<1>3. f \notin vr.missing
  <2> SUFFICES ASSUME f \in vr.missing PROVE b \in Lost
    BY DEF Good
  <2> QED
    BY <1>2 DEF Lost, FileBlocks
<1>4. /\ vr.path = [g \in Files |-> IF g \in good THEN at[g] ELSE "none"]
      /\ vr.missing = {g \in Files \ good : disk0[g].len = "none"}
      /\ vr.damaged = Files \ (good \cup vr.missing)
  BY DEF UpToDate, VerdictOf
<1>5. vr.path[f] \in Paths
  BY <1>2 DEF TypeOK, Verdicts
<1>6. CASE f \in good
  <2>1. f \notin Targets
    BY <1>4, <1>6 DEF Targets
  <2>2. vr.path[f] = at[f] /\ vr.path[f] \in {"own", "extra"}
    <3>1. vr.path[f] = at[f]
      BY <1>2, <1>4, <1>6
    <3> QED
      BY <1>2, <1>5, <3>1 DEF Paths
  <2>3. SourceOf(f) = Intact
    BY <1>2, <1>6, <2>2 DEF SourceOf
  <2> QED
    BY <1>2, <2>1, <2>2, <2>3 DEF Readable, Intact
<1>7. CASE f \notin good
  <2>1. f \in vr.damaged /\ vr.path[f] = "none"
    BY <1>2, <1>3, <1>4, <1>7
  <2> QED
    BY <1>2, <2>1 DEF SourceOf
<1> QED
  BY <1>6, <1>7

\* Given none of the causes, every chunk is computed from right bytes.
LEMMA InputIsRight ==
  ASSUME TypeOK, disk0 \in Disks, disk = disk0, NoCause, NEW c
  PROVE  RightInput(c)
<1> SUFFICES ASSUME NEW b \in Good, <<b[2], c>> \in SourceOf(b[1]).bad PROVE FALSE
  BY DEF RightInput, RowsStay, NoCause
<1>1. b[1] \in vr.damaged /\ SourceOf(b[1]) = disk0[b[1]]
  BY GoodIsReadable DEF NoCause, Intact
<1>2. <<b[1], b[2]>> \in Lost
  BY <1>1, DamageIsLost DEF NoCause
<1>3. b = <<b[1], b[2]>>
  BY DEF Good, AllBlocks, FileBlocks
<1> QED
  BY <1>2, <1>3 DEF Good

\* Before the commit the originals are as they were.
LEMMA NothingReplacedYet ==
  TypeOK /\ CommitInv /\ pc \notin {"commit", "done"} => disk = disk0
BY DEF TypeOK, CommitInv

\* A cause that applies keeps applying: nothing but the choice of recovery blocks, which
\* comes first, adds to what the call depends on.
LEMMA CausesStay ==
  ASSUME TypeOK, StartInv, [Next]_vars, NoCause'
  PROVE  NoCause /\ vr' = vr /\ disk0' = disk0
<1> USE DEF callVars, setupVars, computeVars, commitVars, historyVars, NoFailure
<1>1. vr' = vr /\ disk0' = disk0
  BY DEF Next, Step, RejectSet, NothingLost, Insufficient, SelectRecovery, SetUpMissing,
         SetUpDamaged, SetUpGone, SetUpFails, SetUpCancelled, OpenInputs, Unsolvable,
         PrepareTransform, WorkerStops, WorkerChunk, WorkerReadFails, StoreCell,
         JoinCancelled, JoinWorkers, WriteChunk, WriteNoResult, WriteFails, WriteCancelled,
         FinishWrite, GateCancelled, GateAccepts, GateRefuses, GateFails, OpenGate, Rename,
         RenameFails, Finish, RequestCancel, Crash, Returned, Abort, vars
<1>2. used' = used \/ used = {}
  BY DEF StartInv, Next, Step, RejectSet, NothingLost, Insufficient, SelectRecovery,
         SetUpMissing, SetUpDamaged, SetUpGone, SetUpFails, SetUpCancelled, OpenInputs,
         Unsolvable, PrepareTransform, WorkerStops, WorkerChunk, WorkerReadFails, StoreCell,
         JoinCancelled, JoinWorkers, WriteChunk, WriteNoResult, WriteFails, WriteCancelled,
         FinishWrite, GateCancelled, GateAccepts, GateRefuses, GateFails, OpenGate, Rename,
         RenameFails, Finish, RequestCancel, Crash, Returned, Abort, vars
<1>3. failures = 0
  <2>1. failures \in Nat /\ failures' = 0 /\ ready \in SUBSET Files
        /\ ready \ renamed \in SUBSET Files
    BY TargetsAreFiles DEF TypeOK, NoCause
  <2>2. CASE OpenInputs
    <3>1. PICK fail \in SUBSET {f \in Files \ Targets : Readable(f)} :
                 failures' = failures + Cardinality(fail)
      BY <2>2 DEF OpenInputs
    <3>2. Cardinality(fail) \in Nat
      BY RepairAssumption, FS_Subset, FS_CardinalityType
    <3> QED
      BY <2>1, <3>1, <3>2
  <2>3. CASE SetUpCancelled \/ Unsolvable \/ JoinCancelled \/ WriteNoResult \/ WriteFails
             \/ WriteCancelled
    BY <2>1, <2>3, AbortFails DEF SetUpCancelled, Unsolvable, JoinCancelled,
       WriteNoResult, WriteFails, WriteCancelled
  <2>4. ASSUME NEW f \in Files,
               \/ SetUpGone(f) \/ GateCancelled(f) \/ GateRefuses(f) \/ GateFails(f)
               \/ RenameFails(f)
        PROVE  failures = 0
    BY <2>1, <2>4, AbortFails
    DEF SetUpGone, GateCancelled, GateRefuses, GateFails, RenameFails
  <2>5. ASSUME NEW f \in Files, SetUpFails(f) PROVE failures = 0
    <3>1. ready \cup {f} \in SUBSET Files
      BY <2>1
    <3> QED
      BY <2>1, <2>5, <3>1, AbortFails DEF SetUpFails
  <2>6. ASSUME NEW t \in Threads, WorkerReadFails(t) PROVE failures = 0
    BY <2>1, <2>6 DEF WorkerReadFails
  <2>7. CASE failures' = failures
    BY <2>1, <2>7
  <2>8. CASE \/ RejectSet \/ NothingLost \/ Insufficient \/ SelectRecovery
             \/ \E f \in Files : \/ SetUpMissing(f) \/ SetUpDamaged(f) \/ GateAccepts(f)
                                 \/ Rename(f)
             \/ \E t \in Threads : WorkerStops(t) \/ WorkerChunk(t)
             \/ PrepareTransform \/ JoinWorkers \/ WriteChunk \/ FinishWrite \/ OpenGate
             \/ Finish \/ RequestCancel \/ Crash \/ UNCHANGED vars
    BY <2>7, <2>8
    DEF RejectSet, NothingLost, Insufficient, SelectRecovery, SetUpMissing, SetUpDamaged,
        GateAccepts, Rename, WorkerStops, WorkerChunk, PrepareTransform, JoinWorkers,
        WriteChunk, FinishWrite, OpenGate, Finish, RequestCancel, Crash, vars
  <2> QED
    BY <2>2, <2>3, <2>4, <2>5, <2>6, <2>8 DEF Next, Step, Returned
<1>4. UpToDate' = UpToDate /\ Good' = Good
  BY <1>1, SameVerdict DEF UpToDate
<1>5. used \subseteq Authentic /\ AlwaysSolvable(used)
  BY <1>1, <1>2, SameVerdict DEF NoCause, AlwaysSolvable, LostDiffer
<1> QED
  BY <1>1, <1>3, <1>4, <1>5 DEF NoCause

\* A call begins with nothing computed and nothing taken.
LEMMA InitCause == Init => CauseInv
BY RangeAssumption DEF Init, CauseInv, StartInv, RebuildInv

\* An error return that is not "failed" ends the call without breaking the invariant.
LEMMA AbortCause ==
  ASSUME TypeOK, NoCause => RebuildInv, disk0 \in Disks, disk0' = disk0, NoCause' => NoCause,
         pc' = "done", outcome' # "failed", cell' = cell
  PROVE  CauseInv'
BY DEF CauseInv, StartInv, RebuildInv

\* The write loop leaves chunk `cursor` right in every temp.
LEMMA WriteRebuilds ==
  ASSUME TypeOK, CommitInv, NoCause, RebuildInv, WriteChunk, NEW f \in ready
  PROVE  /\ temp'[f].len = "exact"
         /\ \A x \in temp'[f].bad : /\ x[1] \in Blocks(f) /\ <<f, x[1]>> \in Lost
                                    /\ x[2] \in Chunks /\ cursor + 1 <= x[2]
<1> DEFINE lost == {b \in Blocks(f) : <<f, b>> \in Lost}
<1>1. /\ f \in Files /\ cursor \in Chunks /\ cursor \in Nat
      /\ Rebuilt(f, cursor) /\ cell[cursor].wrong = {}
  BY TargetsAreFiles, RangeAssumption DEF TypeOK, WriteChunk, RebuildInv, Chunks
<1>2. temp'[f] = [len |-> temp[f].len, bad |-> Written(f, cursor)]
  BY <1>1 DEF WriteChunk
<1>3. Written(f, cursor) = temp[f].bad \ (lost \X {cursor})
  BY <1>1 DEF Written
<1>4. ASSUME NEW x \in temp[f].bad \ (lost \X {cursor})
      PROVE  /\ x[1] \in Blocks(f) /\ <<f, x[1]>> \in Lost
             /\ x[2] \in Chunks /\ cursor + 1 <= x[2]
  <2>1. /\ x[1] \in Blocks(f) /\ <<f, x[1]>> \in Lost
        /\ x[2] \in Chunks /\ cursor <= x[2]
    BY <1>1, <1>4 DEF Rebuilt
  <2>2. x = <<x[1], x[2]>>
    BY <1>1, <1>4 DEF TypeOK, Contents
  <2>3. x[1] \in lost
    BY <2>1
  <2>4. x[2] # cursor
    BY <1>4, <2>2, <2>3
  <2> QED
    BY <1>1, <2>1, <2>4, RangeAssumption DEF Chunks
<1> QED
  BY <1>1, <1>2, <1>3, <1>4 DEF Rebuilt

\* A temp that has just been set up is wrong in lost blocks only: those of a missing file
\* are all lost, and a damaged file's other blocks have been copied.
LEMMA SetUpRebuilds ==
  ASSUME TypeOK, StartInv, NoCause, disk = disk0, pc = "setup", vr' = vr, NEW f \in Files,
         \/ f \in vr.missing /\ temp'[f] = Zeroed(f)
         \/ f \in vr.damaged /\ temp'[f] = [len |-> "exact", bad |-> disk[f].bad]
  PROVE  Rebuilt(f, 0)'
<1>1. Lost' = Lost
  BY SameVerdict
<1>2. CASE f \in vr.missing /\ temp'[f] = Zeroed(f)
  <2>1. \A x \in Cells(f) : /\ x[1] \in Blocks(f) /\ <<f, x[1]>> \in Lost
                            /\ x[2] \in Chunks /\ 0 <= x[2]
    BY <1>2, RangeAssumption DEF Cells, Lost, FileBlocks, Chunks
  <2> QED
    BY <1>1, <1>2, <2>1 DEF Rebuilt, Zeroed
<1>3. CASE f \in vr.damaged /\ temp'[f] = [len |-> "exact", bad |-> disk[f].bad]
  <2>1. \A x \in disk0[f].bad : /\ x[1] \in Blocks(f) /\ <<f, x[1]>> \in Lost
                                /\ x[2] \in Chunks /\ 0 <= x[2]
    BY <1>3, DamageIsLost, RangeAssumption DEF StartInv, NoCause, Chunks
  <2> QED
    BY <1>1, <1>3, <2>1 DEF Rebuilt
<1> QED
  BY <1>2, <1>3

\* Every step of a call keeps the invariant.
LEMMA StepCause ==
  TypeOK /\ CommitInv /\ WorkInv /\ CauseInv /\ [Next]_vars => CauseInv'
<1> SUFFICES ASSUME TypeOK, CommitInv, WorkInv, CauseInv, [Next]_vars PROVE CauseInv'
  OBVIOUS
<1> USE DEF callVars, setupVars, computeVars, commitVars, historyVars, NoFailure, Return
<1>0. /\ StartInv /\ disk0 \in Disks /\ (NoCause => RebuildInv)
      /\ (NoCause' => NoCause /\ vr' = vr /\ disk0' = disk0)
      /\ pc \notin {"commit", "done"} => disk = disk0
      /\ ready \subseteq Files /\ ready \ renamed \subseteq Files
  BY CausesStay, NothingReplacedYet, TargetsAreFiles DEF CauseInv, StartInv, TypeOK
<1>1. CASE RejectSet \/ NothingLost \/ Insufficient \/ Crash \/ Finish
  BY <1>0, <1>1, AbortCause DEF RejectSet, NothingLost, Insufficient, Crash, Finish
<1>2. CASE SelectRecovery
  <2>1. ready = {} /\ outcome = "running"
    BY <1>2 DEF CommitInv, SelectRecovery
  <2> QED
    BY <1>0, <1>2, <2>1 DEF SelectRecovery, CauseInv, StartInv, RebuildInv
<1>3. ASSUME NEW f \in Files, SetUpMissing(f) \/ SetUpDamaged(f) PROVE CauseInv'
  <2>1. StartInv'
    BY <1>0, <1>3 DEF StartInv, SetUpMissing, SetUpDamaged, NextTarget
  <2>2. ASSUME NoCause' PROVE RebuildInv'
    <3>1. /\ NoCause /\ RebuildInv /\ vr' = vr /\ pc = "setup" /\ cursor = 0 /\ cursor' = 0
          /\ f \notin ready /\ ready' = ready \cup {f} /\ pc' = pc /\ outcome' = outcome
          /\ cell' = cell
      BY <1>0, <1>3, <2>2 DEF SetUpMissing, SetUpDamaged, NextTarget, StartInv
    <3>2. Rebuilt(f, 0)'
      BY <1>0, <1>3, <3>1, SetUpRebuilds DEF SetUpMissing, SetUpDamaged, TypeOK
    <3>3. ASSUME NEW g \in ready PROVE Rebuilt(g, 0)'
      <4>1. g # f /\ g \in Files
        BY <1>0, <3>1
      <4>2. temp'[g] = temp[g] /\ Lost' = Lost
        BY <1>3, <3>1, <4>1, SameVerdict DEF SetUpMissing, SetUpDamaged, TypeOK
      <4> QED
        BY <3>1, <4>2 DEF RebuildInv, Rebuilt
    <3>4. (ready \cap vr.damaged)' \subseteq inputs'
      <4>1. CASE SetUpMissing(f)
        <5>1. f \notin vr.damaged
          BY <4>1, <1>0, <3>1, MissingNotDamaged DEF SetUpMissing, NoCause
        <5> QED
          BY <3>1, <4>1, <5>1 DEF SetUpMissing, RebuildInv
      <4>2. CASE SetUpDamaged(f)
        BY <3>1, <4>2 DEF SetUpDamaged, RebuildInv
      <4> QED
        BY <1>3, <4>1, <4>2
    <3> QED
      BY <3>1, <3>2, <3>3, <3>4 DEF RebuildInv
  <2> QED
    BY <2>1, <2>2 DEF CauseInv
<1>4. CASE OpenInputs
  <2>1. PICK fail \in SUBSET {f \in Files \ Targets : Readable(f)} :
               /\ failures' = failures + Cardinality(fail)
               /\ inputs' = inputs \cup ({f \in Files \ Targets : Readable(f)} \ fail)
    BY <1>4 DEF OpenInputs
  <2>2. StartInv'
    BY <1>0, <1>4 DEF StartInv, OpenInputs
  <2>3. ASSUME NoCause' PROVE RebuildInv'
    <3>1. NoCause /\ RebuildInv /\ vr' = vr
      BY <1>0, <2>3
    <3>2. fail = {}
      <4>1. IsFiniteSet(fail) /\ Cardinality(fail) \in Nat
        BY RepairAssumption, FS_Subset, FS_CardinalityType
      <4>2. Cardinality(fail) = 0
        BY <2>1, <2>3, <3>1, <4>1 DEF NoCause
      <4> QED
        BY <4>1, <4>2, FS_EmptySet
    <3>3. \A b \in Good : b[1] \in inputs'
      <4> SUFFICES ASSUME NEW b \in Good PROVE b[1] \in inputs'
        OBVIOUS
      <4>1. \/ b[1] \in vr.damaged
            \/ b[1] \in Files /\ b[1] \notin Targets /\ Readable(b[1])
        BY <1>0, <1>4, <3>1, GoodIsReadable DEF OpenInputs, NoCause
      <4>2. vr.damaged \subseteq ready
        BY <1>4 DEF OpenInputs, Targets
      <4> QED
        BY <1>4, <2>1, <3>1, <3>2, <4>1, <4>2 DEF OpenInputs, RebuildInv
    <3>4. Good' = Good /\ Lost' = Lost
      BY <3>1, SameVerdict
    <3>5. \A f \in ready' : Rebuilt(f, cursor)'
      BY <1>4, <3>1, <3>4 DEF OpenInputs, RebuildInv, Rebuilt
    <3> QED
      BY <1>4, <3>1, <3>3, <3>4, <3>5 DEF OpenInputs, RebuildInv
  <2> QED
    BY <2>2, <2>3 DEF CauseInv
<1>5. CASE Unsolvable \/ WriteNoResult \/ \E f \in Files : GateRefuses(f)
  <2>1. pc' = "done" /\ disk0' = disk0
    BY <1>5 DEF Unsolvable, WriteNoResult, GateRefuses, Abort
  <2>2. ~NoCause
    <3> SUFFICES ASSUME NoCause PROVE FALSE
      OBVIOUS
    <3>1. RebuildInv
      BY <1>0
    <3>2. CASE Unsolvable
      BY <3>2 DEF Unsolvable, NoCause
    <3>3. CASE WriteNoResult
      <4>1. cursor \in Chunks /\ pc = "write" /\ cell[cursor].st # "ok"
        BY <3>3, RangeAssumption DEF WriteNoResult, TypeOK, Chunks
      <4>2. cell[cursor].st \in {"none", "ok", "err"}
        BY <4>1 DEF TypeOK
      <4> QED
        BY <3>1, <4>1, <4>2 DEF RebuildInv, WorkInv, EveryChunkProcessed
    <3>4. CASE \E f \in Files : GateRefuses(f)
      BY <3>1, <3>4 DEF GateRefuses, AtGate, RebuildInv
    <3> QED
      BY <1>5, <3>2, <3>3, <3>4
  <2> QED
    BY <1>0, <2>1, <2>2 DEF CauseInv, StartInv
<1>6. CASE \/ SetUpCancelled \/ JoinCancelled \/ WriteFails \/ WriteCancelled
           \/ \E f \in Files : \/ SetUpGone(f) \/ SetUpFails(f) \/ GateCancelled(f)
                               \/ GateFails(f) \/ RenameFails(f)
  <2>1. pc' = "done" /\ outcome' # "failed" /\ disk0' = disk0 /\ cell' = cell
    BY <1>6
    DEF SetUpCancelled, JoinCancelled, WriteFails, WriteCancelled, SetUpGone, SetUpFails,
        GateCancelled, GateFails, RenameFails, Abort
  <2> QED
    BY <1>0, <2>1, AbortCause
<1>7. CASE PrepareTransform \/ JoinWorkers
  <2>1. Good' = Good /\ Lost' = Lost
    BY <1>7, SameVerdict DEF PrepareTransform, JoinWorkers
  <2> QED
    BY <1>0, <1>7, <2>1
    DEF PrepareTransform, JoinWorkers, CauseInv, StartInv, RebuildInv, Rebuilt
<1>8. ASSUME NEW t \in Threads, WorkerStops(t) PROVE CauseInv'
  <2>1. Good' = Good /\ Lost' = Lost
    BY <1>8, SameVerdict DEF WorkerStops
  <2> QED
    BY <1>0, <1>8, <2>1 DEF WorkerStops, Working, CauseInv, StartInv, RebuildInv, Rebuilt
<1>9. ASSUME NEW t \in Threads, WorkerReadFails(t) PROVE CauseInv'
  <2>1. failures' # 0
    BY <1>9 DEF WorkerReadFails, TypeOK
  <2> QED
    BY <1>0, <1>9, <2>1
    DEF WorkerReadFails, StoreCell, Working, CauseInv, StartInv, NoCause
<1>10. ASSUME NEW t \in Threads, WorkerChunk(t) PROVE CauseInv'
  <2>1. Good' = Good /\ Lost' = Lost
    BY <1>10, SameVerdict DEF WorkerChunk, StoreCell
  <2>2. StartInv'
    BY <1>0, <1>10 DEF WorkerChunk, StoreCell, Working, StartInv
  <2>3. ASSUME NoCause' PROVE RebuildInv'
    <3>1. NoCause /\ RebuildInv /\ disk = disk0
      BY <1>0, <1>10, <2>3 DEF WorkerChunk, Working
    <3>2. \A c : RightInput(c)
      BY <1>0, <3>1, InputIsRight
    <3>3. StoreCell(t, [st |-> "ok", wrong |-> {}])
      <4>1. \A b \in Good : b[1] \in inputs
        BY <1>10, <3>1 DEF WorkerChunk, Working, RebuildInv
      <4>2. PICK W \in SUBSET Lost :
                   /\ RightInput(nextChunk[t]) => W = {}
                   /\ StoreCell(t, [st |-> "ok", wrong |-> W])
        BY <1>10, <4>1 DEF WorkerChunk
      <4> QED
        BY <3>2, <4>2
    <3>4. \A c \in Chunks : cell'[c].st # "err" /\ cell'[c].wrong = {}
      BY <3>1, <3>3 DEF StoreCell, RebuildInv, TypeOK
    <3> QED
      BY <1>10, <2>1, <3>1, <3>3, <3>4 DEF WorkerChunk, StoreCell, Working, RebuildInv, Rebuilt
  <2> QED
    BY <2>2, <2>3 DEF CauseInv
<1>11. CASE WriteChunk
  <2>1. StartInv'
    BY <1>0, <1>11 DEF WriteChunk, StartInv
  <2>2. ASSUME NoCause' PROVE RebuildInv'
    <3>1. NoCause /\ RebuildInv
      BY <1>0, <2>2
    <3>2. Lost' = Lost /\ cursor' = cursor + 1 /\ ready' = ready
      BY <1>11, SameVerdict DEF WriteChunk
    <3>3. \A f \in ready' : Rebuilt(f, cursor)'
      BY <1>11, <3>1, <3>2, WriteRebuilds DEF Rebuilt
    <3> QED
      BY <1>11, <3>1, <3>3 DEF WriteChunk, RebuildInv
  <2> QED
    BY <2>1, <2>2 DEF CauseInv
<1>12. CASE FinishWrite
  <2>1. StartInv'
    BY <1>0, <1>12 DEF FinishWrite, StartInv
  <2>2. ASSUME NoCause' PROVE RebuildInv'
    <3>1. NoCause /\ RebuildInv
      BY <1>0, <2>2
    <3>2. ASSUME NEW f \in ready PROVE temp[f] = Intact
      <4>1. Rebuilt(f, NumChunks)
        BY <1>12, <3>1 DEF FinishWrite, RebuildInv
      <4>2. temp[f].bad = {}
        <5> SUFFICES ASSUME NEW x \in temp[f].bad PROVE FALSE
          OBVIOUS
        <5>1. x[2] \in 0 .. NumChunks - 1 /\ NumChunks <= x[2]
          BY <4>1 DEF Rebuilt, Chunks
        <5> QED
          BY <5>1, RangeAssumption
      <4>3. temp[f] \in Contents
        BY <1>0 DEF TypeOK
      <4> QED
        BY <4>1, <4>2, <4>3 DEF Rebuilt, Contents, Intact
    <3> QED
      BY <1>12, <3>1, <3>2 DEF FinishWrite, RebuildInv
  <2> QED
    BY <2>1, <2>2 DEF CauseInv
<1>13. CASE \/ OpenGate \/ \E f \in Files : GateAccepts(f) \/ Rename(f)
  BY <1>0, <1>13
  DEF OpenGate, GateAccepts, AtGate, Rename, CauseInv, StartInv, RebuildInv
<1>14. CASE RequestCancel \/ UNCHANGED vars
  <2>1. vr' = vr
    BY <1>14 DEF RequestCancel, vars
  <2>2. Good' = Good /\ Lost' = Lost
    BY <2>1, SameVerdict
  <2> QED
    BY <1>0, <1>14, <2>1, <2>2
    DEF RequestCancel, vars, CauseInv, StartInv, RebuildInv, Rebuilt
<1> QED
  BY <1>1, <1>2, <1>3, <1>4, <1>5, <1>6, <1>7, <1>8, <1>9, <1>10, <1>11, <1>12, <1>13,
     <1>14 DEF Next, Step, Returned

\* A repair with enough recovery blocks fails for a reason outside the algorithm or not at
\* all (FailureHasCause): I/O, files changed since they were verified, recovery packets that are
\* forged or not consecutive, lost blocks of one constant (which takes more than 32768 data
\* blocks), or a verified path that is gone.
THEOREM NoFailureWithoutCause == Spec => []FailureHasCause
<1>1. Spec => []WorkInv
  BY InitTyped, StepTyped, InitWork, StepWork, PTL DEF Spec
<1>2. Spec => []CauseInv
  BY <1>1, TypeCorrect, CommitInvariant, InitCause, StepCause, PTL DEF Spec
<1>3. TypeOK /\ CauseInv => FailureHasCause
  <2> SUFFICES ASSUME TypeOK, CauseInv, outcome = "failed", failures = 0, UpToDate,
                      used \subseteq Authentic, AlwaysSolvable(used)
               PROVE  \E b \in Good : vr.path[b[1]] = "gone"
    BY DEF FailureHasCause, TypeOK
  <2>1. ~NoCause
    BY DEF CauseInv, RebuildInv
  <2> QED
    BY <2>1 DEF NoCause
<1> QED
  BY <1>2, <1>3, TypeCorrect, PTL
=============================================================================
