----------------------------- MODULE WorkRanges -----------------------------
(***************************************************************************)
(* The static distribution of chunks over repair threads (repair.rs):      *)
(* thread t gets the contiguous range start .. end-1 with                  *)
(*   chunks_per_thread = num_chunks.div_ceil(num_threads)                  *)
(*   start = t * chunks_per_thread                                         *)
(*   end   = (start + chunks_per_thread).min(num_chunks)                   *)
(* and the spawn loop stops at the first thread whose start is past the    *)
(* last chunk.                                                             *)
(***************************************************************************)
EXTENDS Integers

CONSTANTS
  NumChunks,   \* block_size.div_ceil(chunk_size)
  NumThreads   \* get_effective_cpus()

ASSUME RangeAssumption == NumChunks \in Nat \ {0} /\ NumThreads \in Nat \ {0}

Chunks  == 0 .. NumChunks - 1
Threads == 0 .. NumThreads - 1

DivCeil(a, b) == (a + b - 1) \div b

ChunksPerThread == DivCeil(NumChunks, NumThreads)

RangeStart(t) == t * ChunksPerThread

\* Mutant: clamps the end to the last index instead of the length.
RangeEndShort(t) ==
  LET e == RangeStart(t) + ChunksPerThread
  IN  IF e < NumChunks - 1 THEN e ELSE NumChunks - 1

RangeEnd(t) ==
  LET e == RangeStart(t) + ChunksPerThread
  IN  IF e < NumChunks THEN e ELSE NumChunks

\* The threads the loop spawns: those that have a chunk to work on.
Spawned == {t \in Threads : RangeStart(t) < NumChunks}

-----------------------------------------------------------------------------
(* How a block is cut into chunks.                                         *)

Larger(a, b)  == IF a < b THEN b ELSE a
Smaller(a, b) == IF a < b THEN a ELSE b

\* The size that suits the threads and the vector unit (ideal is get_ideal_chunk_size).
RawChunkSize(block, cpus, ideal) ==
  LET perThread == block \div cpus
  IN  CASE block <= ideal * cpus -> Larger(perThread, 4096)
        [] block > ideal * cpus /\ perThread <= ideal \div 2 -> Larger(block \div (4 * cpus), 4096)
        [] OTHER -> block \div (cpus * Larger(perThread \div ideal, 1))

\* minimum is PAR2_MIN_CHUNK, 0 when it is not set: clamped into the block, made even.
ChunkSize(block, cpus, ideal, minimum) ==
  LET wanted  == Larger(RawChunkSize(block, cpus, ideal), minimum)
      clamped == Smaller(Larger(wanted, Smaller(4096, block)), block)
  IN  Larger(2 * (clamped \div 2), 2)

\* process_chunk: where chunk i starts and what is left for it.
ChunkOffset(size, i)       == i * size
ThisChunkSize(block, size, i) == Smaller(block - ChunkOffset(size, i), size)
=============================================================================
