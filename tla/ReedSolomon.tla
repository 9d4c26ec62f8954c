---------------------------- MODULE ReedSolomon ----------------------------
(***************************************************************************)
(* src/par2_rs.rs: the recovery blocks of a set are computed by the        *)
(* streaming encoder, some blocks are lost, and the lost ones are computed *)
(* again by Gaussian elimination, in the two parts of the code:            *)
(*                                                                         *)
(*   compute_reconstruction_transform eliminates on the matrix of the lost *)
(*   blocks and records what it did: the row exchanges, the pivots and the *)
(*   factors;                                                              *)
(*                                                                         *)
(*   reconstruct_streaming_chunk replays the record on the data.           *)
(*                                                                         *)
(* Every symbol of a block is treated alike, so a block is one symbol.     *)
(* Rows and columns count from 1.                                          *)
(***************************************************************************)
EXTENDS GaloisField, Orders

CONSTANTS
  DataBlocks,      \* number of data blocks
  RecoveryBlocks,  \* number of recovery blocks: their exponents count from 0
  DataBatch,       \* data_batch_size of the encoder
  SourceBatch,     \* SRC_BATCH of the decoder
  MaxLost,         \* bound: data blocks that may be lost
  Samples          \* the contents the data blocks may have

Blocks    == 1 .. DataBlocks
Exponents == 0 .. RecoveryBlocks - 1

ASSUME CodeAssumption ==
  /\ DataBlocks \in Nat \ {0} /\ RecoveryBlocks \in Nat
  /\ DataBatch \in Nat \ {0} /\ SourceBatch \in Nat \ {0} /\ MaxLost \in Nat
  /\ Samples \subseteq [Blocks -> Elements]

VARIABLES
  data,       \* the content of the data blocks
  pc,         \* where the computation is
  fed,        \* data blocks handed to the encoder
  batch,      \* batch_indices and batch_buffers: the blocks waiting to be encoded
  recovery,   \* recovery_data, and then the recovery blocks
  missing,    \* missing_indices
  exponents,  \* the exponents of the recovery blocks in use
  matrix,     \* A
  rowOrder,   \* row_order
  scale,      \* scale_factors
  factors,    \* elimination_factors
  k,          \* the loop variable of the elimination and of its replay
  acc,        \* accumulators
  used,       \* data blocks already added to the accumulators
  output      \* what write_result was given, in order

encoder   == <<fed, batch, recovery>>
transform == <<matrix, rowOrder, scale, factors>>
decoder   == <<acc, used, output>>
vars == <<data, pc, encoder, missing, exponents, transform, k, decoder>>

Constants == Par2Constants(DataBlocks)

Losses       == Len(missing)
Rows         == 1 .. Losses

-----------------------------------------------------------------------------
\* coeff_matrix: the encoder multiplies where the decoder takes a power.
CoeffMatrix ==
  [d \in Blocks |->
     LET coeff[e \in Exponents] ==
           IF e = 0 THEN 1 ELSE GfMul(coeff[e - 1], Constants[d])
     IN  [e \in Exponents |-> coeff[e]]]

\* flush_batch on the given batch.
Flushed(waiting) ==
  [e \in Exponents |->
     recovery[e] ^^
       GfSum([slot \in DOMAIN waiting |->
                GfMul(waiting[slot].word, CoeffMatrix[waiting[slot].block][e])])]

Init ==
  /\ data \in Samples
  /\ pc = "encode"
  /\ fed = 0 /\ batch = <<>> /\ recovery = [e \in Exponents |-> 0]
  /\ missing = <<>> /\ exponents = <<>>
  /\ matrix = <<>> /\ rowOrder = <<>> /\ scale = <<>> /\ factors = <<>>
  /\ k = 1
  /\ acc = <<>> /\ used = 0 /\ output = <<>>

\* Mutant: flushes one block too late.
ProcessBlockLate ==
  /\ pc = "encode" /\ fed < DataBlocks
  /\ LET waiting == Append(batch, [block |-> fed + 1, word |-> data[fed + 1]])
     IN  IF Len(waiting) > DataBatch
         THEN recovery' = Flushed(waiting) /\ batch' = <<>>
         ELSE batch' = waiting /\ UNCHANGED recovery
  /\ fed' = fed + 1
  /\ UNCHANGED <<data, pc, missing, exponents, transform, k, decoder>>

\* process_block: a full batch is encoded at once.
ProcessBlock ==
  /\ pc = "encode" /\ fed < DataBlocks
  /\ LET waiting == Append(batch, [block |-> fed + 1, word |-> data[fed + 1]])
     IN  IF Len(waiting) >= DataBatch
         THEN recovery' = Flushed(waiting) /\ batch' = <<>>
         ELSE batch' = waiting /\ UNCHANGED recovery
  /\ fed' = fed + 1
  /\ UNCHANGED <<data, pc, missing, exponents, transform, k, decoder>>

\* Mutant: does not flush the last, partial batch.
FinalizeUnflushed ==
  /\ pc = "encode" /\ fed = DataBlocks
  /\ batch' = <<>> /\ UNCHANGED recovery
  /\ pc' = "stored"
  /\ UNCHANGED <<data, fed, missing, exponents, transform, k, decoder>>

\* finalize: what still waits is encoded.
Finalize ==
  /\ pc = "encode" /\ fed = DataBlocks
  /\ recovery' = Flushed(batch) /\ batch' = <<>>
  /\ pc' = "stored"
  /\ UNCHANGED <<data, fed, missing, exponents, transform, k, decoder>>

\* Blocks are lost.  repair.rs sorts the recovery blocks that remain by exponent and
\* takes as many of them as there are lost blocks.
LoseBlocks ==
  /\ pc = "stored"
  /\ \E lost \in SUBSET Blocks, kept \in SUBSET Exponents :
       /\ Cardinality(lost) <= MaxLost
       /\ missing' = Ascending(lost)
       /\ exponents' = SubSeq(Ascending(kept), 1, Min({Cardinality(lost), Cardinality(kept)}))
  /\ pc' = "prepare"
  /\ UNCHANGED <<data, encoder, transform, k, decoder>>

-----------------------------------------------------------------------------
\* compute_reconstruction_transform.
RejectInput ==
  /\ pc = "prepare"
  /\ Losses = 0 \/ Len(exponents) < Losses
  /\ pc' = "rejected"
  /\ UNCHANGED <<data, encoder, missing, exponents, transform, k, decoder>>

\* The coefficient of data block d in the recovery block of row i.
Vandermonde(i, d) == GfPow(Constants[d], exponents[i])

BuildMatrix ==
  /\ pc = "prepare"
  /\ Losses > 0 /\ Len(exponents) >= Losses
  /\ matrix' = [i \in Rows |-> [j \in Rows |-> Vandermonde(i, missing[j])]]
  /\ rowOrder' = [i \in Rows |-> i]
  /\ scale' = [i \in Rows |-> 1]
  /\ factors' = [i \in Rows |-> [j \in Rows |-> 0]]
  /\ k' = 1 /\ pc' = "eliminate"
  /\ UNCHANGED <<data, encoder, missing, exponents, decoder>>

Swapped(rows, i, j) == [rows EXCEPT ![i] = rows[j], ![j] = rows[i]]

\* Mutant: only the diagonal entry is looked at.
PivotOnDiagonal == {r \in {k} : matrix[r][k] # 0}

\* Mutant: the search starts below the diagonal.
PivotsBelow == {r \in k + 1 .. Losses : matrix[r][k] # 0}

\* The rows that can be the pivot of column k; the code takes the first.
Pivots == {r \in k .. Losses : matrix[r][k] # 0}

Singular ==
  /\ pc = "eliminate" /\ k <= Losses
  /\ Pivots = {}
  /\ pc' = "singular"
  /\ UNCHANGED <<data, encoder, missing, exponents, transform, k, decoder>>

\* Mutant: the factors recorded so far stay with the old rows.
EliminateForgetful ==
  /\ pc = "eliminate" /\ k <= Losses
  /\ Pivots # {}
  /\ LET p == Min(Pivots)
         A == Swapped(matrix, k, p)
         F == factors
         row == [j \in Rows |-> IF j < k THEN A[k][j] ELSE GfDiv(A[k][j], A[k][k])]
         Reduced(r) == [j \in Rows |-> IF j < k THEN A[r][j]
                                        ELSE A[r][j] ^^ GfMul(row[j], A[r][k])]
     IN  /\ rowOrder' = Swapped(rowOrder, k, p)
         /\ scale' = [Swapped(scale, k, p) EXCEPT ![k] = A[k][k]]
         /\ factors' = [r \in Rows |-> IF r = k THEN F[r] ELSE [F[r] EXCEPT ![k] = A[r][k]]]
         /\ matrix' = [r \in Rows |-> IF r = k THEN row ELSE Reduced(r)]
  /\ k' = k + 1
  /\ UNCHANGED <<data, pc, encoder, missing, exponents, decoder>>

\* One column: exchange, scale the pivot row, subtract it from every other row.
Eliminate ==
  /\ pc = "eliminate" /\ k <= Losses
  /\ Pivots # {}
  /\ LET p == Min(Pivots)
         A == Swapped(matrix, k, p)
         F == Swapped(factors, k, p)
         row == [j \in Rows |-> IF j < k THEN A[k][j] ELSE GfDiv(A[k][j], A[k][k])]
         Reduced(r) == [j \in Rows |-> IF j < k THEN A[r][j]
                                        ELSE A[r][j] ^^ GfMul(row[j], A[r][k])]
     IN  /\ rowOrder' = Swapped(rowOrder, k, p)
         /\ scale' = [Swapped(scale, k, p) EXCEPT ![k] = A[k][k]]
         /\ factors' = [r \in Rows |-> IF r = k THEN F[r] ELSE [F[r] EXCEPT ![k] = A[r][k]]]
         /\ matrix' = [r \in Rows |-> IF r = k THEN row ELSE Reduced(r)]
  /\ k' = k + 1
  /\ UNCHANGED <<data, pc, encoder, missing, exponents, decoder>>

-----------------------------------------------------------------------------
\* reconstruct_streaming_chunk.
Present == Blocks \ ToSet(missing)

\* used_data_cols: columns of zeros are left out.
UsedColumns == Ascending({d \in Present : \E i \in Rows : Vandermonde(i, d) # 0})

\* The recovery block of each row goes where the elimination moved the row.
LoadRecovery ==
  /\ pc = "eliminate" /\ k > Losses
  /\ acc' = [p \in Rows |-> recovery[exponents[rowOrder[p]]]]
  /\ used' = 0 /\ k' = 1 /\ pc' = "replay"
  /\ UNCHANGED <<data, encoder, missing, exponents, transform, output>>

\* The coefficients of row i are added to accumulator i, whatever the row order.
Accumulate ==
  /\ pc = "replay" /\ used < Len(UsedColumns)
  /\ LET last == Min({used + SourceBatch, Len(UsedColumns)})
     IN  /\ acc' = [i \in Rows |->
                      acc[i] ^^ GfSum([c \in used + 1 .. last |->
                                         GfMul(data[UsedColumns[c]],
                                               Vandermonde(i, UsedColumns[c]))])]
         /\ used' = last
  /\ UNCHANGED <<data, pc, encoder, missing, exponents, transform, k, output>>

\* Mutant: no elimination above the pivot.
AppliedBelow(v, n) ==
  LET pivot == GfDiv(v[n], scale[n])
  IN  [r \in Rows |-> CASE r < n -> v[r]
                        [] r = n -> pivot
                        [] r > n -> v[r] ^^ GfMul(pivot, factors[r][n])]

\* Step n of the record, applied to a vector.
Applied(v, n) ==
  LET pivot == GfDiv(v[n], scale[n])
  IN  [r \in Rows |-> IF r = n THEN pivot ELSE v[r] ^^ GfMul(pivot, factors[r][n])]

Replay ==
  /\ pc = "replay" /\ used = Len(UsedColumns)
  /\ k <= Losses
  /\ acc' = Applied(acc, k)
  /\ k' = k + 1
  /\ UNCHANGED <<data, pc, encoder, missing, exponents, transform, used, output>>

WriteBlock ==
  /\ pc = "replay" /\ k > Losses
  /\ output' = Append(output, acc[Len(output) + 1])
  /\ pc' = IF Len(output') = Losses THEN "done" ELSE pc
  /\ UNCHANGED <<data, encoder, missing, exponents, transform, k, acc, used>>

\* A read_block or write_result that fails ends the chunk with its error.
ChunkFails ==
  /\ \/ pc = "eliminate" /\ k > Losses
     \/ pc = "replay" /\ (used < Len(UsedColumns) \/ k > Losses)
  /\ pc' = "failed"
  /\ UNCHANGED <<data, encoder, missing, exponents, transform, k, decoder>>

Encode == ProcessBlock \/ Finalize
Decode == \/ RejectInput \/ BuildMatrix \/ Singular \/ Eliminate
          \/ LoadRecovery \/ Accumulate \/ Replay \/ WriteBlock \/ ChunkFails

\* Nothing is left to do.
Finished ==
  /\ pc \in {"rejected", "singular", "done", "failed"}
  /\ UNCHANGED vars

Next == Encode \/ LoseBlocks \/ Decode \/ Finished
Spec == Init /\ [][Next]_vars

-----------------------------------------------------------------------------
\* Empty until they are first assigned.
IsVector(v) == v = <<>> \/ v \in [Rows -> Elements]
IsMatrix(m) == m = <<>> \/ m \in [Rows -> [Rows -> Elements]]

\* Types.  The encoder never has more than a full batch waiting: a slot beyond the
\* batch_buffers would be a panic.
TypeOK ==
  /\ data \in Samples
  /\ pc \in {"encode", "stored", "prepare", "rejected", "eliminate", "singular", "replay",
             "done", "failed"}
  /\ fed \in 0 .. DataBlocks
  /\ batch \in Seq([block : Blocks, word : Elements]) /\ Len(batch) < DataBatch
  /\ recovery \in [Exponents -> Elements]
  /\ missing \in Seq(Blocks) /\ exponents \in Seq(Exponents)
  /\ IsMatrix(matrix) /\ IsMatrix(factors)
  /\ rowOrder = <<>> \/ rowOrder \in Bijection(Rows, Rows)
  /\ IsVector(scale) /\ IsVector(acc)
  /\ k \in 1 .. Losses + 1
  /\ used \in 0 .. DataBlocks
  /\ output \in Seq(Elements)

\* Multiplying by logarithms is multiplying in the field, for every pair of elements
\* (src/galois/core.rs, gf_mul over the tables of init_tables).
TablesMultiply ==
  fed = 0 => \A a, b \in Elements : GfMul(a, b) = PolynomialProduct(a, b)

\* The blocks of a full or of a last, partial batch are each encoded once: a recovery
\* block is the sum of the data blocks weighted by powers of their constants.  The
\* encoder multiplies coefficients up one by one; this says what gf_pow makes of them.
RecoveryIsWeightedSum ==
  pc \notin {"encode"} =>
    \A e \in Exponents :
      recovery[e] = GfSum([d \in Blocks |-> GfMul(data[d], GfPow(Constants[d], e))])

\* The matrix of the lost blocks before any row was moved.
OriginalColumn(j) == [i \in Rows |-> Vandermonde(i, missing[j])]

\* A vector after each number of steps of the record.
Replayed(v) ==
  LET after[n \in 0 .. Losses] == IF n = 0 THEN v ELSE Applied(after[n - 1], n) IN after

\* At every step of the elimination the record, replayed on a column of the original
\* matrix with its rows in row_order, gives the column as it is now; and the columns
\* already passed are those of the identity.  An exchange that forgot one of the four
\* tables would break it some columns later.
RecordReplaysElimination ==
  pc = "eliminate" =>
    \A j \in Rows :
      LET column == [i \in Rows |-> matrix[i][j]]
          moved  == [i \in Rows |-> OriginalColumn(j)[rowOrder[i]]]
      IN  /\ column = Replayed(moved)[k - 1]
          /\ j < k => column = [i \in Rows |-> IF i = j THEN 1 ELSE 0]

\* A column of the original matrix is a combination of the columns before it: other contents
\* of the lost blocks would give the same recovery blocks.
Dependent ==
  \E j \in Rows : \E x \in [1 .. j - 1 -> Elements] :
    OriginalColumn(j) =
      [i \in Rows |-> GfSum([c \in 1 .. j - 1 |-> GfMul(x[c], OriginalColumn(c)[i])])]

\* The elimination gives up on the matrices that have no inverse and on no other.
SingularIsGenuine ==
  /\ pc = "singular" => Dependent
  /\ pc \in {"replay", "done"} => ~Dependent

Unmoved == \A i \in DOMAIN rowOrder : rowOrder[i] = i

Consecutive ==
  \A i \in 1 .. Len(exponents) - 1 : exponents[i + 1] = exponents[i] + 1

\* Recovery blocks with consecutive exponents restore any blocks, with no exchange of
\* rows: the case of an undamaged volume, and the one the tests of the repository run.
ConsecutiveIsSolved ==
  Consecutive => pc # "singular" /\ Unmoved

Restored == \A i \in DOMAIN output : output[i] = data[missing[i]]

\* Without an exchange of rows, what is handed to write_result is the lost block.
UnmovedRestores == Unmoved => Restored

\* "Ok(()) if reconstruction successful": whatever is handed to write_result is the
\* lost block (src/par2_rs.rs, reconstruct_streaming_chunk).
OkMeansRestored == pc = "done" => Restored
=============================================================================
