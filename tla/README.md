# A TLA+ model of par2-rs

par2-rs creates, verifies and repairs PAR2 recovery sets: a set of protected
files is cut into blocks, Reed-Solomon recovery blocks over GF(2^16) are stored
in `.par2` volumes, and later any damage of no more blocks than there are
recovery blocks can be undone. This directory models the part of the program
that reads and writes the user's files and the codec that rebuilds them, checks
them with TLC and proves the main safety properties with TLAPS. It covers the whole
life of a recovery set: creation, damage, loading, verification, repair and purge.

## 1. The system

| Part (source under `src/src/`) | State it keeps | Operations | Talks to |
|---|---|---|---|
| `lib.rs` `Par2Repairer` | the `.par2` path and its directory; per run: loaded set, directory listing, two verification results | load, scan, verify, repair, verify again, purge | parser, verify, repair; the caller's flag and callbacks |
| `parser.rs` `Par2File` | files, their order, slice checksums, recovery packets, those put off until the block size is known, set id | scan the given file packet by packet, look for volumes of the same set in its directory and scan them, order the files | the directory |
| `verify.rs` | per call: verified paths, damaged and missing lists, block damage, a shared "somebody saw the flag" | check by name (parallel), match by content (parallel), rename, locate bad blocks | the protected files |
| `repair.rs` | per call: lost blocks, chosen recovery blocks, temp files, read handles, one result cell per chunk | set up temps, compute (parallel), write, verify temps, rename | the protected files, `par2_rs` |
| `par2_rs.rs` | constants, matrices, encoder batches | encode, eliminate once, reconstruct chunk by chunk | `galois/` |
| `creator.rs`, `volumes.rs`, `writer.rs` | options, metadata of the files, block size, recovery buffers, the volumes | hash (parallel), order, choose the block size, hold the counts against the limits, read again and encode, split into volumes, write file after file, packet after packet | `par2_rs`, `hash/`, the input files and their directory |
| `galois/`, `hash/` | tables, the detected SIMD back end | field arithmetic, MD5, CRC32 | - |
| `info.rs`, `bin/` | - | summary of a set, command lines | parser, lib |

What is hard in it: rayon tasks that share flags, maps and unsynchronised result
cells; a cancellation flag that may be raised between any two steps; I/O that
fails half way through a multi-file commit; a process killed at any point with
temp files on disk; results of one pass (paths, block lists, the directory
listing) used by a later one after files have moved; recovery data deleted on the
strength of a verdict; recovery sets written in place, over older ones, from files
that are read twice; and packets in any order, some of them damaged, the length
field that tells where the next one is included.

What makes each part correct:

* *repair*: a protected file is only ever replaced whole, by its protected
  bytes, and only when every file of the call can be; the call returns, cleans
  its temps up, and fails only for a reason outside the algorithm.
* *verify*: its verdict is what the bytes call for; no content is lost by its
  renames; a cancellation is never mistaken for missing files.
* *pipeline*: no run, however it ends, makes a repairable directory
  unrepairable; trying again repairs it; recovery data goes only when nothing
  needs it.
* *codec*: what was encoded is what is reconstructed, from any sufficient choice
  of recovery blocks; an unsolvable choice is reported and a solvable one is not.
* *creator*: whatever it is interrupted by, what it has written can be taken for
  nothing but what was encoded; its volumes tile the exponents; what it has written
  to the end loads whole.
* *parser*: the loaded set does not depend on the order of packets or volumes; an
  intact packet is neither missed nor taken twice for damage elsewhere; the blocks
  are numbered as they were when they were encoded.

## 2. The modules

| Module | What it models | EXTENDS |
|---|---|---|
| `WorkRanges` | how a block is cut into chunks (`repair.rs` 639-678) and the static distribution of chunks over threads (880-915) | - |
| `Par2Data` | contents of files judged against the protected bytes; `VerificationResult` | `WorkRanges` |
| `Repair` | one call of `repair_files_with_messages` | `Par2Data` |
| `RepairContract` | what that call promises about the files | - |
| `Verify` | one call of `verify_files_with_messages` | `Par2Data` |
| `Par2Repairer` | runs of the pipeline, one after another, on one directory | `Verify` |
| `Orders` | sorting a set: what `sort_by` makes of elements that all differ | - |
| `GaloisField` | `galois/core.rs`: tables, products, quotients, powers; the constants of the blocks | - |
| `ReedSolomon` | `par2_rs.rs`: the streaming encoder, a loss, the elimination, its replay on a chunk | `GaloisField`, `Orders` |
| `Packets` | the recovery set on disk: packets as `writer.rs` makes them, their damage, names | `Orders` |
| `Creator` | one call of `Par2Creator::create` after another | `Packets` |
| `Loader` | one call of `Par2File::load`; what `Par2Info` says of the result | `Packets` |
| `Archive` | both on one directory, with the damage that comes between | `Creator`, `Loader` |
| `Basics_proofs` | facts the proofs share: induction and recursion on numbers and on finite sets, sums, sequences, sorting | `Orders` |
| `Repair_proofs` (with the theorems about `WorkRanges`), `Verify_proofs`, `Archive_proofs`, `GaloisField_proofs` | theorems | the module they are about |
| `Par2Repairer_proofs` | theorems | `Par2Repairer`, `Verify_proofs` |
| `Loader_proofs` | theorems about `Archive` as a load sees it | `Archive_proofs` |
| `ReedSolomon_proofs` | theorems | `ReedSolomon`, `GaloisField_proofs` |
| `MCRepair`, `MCVerify`, `MCPar2Repairer`, `MCReedSolomon`, `MCArchive` | the instances TLC checks | the module they instantiate |

**Contents.** The code can tell no more about a path than its length against
the protected one and which blocks agree with it, so a content is
`[len, bad]`: `len` in none/short/exact/long and `bad` a set of wrong cells
`<<block, chunk>>`, where the chunks are those repair cuts blocks into. A hash
or CRC comparison is equality of contents: collisions are left out.

**Repair.** One variable per local of the function (`ready` is the key set of
`temp_to_final`, `inputs` that of `input_files`, `cell` is `results`, and so on;
each is explained where it is declared), plus `disk` and `temp`, the contents at
each file's path and at its `.par2tmp`. An action is a statement group between
two points where something else may happen: another worker's step, the flag
being raised, an I/O failure, a kill. The flag is read exactly where the code
reads it; in the commit loop it is not read. Reconstruction is modelled by what
`ReedSolomon` shows of it: right inputs give right blocks unless the elimination
may have exchanged rows (`RowsStay`), and otherwise anything may come out; the
transform may fail unless the exponents are consecutive and no two lost blocks share
a constant (`AlwaysSolvable`; the constants, `BlockConstant`, are arbitrary numbers,
because the code takes more blocks than it has constants that differ). Both are theorems
about `ReedSolomon` (`UnmovedAlwaysRestores`, `DistinctAlwaysSolved`). `Abort` is every
error path after a temp exists: return an error and remove the listed temps, each
removal being best effort. The history variables (`disk0`, `failures`, `unsized`,
`stuck`) only serve the properties.

**Verify.** The disk is a map from names to contents, a name of a protected file
being the file. Files may share their bytes (`Bytes`), since ids also hash the
name. Tasks of the two parallel passes are one action each, in any order; the
size filter of the second pass is an optimisation that the equality of contents
subsumes. The iteration order of the `files` map, on which the choice between
twins depends, is picked in `Init`.

**Par2Repairer.** The verifications of a run *are* the steps of `Verify`
(`VerifyStep`). Repair is reduced to the steps of its contract with the temps
made visible as names in the directory, so that a killed run leaves them to the
next run's scan. Loading ends the run if the given file cannot be read (`LoadFails`)
and passes over volumes that cannot. `Begin` starts a run whenever none is going; only
`disk` and `par2` survive the end of one.

**ReedSolomon.** One behaviour encodes a set block by block (`ProcessBlock`,
`Finalize`), loses blocks of both kinds (`LoseBlocks`, with the choice of recovery
blocks that `repair.rs` 584-606 makes), eliminates one column per step
(`BuildMatrix`, `Eliminate`, `Singular`), and replays the record on the one symbol
that stands for every symbol of a block (`LoadRecovery`, `Accumulate` in batches,
`Replay`, `WriteBlock`). The four tables of `ReconstructionTransform` are variables
(`rowOrder`, `scale`, `factors`) but for `vandermonde_coeffs`, which depends on
nothing the elimination changes and is the operator `Vandermonde`: it is in the
order of the rows before any exchange, as in the code. The encoder multiplies
coefficients up (`CoeffMatrix`) where the decoder takes powers, so that the two
agree is checked and proved, not assumed. The SIMD back ends' shuffled formats, the buffer
pool, the checks for odd sizes and the batch sizes chosen by the machine are left
out; the creator feeds blocks in order and never one past the last.

**Packets.** A packet is `[kind, set, body, harm]` and a `.par2` file a sequence of
them; a position in a file is a slot, because between two packets the scan finds
nothing. `harm` is what damage can do to a packet that is there: take its magic,
make its length implausible, make it take in the next packet, change the set id in
its header, change its body or hash, or cut it off at the end of the file. A hash is
what it is taken of: the set id is the Main packet's body, and a block is
`[text, size, at]`, so a recovery block is the sequence of data blocks it was
computed from and exponent and blocks together stand for its bytes. A File ID hashes
the first 16 KiB, the length and the name, so two contents of a file may share it.

**Creator.** An action is a stage of `create`, or one round of its loops: hash one
file (a parallel task), plan (sort, block size, counts, limits), read and encode the
next block, place a recovery block in a volume, open an output, write one packet,
close it. The outputs are written under their own names: there are no temps, an older
file of that name is cut to nothing when it is opened, and a failure or a kill leaves
what was written, the last packet perhaps in part. `Edit` lets somebody change an
input between or during the passes over it. The padding of the numbers in volume
names follows the largest exponent, so the names depend on the number of blocks.

**Loader.** One action per packet taken or skipped, in the order of the code's tests:
magic, length, recovery slices (whose MD5 is not looked at), MD5, kind. Recovery
slices before the first Main packet are put off (`DeferRecovery`, `EndScan`). Volumes
are scanned in any order (`ScanVolume`), each in one step: nothing it reads is changed
meanwhile, and the state it adds to is its own.

**Archive.** The directory: creations, then mishaps to what is there (`Harm`,
`Delete`, `Rename`, `Reorder`: the same packets in another order, as another program
writes them), then one load of any of its files by a path with or without a directory
part. `Mishap` and `Settled` only bound this.

`Verify`'s property `HandsOverVerdict` is the seam between the modules: it says
that what a verification returns is one of the verification results `Repair`
starts from (`VerdictOf`, `Consistent` in `Par2Data`), and `Repair`'s
`ImplementsContract` is what justifies the reduced repair of `Par2Repairer`.

## 3. The runs

| Run | Instance and bounds | What it shows |
|---|---|---|
| `repair_faults` | files of 2, 1 and 0 blocks, one without slice checksums, the last block with the constant of the first; 2 chunks on 2 threads; recovery sets that suffice, have two packets of one exponent, hold a forged packet, or are too many for the field; cancellation and kill at any moment, and either one I/O failure anywhere or one file changed by others since it was verified; 1.2M states | type invariant; the commit invariant; each file is old or whole at every instant; all targets are right before the first is replaced; cancelled calls touched nothing; Ok means repaired; every chunk is processed; failures have a cause; the call returns; it implements `RepairContract` |
| `verify` | files of 2, 1 and 1 blocks, the last two with the same bytes, two other names; 486 layouts; cancellation at any moment, one I/O failure | a set reported whole is whole; the verdict is right; no content is lost; a cancellation is not missed; the call returns |
| `repairer` | files of 2 and 1 blocks, one other name, the two temp names; an index and a volume with two recovery blocks; verification-only, repairing and purging runs without end; one I/O failure, one kill and one cancellation in all | repairable stays repairable; intact stays intact; replaced is whole; recovery files go only while all is whole; Ok is whole; runs end; retrying converges |
| `reed_solomon` | the field of 16 elements; 5 data blocks, 7 recovery blocks, any 3 lost, any recovery blocks left; batches of 2; 61k states | products by logarithms are products in the field; recovery blocks are what the definition says; the record replays the elimination; a choice is refused exactly if a lost block is not determined by it; consecutive exponents never exchange rows; without an exchange the lost blocks come back |
| `rows_exchanged` | the same | the codec's finding in section 5 |
| `archive` | two input files, given against the order of their ids, of 2 and 1 blocks; the second may become shorter, before or during the last call; four sets of options: 2 recovery blocks in a volume each, 2 in a single file, none in a single file, and smaller blocks, which are more than the limit or, once the file is shorter, 3 and 1 with 4 recovery blocks in volumes of 1, 2 and 1; two creations; one mishap: I/O failure, kill, damage to any packet, deletion, renaming, reordering; 304k states | volumes tile; recovery blocks and checksums that load are of the bytes described, in the numbering of the repair; no intact recovery packet is missed or taken twice; a created set loads whole; one intact Main packet suffices; calls return |
| `lost_file`, `bare_name` | the same with one creation, and one mishap or none | two findings of section 5 |
| `repair_renamed`, `repair_errors`, `repair_temps`, `verify_twins` | the instances above with the failures each needs | the other findings of section 5 |

**Why these bounds suffice.** Two targets and one file that is none let the
commit be caught half way and a good file be a source; two chunks on two threads
are the least at which workers interleave and one may see the flag when the
other does not (ranges for all numbers are proved). One file without slice
checksums and one damaged only in length reach the branches of block damage.
One failure at any operation reaches every error path; a second could only hit
the clean-up of the first, which `Abort` allows when the bound is raised. Failures are
combined with an up-to-date verification only (`MaxStaleFailures = 0`): a call on a changed
file takes the same error paths. In
`verify` twins and two free names are the least for two names to compete for one
file. In `repairer` one kill and one failed operation can be placed in different
runs, so that each run's leftovers meet each fault. The files of `repairer` have
different bytes: with twins a file that could not be read for one moment can be
renamed to its twin's name, and "intact stays intact" does not hold of the name.

The field of 16 elements has a group of order 15 = 3 * 5 where the code's has
65535 = 3 * 5 * 17 * 257: ratios of constants of order 3 and 5, which make
matrices singular and rows exchange, occur among its first five constants, as they
do further out in the code's. The decoder is linear in the data, so one block at a
time and one dense sample stand for all contents. Three lost blocks are the least
for an exchange that succeeds; 5 blocks in batches of 2 leave a partial batch.

In `archive` two files are the least that can be numbered wrongly, and their sizes
leave a last block that is not full. Volumes of 1, 2 and 1 blocks, as they are made of the
shorter file, contain a full one and a rest. Two creations with different options leave files of the older set beside
those of the newer, under the same names and under others. One mishap can hit any
packet of any file; two would let a damaged file hide another, which no property here
excludes. Creating again after damage only replaces what was damaged, so the load
follows the mishap (`loading = "due"`), and a second load starts from the same
directory as the first.

**Deadlock** is checked in every run. A returned call, and a directory whose
recovery files are all purged, stutter explicitly, as does an archive that is loaded
or in which the last creation has failed.

**Fairness.** `FairSpec` of `Repair` and `Verify` is weak fairness of the call's
own steps: the thread that runs the call is scheduled, rayon runs every task it
was given, an I/O operation returns. Nobody has to raise the flag or to kill the
process. `ArchiveFairSpec` is the same for the calls of `create` and `load`
(`Busy /\ (CreatorSteps \/ LoaderSteps)`); nobody has to begin one. `RunnerFairSpec` adds that the user starts a run with `do_repair` again
and again (strong fairness, because other runs may come between); that is an
assumption about the user, not about the code, and only `RetryingConverges`
needs it.

## 4. The proofs

Every invariant and every action property that a passing run checks is also a
theorem, for all values of the constants, but one (`StaysRepairable`, see the end of
this section). Two theorems on the pipeline have the hypothesis `NoTwins` and one on the
codec has `EnoughConstants`; without them they are false.

**Basics.** `Basics_proofs` holds what several proofs need and the library does not
give in a form the provers can use: induction and recursion stated with sets and
functions instead of operators (`SetInduction`, `NatRecursion`), sums over finite sets,
facts on sequences, and what the sorting of `Orders` returns.

**Ranges.** The first part of `Repair_proofs` is about `WorkRanges`. For every number of
chunks and of threads the ranges are disjoint (`RangesDisjoint`: the `unsafe impl Sync` of
the result cells is sound) and cover all chunks (`RangesCover`: no cell is left
empty by the distribution). `ChunkSizeFits` and `ChunksTile` prove, for every block
size, thread count, vector unit and setting of `PAR2_MIN_CHUNK`, that the chunk
size is even and fits the block, and that the chunks tile it with no symbol cut in
two; the block sizes are multiples of 4 by the check at `repair.rs` 487.

**Repair.** `Repair_proofs` proves for every finite set of files, block counts, recovery
sets, thread and chunk counts, and numbers of failures and changed files:
`TypeCorrect`, then `CommitInvariant`, from which the other safety theorems
follow. `OldOrIntact` is not inductive by itself: that a rename installs right
bytes needs that every temp is right in the commit phase, which needs that the
gate has checked all of them, that nothing writes a temp after it was checked,
and that `ready` is the whole target set. `CommitInv` says all this, phase by
phase, together with what is renamed so far, and with the clean-up: after the call only a
temp is left whose removal or whose `set_len` failed. `NoChunkSkipped` has an invariant of its own (`WorkInv`:
behind its loop variable a worker has filled its cells unless somebody saw the
flag) and rests on `RangesCover`. `NoFailureWithoutCause`
is the converse of the safety theorems, for every number of blocks and any constants they
have: given none of the causes (`NoCause`, `LostDiffer` included), every good
block has a handle, every chunk is computed right, and behind the cursor of the write
loop no temp has a wrong cell (`RebuildInv`), so that neither the loop nor the gate can
refuse. `NoCause` only ever goes from true to false, which is what makes the implication
inductive. `RepairImplementsContract` maps every step to a step of `RepairContract` or a
stutter.

**Verify.** `Verify_proofs` proves for every finite set of names, all files that share bytes
or do not, every layout of the disk and every number of failures: `VerifyTypeCorrect`,
`CancelNotMissed`, `AllVerifiedAlwaysWhole`, `VerdictHandedOver` and `NothingIsLost`. All
but the last rest on `VerifyInv`, which says pass by pass what has been established. Its
part `ResultInv` does not mention the caller's flag, so that runs can reuse it; `FlagInv`
adds what only cancellation needs.
`AllVerifiedIsWhole` is not inductive: the pass that matches by content marks a file as
there before its rename has happened, and may match several files to copies of the same
bytes. `PlaceInv` therefore gives each located file a copy of its own, which lies at the
name it was found under while the rename is pending and at its own name afterwards.
`SeamInv` relates the statuses and damaged blocks to the contents as long as no name went
unread, which is what repair assumes, and `MapInv` does the same for the damage maps of the
block-level pass. That the first name in scan order is the one taken needs a least rank, which is
taken from the well-foundedness of the naturals. `NothingIsLost` counts the names that
hold a content before and after a rename.

**Pipeline.** `Par2Repairer_proofs` proves for every sequence of runs, with any number of
kills, cancellations and failed operations: `OkAlwaysWhole`, `PurgeIsSafe` and the type
invariant (`RunnerTypes`: a run counts no more recovery blocks than there are and purges no
file twice). The first two rest on `RunInv`:
outside a repair `ResultInv` holds of the disk, `RenamedInv` says that a located file has
its own name once its rename has succeeded, and from the decision to purge on `WholeSet`
holds. The steps of a verification keep it because `Verify_proofs` shows so of `ResultInv`
whatever the listing contains (leftover temps, stale names) and whatever the flag is.
`IntactNeverTouched` and `ReplacedStaysWhole` also need `TempsInv` (what the commit renames
is whole) and the assumption `NoTwins`, that no two files have the same bytes; without it
they are false (section 5).

**Creation.** `Archive_proofs` proves `BlockSizeFits`: for all limits and every total of
bytes, the block size of `calculate_block_size` is a multiple of four, at least the minimum,
and makes no more data blocks of one file of that length than the limit. (Several files
round up one by one; for them `Plan` holds the counts against the limit, as the code
does.) It also proves `VolumesAlwaysTile`, for every number of recovery blocks and cap,
with any interruptions. `VolumesTile` says nothing of the blocks that have been placed
but belong to no volume yet, so it is not inductive: `SplitInv` adds that the end of
the volumes and the current count make up the next exponent.

What loads from a directory depends on what creations have left there, so the module goes
on to an invariant of all of it, `ArchiveInv == SplitInv /\ CreateInv /\ WriteInv /\ DirInv`.
`CreateInv` follows the bytes through the passes: what was hashed is what the files held
(`HashInv`), the entries are sorted by id and the block size and counts fit them
(`PlanInv`), and unless an input has changed under its id (`blurred`) the blocks that were
read are those that were hashed (`FaithInv`). `WriteInv` says that the outputs before the
current one are on disk whole and the current one in part, through the closing of the last
one until a mishap. `DirInv` says that after any number of creations, kills, damages,
renames and reorderings every file holds only packets that some creation has made, damaged
or not.

**Loading.** `Loader_proofs` adds to it `PhaseInv` and `LoadInv`, which are about the load
alone: what the headers and Main packets seen so far have said of set and block size
(`HeaderInv`), that descriptions and checksums come from packets of the given file
(`InfoInv`), that each loaded recovery block comes from a slot, and from one only
(`SliceInv`), and that no intact packet behind the scan was passed over, put-off ones
included (`CoverInv`). From this it proves, for every number of files, blocks, creations and
mishaps and every order in which the directory is listed:

* `IntactMainAlwaysLoads`: one Main packet that no damage touches is enough.
* `IntactRecoveryIsAlwaysLoaded`: every recovery packet of the given file and of the set's
  volumes that no damage touches is loaded, and none twice.
* `LoadedBlocksAreAlwaysRight`: recovery data and checksums are those of the described
  bytes, in the numbering of the repair, as long as no input changed under its id or during
  a call and every listed file is described. This is where the sorting matters: the creator
  sorts its entries by id, the loader what it has found by the Main packet's order, and of
  the same contents both make the same sequence.
* `CreatedSetsLoadWhole`: what was created and not damaged loads whole from any of its files.
* `ArchiveTypes`: the type invariant of creations and loads on one directory.

**Field.** `GaloisField_proofs` proves that the tables make a field of the numbers below
`2^Width`: exclusive or is a commutative group, the product by logarithms is the product of
polynomials modulo `Poly` and distributes over it (the table of powers is built by shifting
and reducing, which is linear), every element but 0 has an inverse. On it rest sums in the
field, a polynomial of degree `d` has at most `d` roots (`FewRoots`, by dividing one root
off after another), and the constants of the blocks differ as long as the exponents that
`generate_par2_constants` skips leave enough of them (`ConstantsDiffer`).

**Codec.** `ReedSolomon_proofs` proves for every field, number of blocks, batch size, loss
and choice of recovery blocks:

* `TablesAlwaysMultiply` and `RecoveryIsAlwaysWeightedSum`: what the encoder leaves is the
  sum that PAR2 defines, whatever the batches. `EncoderInv` says it of the blocks flushed so
  far, and that the coefficients multiplied up are the powers.
* `RecordAlwaysReplays`: at every step of the elimination the record, replayed on a column
  of the original matrix with its rows where `row_order` has them, gives the column as it is
  now. A later exchange of rows commutes with the recorded steps, because these use only the
  pivot row of their column and the code exchanges the factors of earlier columns along.
* `SingularAlwaysGenuine`: the elimination gives up only at a column of the original matrix
  that is a combination of those before it, which is to say that the lost blocks are not
  determined, and comes through only if there is none. A replay is linear and injective, so
  a combination of columns of the eliminated matrix is one of the original's, and back.
* `DistinctAlwaysSolved`: consecutive exponents restore any loss in which no two blocks
  share a constant, without an exchange of rows. A pivot of 0 in column `c` would make a
  polynomial of degree `c - 1` vanish at the constants of `c` lost blocks. This is what the
  repair relies on. `ConsecutiveAlwaysSolved` adds that constants do not repeat as long as
  there are enough (`EnoughConstants`): in the code's field up to 32768 data blocks.
* `UnmovedAlwaysRestores`: without an exchange what is written is what was lost. The
  complete record takes each column to a column of the identity (`SolvedInv`), so the replay
  of the accumulated sums leaves the lost blocks; `SumInv` says so of a replay in progress.
* `CodecTypes`: the type invariant.

The invariant is `CodecInv`, the conjunction of what is named above with `LossInv` (what a
loss is and which recovery blocks are used), `RecordInv` and `OutputInv` (the shapes of the
record and of the accumulators). It does not matter to it whether rows were exchanged; only
`SumInv` asks (`Unmoved`), and the finding `rows_exchanged` shows that it has to.

The assumptions are those named in the modules and TLC evaluates them in the runs:
`RangeAssumption`, `DataAssumption`, `RepairAssumption`, `VerifyAssumption`,
`RepairerAssumption`; `ContentAssumption` (an id belongs to one file and one length, as it
hashes both), `CreatorAssumption`, `LoaderAssumption`; `FieldAssumption` (the powers of the
generator are all the elements but 0, which is what `PRIMITIVE_POLY` is chosen for; the code
has `Width = 16` and `Poly = 0x1100B`) and `CodeAssumption`. To reason about the field the
powers and the exclusive or are recursive functions, not RECURSIVE operators.

Only model-checked:

* `StaysRepairable`, which does not hold for every number of failures (section 5);
* the liveness properties `CallReturns`, `VerifyReturns`, `RunEnds`, `RetryingConverges` and
  `CallsReturn`: liveness under fairness is beyond the prover.

## 5. What the models found

* `rows_exchanged`: when the elimination exchanges rows, `vandermonde_coeffs`
  stays in the old order (`par2_rs.rs` 405) while the recovery blocks are loaded in
  the new one (493): `reconstruct_streaming_chunk` returns Ok with wrong blocks. It
  takes three lost blocks, recovery exponents with a gap and constants whose ratio
  has a small order; the check of the temps then refuses the result, so the files
  are safe but the repair fails although there is enough recovery data.
* `repair_renamed`: a file found under another name is renamed, but
  `verified_files` keeps the old path (`verify.rs` 326), so the repair in the
  same run cannot read it and fails, although the README says renamed files work.
  The next run succeeds.
* `repair_errors`: `lib.rs` 180 promises that any error leaves every original
  byte-identical; a rename that fails after another has succeeded returns an
  error with one file replaced (by its right bytes: `OldOrIntact` holds).
* `repair_temps`: `repair.rs` 467 promises that on any error before the renames all temp
  files are deleted, and 764 that every temp that is created is tracked; a temp is listed
  for removal only after its `set_len` has succeeded (758), and stays if that fails.
* `verify_twins`: two protected files with the same bytes, both misnamed: both
  copies are matched with the same id and one file is reported missing.
* `lost_file`: descriptions of files are only read from the file that is loaded
  (`parser.rs` 351), although they are repeated in every volume; a file whose
  description is damaged there disappears from the set, and nothing notices that the
  Main packet lists it. What is not in the set is not verified, and a purge
  deletes its recovery data.
* `bare_name`: a path without directory part, as in the example of `info.rs` 15,
  has the empty parent, which cannot be listed (`parser.rs` 436): no volume is found.

Noticed on the way, with no statement in the repository to hold them against, or out
of what the runs contain:

* The limit of 65535 data blocks (`creator.rs` 316) exceeds the 32768 constants that
  `generate_par2_constants` can give; beyond them constants repeat, and two lost blocks
  of one constant cannot be restored from any recovery blocks (`LostDiffer`).
* The Single scheme without recovery blocks makes no volume and `volumes[0]` panics
  (`creator.rs` 466); `FinishSingle` takes this step.
* The search for a block size leaves no room for recovery blocks below the limit
  (`creator.rs` 61): options that would fit a larger block size are refused.
* A set created again from a file that changed beyond its first 16 KiB has the id of the
  older one: volumes that are not overwritten mix in (`creator.rs` 483; history
  variable `blurred`). The same holds of a source that changes between the hash pass and
  the encoding pass (372, 377) without becoming shorter.
* Inputs of the same name from different directories and with the same first bytes and
  length get one id (`creator.rs` 117).
* An error or a kill leaves the files written so far (`creator.rs` 490), which the next
  load takes up; the blocks in them are right.
* A damaged length that stays within the file makes the scan jump over what it takes in
  (`parser.rs` 318 on); a volume whose first header is damaged is ignored
  (`parser.rs` 468). Both are exceptions in `IntactRecoveryIsLoaded`.
* Two files with the same bytes: if the whole one cannot be read for a moment, the pass by
  content gives it the name of the missing one (`verify.rs` 326). The bytes are kept,
  but not under the name that had them, and the next run renames or repairs again.
* A killed run can leave a whole temp as the only copy of a file. If the next run matches
  it, fails to rename it (`verify.rs` 353, only a warning) and fails half way through the
  purge, and the run after that cannot read the temp, its repair truncates it with
  part of the recovery data gone (found with `MaxFailures = 3`). `PurgedIsWhole`
  holds at each deletion; `StaysRepairable` is checked for one failure only.
* A flag raised after the commit gives Cancelled with files replaced (`lib.rs` 298;
  documented at 182).

## 6. Not modelled

* Progress reporting and messages, in every module. (The counter of chunks and its
  callback are two steps, `repair.rs` 964: reports may come out of order.)
* A kill keeps what was written: a page cache lost with the power is not modelled.
* Two processes on one directory, but as files changed between verification and repair or
  during a creation.
* In `Creator`: input files of different directories (they count as of one), a file that
  changes while its hash is taken (hashing one file is one step), the calculation of the
  redundancy in floating point (integers here).
* In `Loader`: the layout, padding and alignment of bytes, body layouts that do not fit
  their length, damage to an exponent, a set id damaged into that of another set.
* `par2_rs.rs`: `encode`, which nothing calls, the buffer pool, batch sizes by machine.
* SIMD back ends, `galois/streaming.rs`, hash functions and the command lines: data paths
  without control, or glue. Their bit-level work is what the repository's differential
  tests under `tests/galois` compare.

Left for later: what remains of `StaysRepairable` as a theorem when renames and
deletions do not fail.
