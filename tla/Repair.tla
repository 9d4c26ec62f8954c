------------------------------- MODULE Repair -------------------------------
(***************************************************************************)
(* repair_files_with_messages (src/repair.rs): one call, from the          *)
(* verification result it is handed to its return.                         *)
(*                                                                         *)
(* Everything is written to sibling <name>.par2tmp files; the protected    *)
(* files are replaced, one rename after another, only when every temp has  *)
(* passed verification.  Around the call the environment may raise the     *)
(* cancellation flag at any moment, an I/O operation may fail, and the     *)
(* process may be killed.                                                  *)
(***************************************************************************)
EXTENDS Par2Data

CONSTANTS
  Recovery,      \* the recovery packets that may be loaded
  Exponent,      \* [Recovery -> Nat]
  Authentic,     \* those whose bytes are what the creator wrote
  RecoverySets,  \* the sets of packets a run may have loaded
  BlockConstant, \* [AllBlocks -> Nat]: what generate_par2_constants gives each data block
  MaxBlocks,     \* MAX_BLOCKS
  MaxFailures,   \* bound: I/O operations that may fail in one call
  MaxStaleFailures,  \* the same for a call on files that were changed since
  MaxChanged     \* bound: files changed by others since they were verified

FileBlocks(S) == UNION {{f} \X Blocks(f) : f \in S}
AllBlocks == FileBlocks(Files)

ASSUME RepairAssumption ==
  /\ Exponent \in [Recovery -> Nat]
  /\ BlockConstant \in [AllBlocks -> Nat]
  /\ Authentic \subseteq Recovery
  /\ RecoverySets \subseteq SUBSET Recovery
  /\ IsFiniteSet(Files)
  /\ {MaxBlocks, MaxFailures, MaxStaleFailures, MaxChanged} \subseteq Nat

VARIABLES
  vr,         \* the VerificationResult
  recovery,   \* par2_data.recovery_blocks
  disk,       \* the content at each file's own path
  disk0,      \* disk when the call began (history)
  temp,       \* the content at each file's <name>.par2tmp
  cancel,     \* the caller's cancellation flag
  observed,   \* observed_cancel: some worker saw the flag
  pc,         \* the phase of the call
  outcome,    \* what the call returned
  ready,      \* the keys of temp_to_final: targets whose temp is set up
  inputs,     \* the keys of input_files: files with an open read handle
  used,       \* the recovery blocks taken for the reconstruction
  nextChunk,  \* the loop variable of each worker
  cell,       \* results: what is known of each chunk's reconstruction
  cursor,     \* the chunk the write loop is at
  checked,    \* temps the pre-rename gate has accepted
  renamed,    \* temps renamed into place
  failures,   \* the number of I/O operations that have failed (history)
  unsized,    \* temps whose set_len failed (history)
  stuck       \* temps whose removal failed (history)

callVars    == <<vr, recovery, disk0>>
setupVars   == <<ready, inputs, used>>
computeVars == <<observed, nextChunk, cell>>
commitVars  == <<checked, renamed>>
historyVars == <<failures, unsized, stuck>>
vars == <<callVars, disk, temp, cancel, pc, outcome, setupVars, computeVars, cursor,
          commitVars, historyVars>>

Phases   == {"start", "setup", "prepare", "compute", "write", "gate", "commit", "done"}
Outcomes == {"running", "ok", "cancelled", "invalid", "insufficient", "failed", "io",
             "crashed"}

-----------------------------------------------------------------------------
(* What the call reads from the verification result.                       *)

Targets == vr.missing \cup vr.damaged

\* damaged_block_indices as <<file, block in file>>: every block of a missing file
\* and, of a damaged one, the blocks its entry names or, without an entry, all.
Lost ==
  FileBlocks(vr.missing) \cup
  UNION {{f} \X (IF f \in vr.mapped THEN vr.badBlocks[f] ELSE Blocks(f)) : f \in vr.damaged}

Good == AllBlocks \ Lost

\* Mutant: takes packets that were not loaded.
AnyExponents(n) == {U \in SUBSET Recovery : Cardinality(U) = n}

\* What a sort by exponent and take(n) leaves.  The sort is stable and packets of
\* equal exponent come in the order the directory listing gave, which may be any.
LowestExponents(n) ==
  {U \in SUBSET recovery : /\ Cardinality(U) = n
                           /\ \A u \in U, r \in recovery \ U : Exponent[u] <= Exponent[r]}

SameExponent(U) == \E u, w \in U : u # w /\ Exponent[u] = Exponent[w]

\* No two lost blocks share a constant.  Up to 32768 data blocks none do; the constants of
\* the blocks beyond repeat those of the first.
LostDiffer == \A b, c \in Lost : BlockConstant[b] = BlockConstant[c] => b = c

\* Different constants and consecutive exponents give a Vandermonde matrix with scaled
\* columns: the elimination finds a pivot in every row as it stands (DistinctAlwaysSolved
\* of ReedSolomon_proofs).
AlwaysSolvable(U) ==
  /\ LostDiffer
  /\ \A u, w \in U : /\ u # w => Exponent[u] # Exponent[w]
                     /\ Exponent[w] < Exponent[u] + Cardinality(U)

\* An elimination that exchanges rows is replayed on the wrong rows of the good blocks
\* (OkMeansRestored of ReedSolomon).  It takes a row beyond the second.
RowsStay(U) == AlwaysSolvable(U) \/ Cardinality(U) <= 2 \/ Good = {}

\* The content file_paths leads to: the file's own path, except for a file that was
\* verified under another name.
SourceOf(f) == IF vr.path[f] = "extra" THEN Intact ELSE disk[f]

Readable(f) == vr.path[f] \in {"own", "extra"} /\ SourceOf(f).len # "none"

\* Every byte that goes into chunk c of the reconstruction is the right one, and goes
\* where it belongs.
RightInput(c) ==
  /\ used \subseteq Authentic
  /\ RowsStay(used)
  /\ \A b \in Good : <<b[2], c>> \notin SourceOf(b[1]).bad

Malformed ==
  \/ Cardinality(AllBlocks) > MaxBlocks
  \/ Cardinality(AllBlocks) + Cardinality(recovery) > MaxBlocks

\* The verification result describes the files as they were when the call began.
UpToDate ==
  vr = VerdictOf(disk0, [f \in Files |-> IF vr.path[f] = "none" THEN "own" ELSE vr.path[f]])

\* The bound on the failures of this call.
FailureBound == IF UpToDate THEN MaxFailures ELSE MaxStaleFailures

-----------------------------------------------------------------------------
Init ==
  /\ \E seen \in Disks, at \in [Files -> {"own", "extra", "gone"}] :
       /\ Consistent(seen, at)
       /\ vr = VerdictOf(seen, at)
       /\ disk \in {d \in Disks : Cardinality({f \in Files : d[f] # seen[f]}) <= MaxChanged}
  /\ Targets # {}
  /\ recovery \in RecoverySets
  /\ disk0 = disk
  /\ temp = [f \in Files |-> Absent]
  /\ cancel = FALSE
  /\ observed = FALSE
  /\ pc = "start"
  /\ outcome = "running"
  /\ ready = {} /\ inputs = {} /\ used = {}
  /\ nextChunk = [t \in Threads |-> RangeStart(t)]
  /\ cell = [c \in Chunks |-> [st |-> "none", wrong |-> {}]]
  /\ cursor = 0
  /\ checked = {} /\ renamed = {}
  /\ failures = 0 /\ unsized = {} /\ stuck = {}

Return(o) == pc' = "done" /\ outcome' = o

\* An error return once temps exist, `tmp` being the temps on disk, `made` the list
\* handed to cleanup_temp_files and n the failures that led here.  Cleanup is best
\* effort: a removal that fails is logged and leaves its temp.
Abort(o, tmp, made, n) ==
  /\ Return(o)
  /\ \E keep \in SUBSET {f \in made : tmp[f] # Absent} :
       /\ failures' = failures + n + Cardinality(keep)
       /\ failures' <= FailureBound
       /\ temp' = [f \in Files |-> IF f \in made \ keep THEN Absent ELSE tmp[f]]
       /\ stuck' = keep
  /\ UNCHANGED <<callVars, disk, cancel, setupVars, computeVars, cursor, commitVars>>

\* A step of the call that leaves the failure history alone.
NoFailure == UNCHANGED historyVars

-----------------------------------------------------------------------------
(* Before any temp file exists.                                            *)

\* The block counts exceed GF(2^16).
RejectSet ==
  /\ pc = "start" /\ Malformed
  /\ Return("invalid")
  /\ UNCHANGED <<callVars, disk, temp, cancel, setupVars, computeVars, cursor, commitVars>>
  /\ NoFailure

\* No block to rebuild: the call succeeds at once.
NothingLost ==
  /\ pc = "start" /\ ~Malformed /\ Lost = {}
  /\ Return("ok")
  /\ UNCHANGED <<callVars, disk, temp, cancel, setupVars, computeVars, cursor, commitVars>>
  /\ NoFailure

Insufficient ==
  /\ pc = "start" /\ ~Malformed
  /\ Cardinality(Lost) > Cardinality(recovery)
  /\ Return("insufficient")
  /\ UNCHANGED <<callVars, disk, temp, cancel, setupVars, computeVars, cursor, commitVars>>
  /\ NoFailure

\* Take the recovery blocks of the lowest exponents, one for each lost block.
SelectRecovery ==
  /\ pc = "start" /\ ~Malformed /\ Lost # {}
  /\ Cardinality(Lost) <= Cardinality(recovery)
  /\ used' \in LowestExponents(Cardinality(Lost))
  /\ pc' = "setup"
  /\ UNCHANGED <<callVars, disk, temp, cancel, outcome, ready, inputs, computeVars, cursor,
                 commitVars>>
  /\ NoFailure

-----------------------------------------------------------------------------
(* Setup: one temp for each target, the missing files first.               *)

NextTarget(f) ==
  /\ pc = "setup"
  /\ f \in Targets \ ready
  /\ f \in vr.damaged => vr.missing \subseteq ready

Zeroed(f)    == [len |-> "exact", bad |-> Cells(f)]
Truncated(f) == [len |-> IF NumBlocks[f] = 0 THEN "exact" ELSE "short", bad |-> Cells(f)]

\* A fresh temp of the final length.
SetUpMissing(f) ==
  /\ NextTarget(f) /\ f \in vr.missing
  /\ temp' = [temp EXCEPT ![f] = Zeroed(f)]
  /\ ready' = ready \cup {f}
  /\ UNCHANGED <<callVars, disk, cancel, pc, outcome, inputs, used, computeVars, cursor,
                 commitVars>>
  /\ NoFailure

\* Mutant: does not copy the blocks that survive.
SetUpDamagedNoCopy(f) ==
  /\ NextTarget(f) /\ f \in vr.damaged
  /\ disk[f].len # "none"
  /\ temp' = [temp EXCEPT ![f] = Zeroed(f)]
  /\ ready' = ready \cup {f}
  /\ inputs' = inputs \cup {f}
  /\ UNCHANGED <<callVars, disk, cancel, pc, outcome, used, computeVars, cursor, commitVars>>
  /\ NoFailure

\* Open the original for reading and copy what it has of the final length.
SetUpDamaged(f) ==
  /\ NextTarget(f) /\ f \in vr.damaged
  /\ disk[f].len # "none"
  /\ temp' = [temp EXCEPT ![f] = [len |-> "exact", bad |-> disk[f].bad]]
  /\ ready' = ready \cup {f}
  /\ inputs' = inputs \cup {f}
  /\ UNCHANGED <<callVars, disk, cancel, pc, outcome, used, computeVars, cursor, commitVars>>
  /\ NoFailure

\* The damaged original has gone since it was verified: opening it fails.
SetUpGone(f) ==
  /\ NextTarget(f) /\ f \in vr.damaged
  /\ disk[f].len = "none"
  /\ Abort("io", temp, ready, 0)
  /\ UNCHANGED unsized

\* An I/O failure in setup: opening a file, sizing the temp (which created_temps
\* does not list yet), or copying into it.
SetUpFails(f) ==
  /\ NextTarget(f)
  /\ \/ /\ Abort("io", temp, ready, 1)
        /\ UNCHANGED unsized
     \/ /\ Abort("io", [temp EXCEPT ![f] = Truncated(f)], ready, 1)
        /\ unsized' = {f}
     \/ /\ f \in vr.damaged
        /\ Abort("io", [temp EXCEPT ![f] = Zeroed(f)], ready \cup {f}, 1)
        /\ UNCHANGED unsized

SetUpCancelled ==
  /\ pc = "setup" /\ ready = Targets /\ cancel
  /\ Abort("cancelled", temp, ready, 0)
  /\ UNCHANGED unsized

\* Open the other files; one that cannot be opened is silently left out.
OpenInputs ==
  /\ pc = "setup" /\ ready = Targets /\ ~cancel
  /\ LET openable == {f \in Files \ Targets : Readable(f)}
     IN  \E fail \in SUBSET openable :
           /\ failures' = failures + Cardinality(fail)
           /\ failures' <= FailureBound
           /\ inputs' = inputs \cup (openable \ fail)
  /\ pc' = "prepare"
  /\ UNCHANGED <<callVars, disk, temp, cancel, outcome, ready, used, computeVars, cursor,
                 commitVars, unsized, stuck>>

\* compute_reconstruction_transform: equal exponents are equal rows and equal constants
\* equal columns; other rows of exponents that are not consecutive may also be dependent.
Unsolvable ==
  /\ pc = "prepare" /\ ~AlwaysSolvable(used)
  /\ Abort("failed", temp, ready, 0)
  /\ UNCHANGED unsized

PrepareTransform ==
  /\ pc = "prepare" /\ ~SameExponent(used) /\ LostDiffer
  /\ pc' = "compute"
  /\ UNCHANGED <<callVars, disk, temp, cancel, outcome, setupVars, computeVars, cursor,
                 commitVars>>
  /\ NoFailure

-----------------------------------------------------------------------------
(* Compute: the workers fill the cells of their own ranges.                *)

Working(t) == pc = "compute" /\ t \in Spawned /\ nextChunk[t] < RangeEnd(t)

\* Mutant: a worker that sees the flag does not leave its loop.
WorkerIgnoresStop(t) ==
  /\ Working(t) /\ (cancel \/ observed)
  /\ observed' = TRUE
  /\ UNCHANGED <<callVars, disk, temp, cancel, pc, outcome, setupVars, nextChunk, cell,
                 cursor, commitVars>>
  /\ NoFailure

\* A worker that sees the flag, or that another has seen it, leaves its loop.
WorkerStops(t) ==
  /\ Working(t) /\ (cancel \/ observed)
  /\ observed' = TRUE
  /\ nextChunk' = [nextChunk EXCEPT ![t] = RangeEnd(t)]
  /\ UNCHANGED <<callVars, disk, temp, cancel, pc, outcome, setupVars, cell, cursor,
                 commitVars>>
  /\ NoFailure

StoreCell(t, result) ==
  /\ cell' = [cell EXCEPT ![nextChunk[t]] = result]
  /\ nextChunk' = [nextChunk EXCEPT ![t] = @ + 1]
  /\ UNCHANGED <<callVars, disk, temp, cancel, pc, outcome, setupVars, observed, cursor,
                 commitVars>>

\* process_chunk: a good block whose file has no handle is an error; wrong input may
\* spoil any of the rebuilt blocks.
WorkerChunk(t) ==
  /\ Working(t) /\ ~cancel /\ ~observed
  /\ \/ /\ \A b \in Good : b[1] \in inputs
        /\ \E W \in SUBSET Lost : /\ RightInput(nextChunk[t]) => W = {}
                                  /\ StoreCell(t, [st |-> "ok", wrong |-> W])
     \/ /\ \E b \in Good : b[1] \notin inputs
        /\ StoreCell(t, [st |-> "err", wrong |-> {}])
  /\ NoFailure

\* A read of a block or of a recovery packet fails.
WorkerReadFails(t) ==
  /\ Working(t) /\ ~cancel /\ ~observed
  /\ failures < FailureBound
  /\ failures' = failures + 1
  /\ StoreCell(t, [st |-> "err", wrong |-> {}])
  /\ UNCHANGED <<unsized, stuck>>

AllJoined == \A t \in Spawned : nextChunk[t] >= RangeEnd(t)

JoinCancelled ==
  /\ pc = "compute" /\ AllJoined /\ (observed \/ cancel)
  /\ Abort("cancelled", temp, ready, 0)
  /\ UNCHANGED unsized

JoinWorkers ==
  /\ pc = "compute" /\ AllJoined /\ ~observed /\ ~cancel
  /\ pc' = "write"
  /\ UNCHANGED <<callVars, disk, temp, cancel, outcome, setupVars, computeVars, cursor,
                 commitVars>>
  /\ NoFailure

-----------------------------------------------------------------------------
(* Write: the cells go to the temps one chunk after another.               *)

\* The bad cells of f's temp once chunk c has been written to it.
Written(f, c) ==
  LET lost == {b \in Blocks(f) : <<f, b>> \in Lost}
  IN  (temp[f].bad \ (lost \X {c})) \cup
      {<<b, c>> : b \in {i \in lost : <<f, i>> \in cell[c].wrong}}

\* Mutant: rebuilt blocks of a damaged file go to the original.
WriteChunkInPlace ==
  /\ pc = "write" /\ cursor < NumChunks
  /\ cell[cursor].st = "ok"
  /\ disk' = [f \in Files |-> IF f \in vr.damaged
                              THEN [len |-> disk[f].len, bad |-> Written(f, cursor)]
                              ELSE disk[f]]
  /\ temp' = [f \in Files |-> IF f \in ready
                              THEN [len |-> temp[f].len, bad |-> Written(f, cursor)]
                              ELSE temp[f]]
  /\ cursor' = cursor + 1
  /\ UNCHANGED <<callVars, cancel, pc, outcome, setupVars, computeVars, commitVars>>
  /\ NoFailure

WriteChunk ==
  /\ pc = "write" /\ cursor < NumChunks
  /\ cell[cursor].st = "ok"
  /\ temp' = [f \in Files |-> IF f \in ready
                              THEN [len |-> temp[f].len, bad |-> Written(f, cursor)]
                              ELSE temp[f]]
  /\ cursor' = cursor + 1
  /\ UNCHANGED <<callVars, disk, cancel, pc, outcome, setupVars, computeVars, commitVars>>
  /\ NoFailure

\* The cell holds an error, or no worker has filled it.
WriteNoResult ==
  /\ pc = "write" /\ cursor < NumChunks
  /\ cell[cursor].st # "ok"
  /\ Abort("failed", temp, ready, 0)
  /\ UNCHANGED unsized

WriteFails ==
  /\ pc = "write" /\ cursor < NumChunks
  /\ cell[cursor].st = "ok"
  /\ Abort("io", temp, ready, 1)
  /\ UNCHANGED unsized

WriteCancelled ==
  /\ pc = "write" /\ cursor = NumChunks /\ cancel
  /\ Abort("cancelled", temp, ready, 0)
  /\ UNCHANGED unsized

FinishWrite ==
  /\ pc = "write" /\ cursor = NumChunks /\ ~cancel
  /\ pc' = "gate"
  /\ UNCHANGED <<callVars, disk, temp, cancel, outcome, setupVars, computeVars, cursor,
                 commitVars>>
  /\ NoFailure

-----------------------------------------------------------------------------
(* Gate: every temp is verified before the first rename.                   *)

AtGate(f) == pc = "gate" /\ f \in ready \ checked

GateCancelled(f) ==
  /\ AtGate(f) /\ cancel
  /\ Abort("cancelled", temp, ready, 0)
  /\ UNCHANGED unsized

\* Mutant: accepts a temp by its size.
GateAcceptsSize(f) ==
  /\ AtGate(f) /\ ~cancel
  /\ temp[f].len = "exact"
  /\ checked' = checked \cup {f}
  /\ UNCHANGED <<callVars, disk, temp, cancel, pc, outcome, setupVars, computeVars, cursor,
                 renamed>>
  /\ NoFailure

GateAccepts(f) ==
  /\ AtGate(f) /\ ~cancel
  /\ temp[f] = Intact
  /\ checked' = checked \cup {f}
  /\ UNCHANGED <<callVars, disk, temp, cancel, pc, outcome, setupVars, computeVars, cursor,
                 renamed>>
  /\ NoFailure

GateRefuses(f) ==
  /\ AtGate(f) /\ ~cancel
  /\ temp[f] # Intact
  /\ Abort("failed", temp, ready, 0)
  /\ UNCHANGED unsized

GateFails(f) ==
  /\ AtGate(f) /\ ~cancel
  /\ Abort("io", temp, ready, 1)
  /\ UNCHANGED unsized

\* Mutant: the commit starts when the first temp has passed.
OpenGateAfterFirst ==
  /\ pc = "gate" /\ checked # {}
  /\ pc' = "commit"
  /\ UNCHANGED <<callVars, disk, temp, cancel, outcome, setupVars, computeVars, cursor,
                 commitVars>>
  /\ NoFailure

OpenGate ==
  /\ pc = "gate" /\ checked = ready
  /\ pc' = "commit"
  /\ UNCHANGED <<callVars, disk, temp, cancel, outcome, setupVars, computeVars, cursor,
                 commitVars>>
  /\ NoFailure

-----------------------------------------------------------------------------
(* Commit: the temps are renamed one after another; no flag is read here.  *)

Rename(f) ==
  /\ pc = "commit" /\ f \in ready \ renamed
  /\ disk' = [disk EXCEPT ![f] = temp[f]]
  /\ temp' = [temp EXCEPT ![f] = Absent]
  /\ renamed' = renamed \cup {f}
  /\ UNCHANGED <<callVars, cancel, pc, outcome, setupVars, computeVars, cursor, checked>>
  /\ NoFailure

\* Mutant: the commit loop reads the cancellation flag.
RenameCancelled(f) ==
  /\ pc = "commit" /\ f \in ready \ renamed /\ cancel
  /\ Abort("cancelled", temp, ready \ renamed, 0)
  /\ UNCHANGED unsized

\* Mutant: a rename that fails is logged and passed over.
RenameFailsLogged(f) ==
  /\ pc = "commit" /\ f \in ready \ renamed
  /\ failures < FailureBound
  /\ failures' = failures + 1
  /\ renamed' = renamed \cup {f}
  /\ UNCHANGED <<callVars, disk, temp, cancel, pc, outcome, setupVars, computeVars, cursor,
                 checked, unsized, stuck>>

\* Mutant: the temps that were not renamed stay.
RenameFailsKeepsTemps(f) ==
  /\ pc = "commit" /\ f \in ready \ renamed
  /\ Abort("io", temp, {}, 1)
  /\ UNCHANGED unsized

\* The first rename that fails ends the loop: the temps that are left are removed,
\* the files renamed before it stay replaced.
RenameFails(f) ==
  /\ pc = "commit" /\ f \in ready \ renamed
  /\ Abort("io", temp, ready \ renamed, 1)
  /\ UNCHANGED unsized

Finish ==
  /\ pc = "commit" /\ renamed = ready
  /\ Return("ok")
  /\ UNCHANGED <<callVars, disk, temp, cancel, setupVars, computeVars, cursor, commitVars>>
  /\ NoFailure

-----------------------------------------------------------------------------
(* The environment.                                                        *)

RequestCancel ==
  /\ pc # "done" /\ ~cancel
  /\ cancel' = TRUE
  /\ UNCHANGED <<callVars, disk, temp, pc, outcome, setupVars, computeVars, cursor,
                 commitVars>>
  /\ NoFailure

\* The process is killed: what is on disk stays as it is.
Crash ==
  /\ pc # "done"
  /\ Return("crashed")
  /\ UNCHANGED <<callVars, disk, temp, cancel, setupVars, computeVars, cursor, commitVars>>
  /\ NoFailure

Step ==
  \/ RejectSet \/ NothingLost \/ Insufficient \/ SelectRecovery
  \/ \E f \in Files : SetUpMissing(f) \/ SetUpDamaged(f) \/ SetUpGone(f) \/ SetUpFails(f)
  \/ SetUpCancelled \/ OpenInputs \/ Unsolvable \/ PrepareTransform
  \/ \E t \in Threads : WorkerStops(t) \/ WorkerChunk(t) \/ WorkerReadFails(t)
  \/ JoinCancelled \/ JoinWorkers
  \/ WriteChunk \/ WriteNoResult \/ WriteFails \/ WriteCancelled \/ FinishWrite
  \/ \E f \in Files : GateCancelled(f) \/ GateAccepts(f) \/ GateRefuses(f) \/ GateFails(f)
  \/ OpenGate
  \/ \E f \in Files : Rename(f) \/ RenameFails(f)
  \/ Finish

\* The call has returned.
Returned == pc = "done" /\ UNCHANGED vars

Next == Step \/ RequestCancel \/ Crash \/ Returned

Spec == Init /\ [][Next]_vars

\* The thread that runs the call and the pool's threads are scheduled, and an I/O
\* operation returns; nobody has to cancel or to kill the process.
FairSpec == Spec /\ WF_vars(Step)

-----------------------------------------------------------------------------
(* Properties.                                                             *)

\* Every variable has its type.
TypeOK ==
  /\ vr \in Verdicts
  /\ recovery \subseteq Recovery /\ used \subseteq recovery
  /\ disk0 \in [Files -> Contents] /\ disk \in [Files -> Contents]
  /\ temp \in [Files -> Contents]
  /\ cancel \in BOOLEAN /\ observed \in BOOLEAN
  /\ pc \in Phases /\ outcome \in Outcomes
  /\ ready \subseteq Targets /\ inputs \subseteq Files
  /\ nextChunk \in [Threads -> Nat]
  /\ cell \in [Chunks -> [st : {"none", "ok", "err"}, wrong : SUBSET Lost]]
  /\ cursor \in 0 .. NumChunks
  /\ checked \subseteq Files /\ renamed \subseteq Files
  /\ failures \in Nat /\ unsized \subseteq Files /\ stuck \subseteq Files

\* At any instant, a killed process included, each file is byte for byte what it was or
\* has its protected content: wrong input, failed I/O and half-written temps never show.
OldOrIntact == \A f \in Files : disk[f] = disk0[f] \/ disk[f] = Intact

\* The first file is replaced only when the replacement of every target is right, so a
\* set that cannot be rebuilt as a whole is left alone as a whole.
AllVerifiedBeforeAny ==
  [][disk' # disk => \A f \in Targets : temp[f] = Intact \/ disk[f] = Intact]_vars

\* A call that returns Cancelled has left every original as it was.
CancelledUntouched == outcome = "cancelled" => disk = disk0

\* A call that returns Ok with something to rebuild has replaced every target and left
\* no temp.
OkMeansRepaired ==
  outcome = "ok" /\ Lost # {} =>
    \A f \in Targets : disk[f] = Intact /\ temp[f] = Absent

\* "Track every temp file we create so we can clean up on any failure": whatever way the
\* call returns, no temp is left but one whose removal failed.
TempsGone ==
  outcome \notin {"running", "crashed"} =>
    \A f \in Files : temp[f] # Absent => f \in stuck

\* The static ranges give every chunk to a worker: when the write loop runs, no cell is
\* empty ("Chunk was not processed" is not reached).
EveryChunkProcessed == pc = "write" => \A c \in Chunks : cell[c].st # "none"

\* What EveryChunkProcessed rests on: as long as no worker has seen a cancellation, the
\* cells of a worker's range behind its loop variable are filled.
WorkInv ==
  /\ ~observed => \A t \in Threads, c \in Chunks :
                    RangeStart(t) <= c /\ c < nextChunk[t] => cell[c].st # "none"
  /\ EveryChunkProcessed

\* The strengthening the safety theorems rest on.  Before the commit phase nothing on
\* disk has changed and every temp belongs to a target that is set up; the gate leaves
\* only right temps to the commit phase; a replaced file is intact and the others are
\* as they were, however the call ends; and every temp that created_temps lists is removed,
\* or its removal has failed.
CommitInv ==
  /\ (pc = "done") <=> (outcome # "running")
  /\ pc = "start" => ready = {}
  /\ pc \notin {"start", "done"} => Lost # {}
  /\ pc \notin {"gate", "commit", "done"} => checked = {}
  /\ pc \notin {"commit", "done"} => renamed = {}
  /\ pc \in {"prepare", "compute", "write", "gate", "commit"} => ready = Targets
  /\ pc = "gate" => \A f \in checked : temp[f] = Intact
  /\ pc = "commit" => \A f \in Targets \ renamed : temp[f] = Intact
  /\ renamed \subseteq Targets
  /\ \A f \in renamed : disk[f] = Intact /\ temp[f] = Absent
  /\ \A f \in Files \ renamed : disk[f] = disk0[f]
  /\ outcome = "cancelled" => renamed = {}
  /\ outcome = "ok" /\ Lost # {} => renamed = Targets
  /\ pc # "done" => \A f \in Files : temp[f] # Absent => f \in ready
  /\ outcome \notin {"running", "crashed"} =>
       \A f \in Files : temp[f] # Absent => f \in stuck \cup unsized

\* RepairFailed has a cause outside the algorithm: failed I/O, files changed since they
\* were verified, recovery packets that are forged or not consecutive, lost blocks of one
\* constant, or a verified path that is gone.  Given none of these, enough recovery blocks
\* repair the set.
FailureHasCause ==
  outcome = "failed" =>
    \/ failures > 0
    \/ ~UpToDate
    \/ ~(used \subseteq Authentic)
    \/ ~AlwaysSolvable(used)
    \/ \E b \in Good : vr.path[b[1]] = "gone"

\* "Content-based file matching (works with renamed files)": an intact file that was only
\* misnamed counts as intact, so repair fails for one of the other causes or not at all.
RenamedFilesCount ==
  outcome = "failed" =>
    \/ failures > 0
    \/ ~UpToDate
    \/ ~(used \subseteq Authentic)
    \/ ~AlwaysSolvable(used)

\* "a cancellation (or any error) during repair leaves every original data file
\* byte-identical to before the call".
ErrorsLeaveOriginals ==
  outcome \in {"cancelled", "invalid", "insufficient", "failed", "io"} => disk = disk0

\* The call returns, cancelled or not, whatever fails.
CallReturns == <>(pc = "done")

\* The call keeps the contract its doc comment states.
Contract == INSTANCE RepairContract
              WITH todo     <- IF Lost = {} THEN {} ELSE Targets,
                   replaced <- renamed,
                   result   <- IF outcome \in {"running", "ok", "cancelled"}
                               THEN outcome ELSE "broken"
ImplementsContract == Contract!Spec
=============================================================================
