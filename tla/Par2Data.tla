------------------------------ MODULE Par2Data ------------------------------
(***************************************************************************)
(* The data of one PAR2 recovery set as the repair code sees it.           *)
(*                                                                         *)
(* A file is a sequence of blocks (Par2File.block_size bytes each) and,    *)
(* while repair runs, every block is cut into the same NumChunks chunks.   *)
(* What the code can tell about the bytes of a path is only where they     *)
(* agree with the protected file, so a path's content is                   *)
(*   len : "none"  - there is no such path                                 *)
(*         "short", "exact", "long" - its size against FileInfo.length     *)
(*   bad : the <<block, chunk>> cells whose bytes are not the protected    *)
(*         file's (bytes past the end of a short path read as zeros, so    *)
(*         the cells it lacks are in bad unless they hold zeros).          *)
(***************************************************************************)
EXTENDS WorkRanges, FiniteSets

CONSTANTS
  Files,       \* the protected files (Par2File.files_in_order)
  NumBlocks,   \* [Files -> Nat]: length.div_ceil(block_size), 0 for an empty file
  Sliced,      \* the files whose slice checksums (IFSC packet) were loaded
  OddLengths   \* bound: the wrong sizes damage may leave, a subset of {"short", "long"}

ASSUME DataAssumption ==
  /\ NumBlocks \in [Files -> Nat]
  /\ Sliced \subseteq Files
  /\ OddLengths \subseteq {"short", "long"}

Blocks(f) == 0 .. NumBlocks[f] - 1
Cells(f)  == Blocks(f) \X Chunks

Lengths == {"none", "short", "exact", "long"}

\* Every content a path can have.
Contents == [len : Lengths, bad : SUBSET (Nat \X Chunks)]

Absent == [len |-> "none", bad |-> {}]

\* The protected bytes: the right size and every cell right.
Intact == [len |-> "exact", bad |-> {}]

BadBlocks(k) == {cell[1] : cell \in k.bad}

\* The contents a run may start from: whole blocks of f are wrong, and only a
\* file that has blocks can be too short.
DamageShapes(f) ==
  LET sizes == {"exact"} \cup (IF NumBlocks[f] > 0 THEN OddLengths ELSE OddLengths \ {"short"})
  IN  {Absent} \cup {[len |-> l, bad |-> B \X Chunks] : l \in sizes, B \in SUBSET Blocks(f)}

\* The disks a run may start from.
Disks == {d \in [Files -> UNION {DamageShapes(f) : f \in Files}] :
            \A f \in Files : d[f] \in DamageShapes(f)}

-----------------------------------------------------------------------------
(***************************************************************************)
(* VerificationResult, the value verify.rs hands to repair.rs.             *)
(*   path      : where verified_files says the good bytes of f are: at its *)
(*               own name, under another name, or at a name that is gone   *)
(*               because the same pass has renamed it; "none" when f is    *)
(*               not listed or is also listed as damaged                   *)
(*   missing, damaged : the two file lists                                 *)
(*   mapped    : the damaged files that have a block_damages entry         *)
(*   badBlocks : the entry's damaged_block_indices                         *)
(***************************************************************************)
Paths == {"none", "own", "extra", "gone"}

Verdicts ==
  [path : [Files -> Paths], missing : SUBSET Files, damaged : SUBSET Files,
   mapped : SUBSET Files, badBlocks : [Files -> SUBSET Nat]]

\* Pass 4 of verify_files_with_messages: an entry is made for a damaged file
\* that has slice checksums and at least one block that fails them.
HasBlockMap(f, k) == f \in Sliced /\ BadBlocks(k) # {}

\* The result for the contents `seen` at the files' own paths, where `at` says
\* how each file that is neither missing nor damaged was found.
VerdictOf(seen, at) ==
  LET good    == {f \in Files : seen[f] = Intact \/ at[f] = "extra"}
      missing == {f \in Files \ good : seen[f].len = "none"}
      damaged == Files \ (good \cup missing)
      mapped  == {f \in damaged : HasBlockMap(f, seen[f])}
  IN  [path      |-> [f \in Files |-> IF f \in good THEN at[f] ELSE "none"],
       missing   |-> missing,
       damaged   |-> damaged,
       mapped    |-> mapped,
       badBlocks |-> [f \in Files |-> IF f \in mapped THEN BadBlocks(seen[f]) ELSE {}]]

\* A file found under another name has nothing at its own; a file whose listed
\* path is gone was renamed to its own name, so it is intact there.
Consistent(seen, at) ==
  /\ at \in [Files -> {"own", "extra", "gone"}]
  /\ \A f \in Files : at[f] = "extra" => seen[f] = Absent
  /\ \A f \in Files : at[f] = "gone" => seen[f] = Intact
=============================================================================
