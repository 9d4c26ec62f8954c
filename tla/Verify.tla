------------------------------- MODULE Verify -------------------------------
(***************************************************************************)
(* verify_files_with_messages (src/verify.rs): one call.                   *)
(*                                                                         *)
(*   1. every protected file is checked under its own name, in parallel;   *)
(*   2. files not found that way are looked for, by content, among the     *)
(*      names the directory scan listed, in parallel;                      *)
(*   3. what was found under another name is renamed to its own;           *)
(*   4. the damaged blocks of the damaged files are located.               *)
(*                                                                         *)
(* The disk is a map from names to contents, and a file's own name is the  *)
(* file itself.  Several files may have the same bytes: the file id hashes *)
(* the name too, so they are different files to the code.                  *)
(***************************************************************************)
EXTENDS Par2Data

CONSTANTS
  Bytes,        \* [Files -> class]: files of one class have the same bytes
  Extras,       \* the other names in the directory
  Layouts,      \* the disks a run may start from
  MaxFailures   \* bound: I/O operations that may fail in one call

Names   == Files \cup Extras
Classes == {Bytes[f] : f \in Files}

\* What a name holds: the bytes of a class, more or less damaged.
Nothing   == [of |-> "none", len |-> "none", bad |-> {}]
WholeOf(f) == [of |-> Bytes[f], len |-> "exact", bad |-> {}]
Holdings  == [of : Classes \cup {"none"}, len : Lengths, bad : SUBSET (Nat \X Chunks)]

\* A name holds nothing or the bytes of some file.
Possible(held) == held = Nothing \/ (held.of \in Classes /\ held.len # "none")

ASSUME VerifyAssumption ==
  /\ Files \cap Extras = {} /\ IsFiniteSet(Names) /\ "none" \notin Names
  /\ \A f, g \in Files : Bytes[f] = Bytes[g] => NumBlocks[f] = NumBlocks[g]
  /\ "none" \notin Classes
  /\ Layouts \subseteq [Names -> Holdings]
  /\ \A d \in Layouts, p \in Names : Possible(d[p])
  /\ MaxFailures \in Nat

VARIABLES
  disk,       \* what each name holds
  listing,    \* extra_files: the names the directory scan found
  order,      \* the iteration order of the map par2_data.files
  cancel,     \* the phase in which the caller raised its flag, or "no"
  observed,   \* observed_cancel
  pc,         \* the phase of the call
  outcome,    \* what the call returned
  left,       \* what the running phase has still to take
  path,       \* verified_files: where each file is, or "none"
  missing,    \* missing_files
  damaged,    \* damaged_files
  mapped,     \* the keys of block_damages
  badBlocks,  \* the damaged_block_indices of each entry
  found,      \* matches: the file each listed name turned out to be, or "none"
  toRename,   \* renamed_files: the files whose rename is still to come
  failures,   \* the number of I/O operations that have failed (history)
  unread      \* the names whose content could not be read (history)

resultVars == <<path, missing, damaged, mapped, badBlocks>>
inputVars  == <<listing, order>>
vars == <<disk, inputVars, cancel, observed, pc, outcome, left, resultVars, found, toRename,
          failures, unread>>

VerifyPhases == {"byName", "byHash", "rename", "blocks", "done"}

\* The content of a name judged against file f: other bytes agree in no block.
SeenAs(f, held) ==
  CASE held.of = "none"   -> Absent
    [] held.of = Bytes[f] -> [len |-> held.len, bad |-> held.bad]
    [] OTHER              -> [len |-> "long", bad |-> Cells(f)]

Exists(p)   == disk[p] # Nothing
Whole(p, f) == SeenAs(f, disk[p]) = Intact

CancelRaised == cancel # "no"

-----------------------------------------------------------------------------
\* A call that starts on the disk as it is.
Fresh ==
  /\ observed = FALSE
  /\ pc = "byName" /\ outcome = "running"
  /\ left = Files
  /\ path = [f \in Files |-> "none"]
  /\ missing = {} /\ damaged = {} /\ mapped = {}
  /\ badBlocks = [f \in Files |-> {}]
  /\ found = [p \in Names |-> "none"]
  /\ toRename = {}

Orders == {o \in [Files -> 1 .. Cardinality(Files)] : \A f, g \in Files : o[f] = o[g] => f = g}

Init ==
  /\ disk \in Layouts
  /\ listing = {p \in Names : disk[p] # Nothing}
  /\ order \in Orders
  /\ cancel = "no"
  /\ failures = 0 /\ unread = {}
  /\ Fresh

Return(o) == pc' = "done" /\ outcome' = o

\* An early return with an error: the collected results are dropped.
Cancelled ==
  /\ Return("cancelled")
  /\ UNCHANGED <<disk, inputVars, cancel, observed, left, resultVars, found, toRename,
                 failures, unread>>

\* One I/O operation on name p fails.
ReadFails(p) ==
  /\ failures < MaxFailures
  /\ failures' = failures + 1
  /\ unread' = unread \cup {p}

-----------------------------------------------------------------------------
(* Pass 1, one task for each file.                                         *)

Taken(x) == left' = left \ {x}

\* Mutant: a task that sees the flag is taken up again.
SkipByNameAgain(f) ==
  /\ pc = "byName" /\ f \in left /\ CancelRaised
  /\ observed' = TRUE
  /\ UNCHANGED <<disk, inputVars, cancel, pc, outcome, left, resultVars, found, toRename,
                 failures, unread>>

\* Before or inside the task the flag is seen: the file is left without a verdict.
SkipByName(f) ==
  /\ pc = "byName" /\ f \in left /\ CancelRaised
  /\ observed' = TRUE
  /\ Taken(f)
  /\ UNCHANGED <<disk, inputVars, cancel, pc, outcome, resultVars, found, toRename, failures,
                 unread>>

NotThere(f) ==
  /\ pc = "byName" /\ f \in left /\ ~CancelRaised
  /\ ~Exists(f)
  /\ Taken(f)
  /\ UNCHANGED <<disk, inputVars, cancel, observed, pc, outcome, resultVars, found, toRename,
                 failures, unread>>

VerifiedByName(f) ==
  /\ pc = "byName" /\ f \in left /\ ~CancelRaised
  /\ Exists(f) /\ Whole(f, f)
  /\ path' = [path EXCEPT ![f] = f]
  /\ Taken(f)
  /\ UNCHANGED <<disk, inputVars, cancel, observed, pc, outcome, missing, damaged, mapped,
                 badBlocks, found, toRename, failures, unread>>

\* Wrong bytes or a wrong size: the path is kept so that repair reads the good blocks.
DamagedByName(f) ==
  /\ pc = "byName" /\ f \in left /\ ~CancelRaised
  /\ Exists(f) /\ ~Whole(f, f)
  /\ path' = [path EXCEPT ![f] = f]
  /\ damaged' = damaged \cup {f}
  /\ Taken(f)
  /\ UNCHANGED <<disk, inputVars, cancel, observed, pc, outcome, missing, mapped, badBlocks,
                 found, toRename, failures, unread>>

\* Any other error is dropped: the file stays unmatched although its name is taken.
UnreadableByName(f) ==
  /\ pc = "byName" /\ f \in left /\ ~CancelRaised
  /\ Exists(f)
  /\ ReadFails(f)
  /\ Taken(f)
  /\ UNCHANGED <<disk, inputVars, cancel, observed, pc, outcome, resultVars, found, toRename>>

CancelledByName ==
  /\ pc = "byName" /\ left = {} /\ (observed \/ CancelRaised)
  /\ Cancelled

Unmatched == {f \in Files : path[f] = "none" /\ f \notin damaged}

\* Mutant: a name that is some file's verified path may be matched once more.
AllListed == {p \in listing : Exists(p)}

\* The listed names that are not some file's verified path and still exist.
Candidates == {p \in listing : Exists(p) /\ \A f \in Files : path[f] # p}

\* The second pass runs only if some file has not been seen under its own name.
EndByName ==
  /\ pc = "byName" /\ left = {} /\ ~observed /\ ~CancelRaised
  /\ IF Unmatched = {} THEN pc' = "rename" /\ left' = {}
                       ELSE pc' = "byHash" /\ left' = Candidates
  /\ UNCHANGED <<disk, inputVars, cancel, observed, outcome, resultVars, found, toRename,
                 failures, unread>>

-----------------------------------------------------------------------------
(* Pass 2, one task for each listed name.                                  *)

SkipExtra(p) ==
  /\ pc = "byHash" /\ p \in left /\ CancelRaised
  /\ observed' = TRUE
  /\ Taken(p)
  /\ UNCHANGED <<disk, inputVars, cancel, pc, outcome, resultVars, found, toRename, failures,
                 unread>>

\* The files p may be, and the first of them in map order.
MayBe(p)   == {f \in Unmatched : Whole(p, f)}
FirstOf(S) == IF S = {} THEN "none" ELSE CHOOSE f \in S : \A g \in S : order[f] <= order[g]

MatchExtra(p) ==
  /\ pc = "byHash" /\ p \in left /\ ~CancelRaised
  /\ found' = [found EXCEPT ![p] = FirstOf(MayBe(p))]
  /\ Taken(p)
  /\ UNCHANGED <<disk, inputVars, cancel, observed, pc, outcome, resultVars, toRename,
                 failures, unread>>

\* Reading p for its first candidate fails: the error is dropped, the next one tried.
UnreadableExtra(p) ==
  /\ pc = "byHash" /\ p \in left /\ ~CancelRaised
  /\ MayBe(p) # {}
  /\ ReadFails(p)
  /\ found' = [found EXCEPT ![p] = FirstOf(MayBe(p) \ {FirstOf(MayBe(p))})]
  /\ Taken(p)
  /\ UNCHANGED <<disk, inputVars, cancel, observed, pc, outcome, resultVars, toRename>>

CancelledByHash ==
  /\ pc = "byHash" /\ left = {} /\ (observed \/ CancelRaised)
  /\ Cancelled

MatchedFiles == {found[p] : p \in Names} \ {"none"}

\* Each matched file goes to the first name, in listing order, that was matched with it.
ApplyMatches ==
  /\ pc = "byHash" /\ left = {} /\ ~observed /\ ~CancelRaised
  /\ \E pick \in [MatchedFiles -> Names] :
       /\ \A f \in MatchedFiles : found[pick[f]] = f
       /\ path' = [f \in Files |-> IF f \in MatchedFiles THEN pick[f] ELSE path[f]]
  /\ toRename' = MatchedFiles
  /\ pc' = "rename"
  /\ UNCHANGED <<disk, inputVars, cancel, observed, outcome, left, missing, damaged, mapped,
                 badBlocks, found, failures, unread>>

-----------------------------------------------------------------------------
(* Renames; the flag is not read between them.                             *)

Moved(p, q) == [disk EXCEPT ![q] = disk[p], ![p] = Nothing]

\* Mutant: the rename does not look whether its target exists.
RenameOver(f) ==
  /\ pc = "rename" /\ f \in toRename
  /\ disk' = Moved(path[f], f)
  /\ toRename' = toRename \ {f}
  /\ UNCHANGED <<inputVars, cancel, observed, pc, outcome, left, resultVars, found, failures,
                 unread>>

\* verified_files keeps the old path.
RenameFound(f) ==
  /\ pc = "rename" /\ f \in toRename
  /\ ~Exists(f)
  /\ disk' = Moved(path[f], f)
  /\ toRename' = toRename \ {f}
  /\ UNCHANGED <<inputVars, cancel, observed, pc, outcome, left, resultVars, found, failures,
                 unread>>

\* The name is taken by something that could not be read.
RenameSkipped(f) ==
  /\ pc = "rename" /\ f \in toRename
  /\ Exists(f)
  /\ toRename' = toRename \ {f}
  /\ UNCHANGED <<disk, inputVars, cancel, observed, pc, outcome, left, resultVars, found,
                 failures, unread>>

\* A rename that fails is only reported: the file counts as verified where it is.
RenameFails(f) ==
  /\ pc = "rename" /\ f \in toRename
  /\ ~Exists(f)
  /\ failures < MaxFailures
  /\ failures' = failures + 1
  /\ toRename' = toRename \ {f}
  /\ UNCHANGED <<disk, inputVars, cancel, observed, pc, outcome, left, resultVars, found,
                 unread>>

CancelledAfterRename ==
  /\ pc = "rename" /\ toRename = {} /\ CancelRaised
  /\ Cancelled

\* Mutant: the flag is not read between the renames and the block-level pass.
CountMissingUnchecked ==
  /\ pc = "rename" /\ toRename = {}
  /\ missing' = Unmatched
  /\ pc' = "blocks"
  /\ left' = damaged \cap Sliced
  /\ UNCHANGED <<disk, inputVars, cancel, observed, outcome, path, damaged, mapped, badBlocks,
                 found, toRename, failures, unread>>

\* Mutant: pass 4 looks at every file with slice checksums.
CountMissingMapAll ==
  /\ pc = "rename" /\ toRename = {} /\ ~CancelRaised
  /\ missing' = Unmatched
  /\ pc' = "blocks"
  /\ left' = Sliced
  /\ UNCHANGED <<disk, inputVars, cancel, observed, outcome, path, damaged, mapped, badBlocks,
                 found, toRename, failures, unread>>

\* Pass 3, and the choice of what pass 4 looks at.
CountMissing ==
  /\ pc = "rename" /\ toRename = {} /\ ~CancelRaised
  /\ missing' = Unmatched
  /\ pc' = "blocks"
  /\ left' = damaged \cap Sliced
  /\ UNCHANGED <<disk, inputVars, cancel, observed, outcome, path, damaged, mapped, badBlocks,
                 found, toRename, failures, unread>>

-----------------------------------------------------------------------------
(* Pass 4: verify_file_blocks on the damaged files with slice checksums.   *)

\* Mutant: the batch stops at its first bad block.
MapFirstBlock(f) ==
  /\ pc = "blocks" /\ f \in left
  /\ LET bad == BadBlocks(SeenAs(f, disk[f]))
     IN  IF bad = {} THEN UNCHANGED <<mapped, badBlocks>>
         ELSE /\ mapped' = mapped \cup {f}
              /\ badBlocks' = [badBlocks EXCEPT ![f] = {CHOOSE b \in bad : \A i \in bad : b <= i}]
  /\ Taken(f)
  /\ UNCHANGED <<disk, inputVars, cancel, observed, pc, outcome, path, missing, damaged, found,
                 toRename, failures, unread>>

MapBlocks(f) ==
  /\ pc = "blocks" /\ f \in left
  /\ LET bad == BadBlocks(SeenAs(f, disk[f]))
     IN  IF bad = {} THEN UNCHANGED <<mapped, badBlocks>>
                     ELSE mapped' = mapped \cup {f} /\ badBlocks' = [badBlocks EXCEPT ![f] = bad]
  /\ Taken(f)
  /\ UNCHANGED <<disk, inputVars, cancel, observed, pc, outcome, path, missing, damaged, found,
                 toRename, failures, unread>>

BlocksUnreadable(f) ==
  /\ pc = "blocks" /\ f \in left
  /\ ReadFails(f)
  /\ Taken(f)
  /\ UNCHANGED <<disk, inputVars, cancel, observed, pc, outcome, resultVars, found, toRename>>

\* The flag is read every few megabytes only, so a call may also end well.
CancelledInBlocks ==
  /\ pc = "blocks" /\ left # {} /\ CancelRaised
  /\ Cancelled

Finish ==
  /\ pc = "blocks" /\ left = {}
  /\ Return("ok")
  /\ UNCHANGED <<disk, inputVars, cancel, observed, left, resultVars, found, toRename,
                 failures, unread>>

-----------------------------------------------------------------------------
RequestCancel ==
  /\ pc # "done" /\ ~CancelRaised
  /\ cancel' = pc
  /\ UNCHANGED <<disk, inputVars, observed, pc, outcome, left, resultVars, found, toRename,
                 failures, unread>>

Step ==
  \/ \E f \in Files : \/ SkipByName(f) \/ NotThere(f) \/ VerifiedByName(f)
                      \/ DamagedByName(f) \/ UnreadableByName(f)
                      \/ RenameFound(f) \/ RenameSkipped(f) \/ RenameFails(f)
                      \/ MapBlocks(f) \/ BlocksUnreadable(f)
  \/ \E p \in Names : SkipExtra(p) \/ MatchExtra(p) \/ UnreadableExtra(p)
  \/ CancelledByName \/ EndByName
  \/ CancelledByHash \/ ApplyMatches
  \/ CancelledAfterRename \/ CountMissing
  \/ CancelledInBlocks \/ Finish

Returned == pc = "done" /\ UNCHANGED vars

Next == Step \/ RequestCancel \/ Returned

Spec == Init /\ [][Next]_vars

\* Rayon runs every task it was given, and reads return.
FairSpec == Spec /\ WF_vars(Step)

-----------------------------------------------------------------------------
(* Properties.                                                             *)

\* Every variable has its type.
TypeOK ==
  /\ disk \in [Names -> Holdings]
  /\ listing \subseteq Names /\ order \in [Files -> Nat]
  /\ cancel \in VerifyPhases \cup {"no"} /\ observed \in BOOLEAN
  /\ pc \in VerifyPhases /\ outcome \in {"running", "ok", "cancelled"}
  /\ left \subseteq Names
  /\ path \in [Files -> Names \cup {"none"}]
  /\ missing \subseteq Files /\ damaged \subseteq Files /\ mapped \subseteq damaged
  /\ badBlocks \in [Files -> SUBSET Nat]
  /\ found \in [Names -> Files \cup {"none"}]
  /\ toRename \subseteq Files
  /\ failures \in 0 .. MaxFailures /\ unread \subseteq Names

AllVerified == outcome = "ok" /\ missing = {} /\ damaged = {}

\* all_verified is safe to act on (lib.rs deletes the recovery files on it): every
\* protected file has a whole copy of its own, though perhaps not under its name.
AllVerifiedIsWhole ==
  AllVerified => \E place \in [Files -> Names] :
                   /\ \A f \in Files : Whole(place[f], f)
                   /\ \A f, g \in Files : place[f] = place[g] => f = g

\* Verification moves contents between names and loses none: whatever a name held is
\* still held by as many names, even if I/O fails or a name is taken.
NothingLost ==
  [][\A held \in {disk[p] : p \in Names} \ {Nothing} :
       Cardinality({p \in Names : disk'[p] = held}) >= Cardinality({p \in Names : disk[p] = held})
    ]_vars

\* What repair.rs is handed is what it reckons with: the verdict the contents call for,
\* with every verified file at its own name, at another one, or at one the renames have
\* emptied; but for files that could not be read.
ListedAt(f) == IF path[f] = f THEN "own" ELSE IF Exists(path[f]) THEN "extra" ELSE "gone"

Handed ==
  [path      |-> [f \in Files |-> IF path[f] = "none" \/ f \in damaged THEN "none" ELSE ListedAt(f)],
   missing   |-> missing, damaged |-> damaged, mapped |-> mapped, badBlocks |-> badBlocks]

HandsOverVerdict ==
  outcome = "ok" /\ unread = {} =>
    LET seen == [f \in Files |-> SeenAs(f, disk[f])]
        at   == [f \in Files |-> IF path[f] = "none" THEN "own" ELSE ListedAt(f)]
    IN  Consistent(seen, at) /\ Handed = VerdictOf(seen, at)

\* A flag raised before the block-level pass is not missed: the call says so, even though
\* the parallel passes swallow what their tasks return.
CancelHonoured == outcome = "ok" => cancel \in {"no", "blocks"}

\* The call returns, cancelled or not, whatever fails.
VerifyReturns == <>(pc = "done")

\* "Files can be matched by hash even when filenames don't match": a file is reported
\* missing only if nothing readable under another name is a copy of it that is not taken
\* for another file.
CopiesAreMatched ==
  outcome = "ok" /\ unread = {} =>
    \A f \in missing, p \in listing :
      Whole(p, f) => p \in Files \/ \E g \in Files : path[g] = p
=============================================================================
