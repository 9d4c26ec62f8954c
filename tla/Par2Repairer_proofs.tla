------------------------ MODULE Par2Repairer_proofs ------------------------
(***************************************************************************)
(* Theorems about Par2Repairer: run after run on one directory, for every  *)
(* set of files and volumes, every disk, and any number of failed I/O      *)
(* operations, killed and cancelled runs.                                  *)
(***************************************************************************)
EXTENDS Par2Repairer, Verify_proofs, Basics_proofs

-----------------------------------------------------------------------------
(***************************************************************************)
(* What the runs keep.                                                     *)
(***************************************************************************)

\* The temps of a repair are being written, or its files being replaced.
Repairing == stage \in {"repair", "commit", "repaired"}

\* No name lies; what a run keeps between two calls has its type.
DiskInv ==
  /\ ResultTypes /\ PhaseInv
  /\ par2 \subseteq Volumes /\ todo \subseteq Files /\ replaced \subseteq Files
  /\ failures = 0 => unread = {}

\* With no failure a file that was found elsewhere has been moved to its own name.
RenamedInv ==
  failures = 0 /\ Settled =>
    \A f \in Files : path[f] \notin {"none", f} => f \in toRename \/ Whole(f, f)

\* What OkIsWhole promises, once a run counts every file as verified.
WholeSet == AllWhole /\ (failures = 0 => \A f \in Files : Whole(f, f))

\* While no repair has the disk, the verification's invariant holds of it, also between
\* two calls; from the purge on, and after a run that has returned Ok, the set is whole.
RunInv ==
  /\ DiskInv
  /\ ~Repairing => ResultInv /\ RenamedInv
  /\ stage \in {"purge", "purging"} \/ result = "ok" => WholeSet
  /\ result = "ok" => stage = "idle"

\* Every name of the disk holds the bytes of some file or nothing.
LEMMA ContentsPossible ==
  ASSUME NEW f \in Files
  PROVE  /\ Scratch(f) \in Holdings /\ Possible(Scratch(f))
         /\ WholeOf(f) \in Holdings /\ Possible(WholeOf(f))
         /\ Gone(f) \in Holdings /\ Possible(Gone(f))
<1>1. Cells(f) \subseteq Nat \X Chunks
  BY DataAssumption DEF Cells, Blocks
<1>2. Bytes[f] \in Classes
  BY DEF Classes
<1> QED
  BY <1>1, <1>2, NothingHeld DEF Scratch, WholeOf, Gone, Holdings, Lengths, Possible

\* Writing temps touches no name but the temps'.
LEMMA TempsWritten ==
  ASSUME disk \in [Names -> Holdings], \A p \in Names : Possible(disk[p]),
         NEW S \in SUBSET Files,
         \/ disk' = WithTemps(S, Scratch)
         \/ disk' = WithTemps(S, WholeOf)
         \/ disk' = WithTemps(S, Gone)
  PROVE  /\ disk' \in [Names -> Holdings] /\ \A p \in Names : Possible(disk'[p])
         /\ \A p \in Names : (\A f \in S : TempOf[f] # p) => disk'[p] = disk[p]
<1>1. \A p \in Names : (\E f \in S : TempOf[f] = p) => (CHOOSE f \in S : TempOf[f] = p) \in Files
  OBVIOUS
<1> QED
  BY <1>1, ContentsPossible DEF WithTemps

\* The temps are the names of no protected file.
LEMMA TempsAreExtras ==
  /\ \A f \in Files : TempOf[f] \in Names /\ f \in Names
  /\ \A f, g \in Files : TempOf[f] # g
BY RepairerAssumption, VerifyAssumption DEF Names

\* Each temp that is written holds its own file's bytes.
LEMMA TempsHold ==
  ASSUME NEW S \in SUBSET Files, disk' = WithTemps(S, WholeOf), NEW f \in S
  PROVE  disk'[TempOf[f]] = WholeOf(f)
<1>1. (CHOOSE g \in S : TempOf[g] = TempOf[f]) = f
  BY RepairerAssumption
<1> QED
  BY <1>1, TempsAreExtras DEF WithTemps

\* Whole means to hold the file's bytes and nothing else.
LEMMA WholeMeans ==
  ASSUME NEW held \in Holdings, NEW f \in Files
  PROVE  SeenAs(f, held) = Intact <=> held = WholeOf(f)
<1>1. Bytes[f] # "none"
  BY VerifyAssumption DEF Classes
<1>2. held = [of |-> held.of, len |-> held.len, bad |-> held.bad]
  BY DEF Holdings
<1>3. CASE held.of = "none"
  BY <1>1, <1>3, NothingHeld DEF SeenAs, WholeOf
<1>4. CASE held.of = Bytes[f]
  <2>1. SeenAs(f, held) = [len |-> held.len, bad |-> held.bad]
    BY <1>1, <1>4 DEF SeenAs
  <2>2. SeenAs(f, held) = Intact <=> held.len = "exact" /\ held.bad = {}
    BY <2>1 DEF Intact
  <2> QED
    BY <1>2, <1>4, <2>2 DEF WholeOf
<1>5. CASE held.of \notin {"none", Bytes[f]}
  <2>1. SeenAs(f, held).len = "long"
    BY <1>5 DEF SeenAs
  <2> QED
    BY <1>5, <2>1 DEF Intact, WholeOf
<1> QED
  BY <1>3, <1>4, <1>5

\* A call that has just been set up knows nothing yet, and claims nothing.
LEMMA ResetResult ==
  ASSUME ResetCall, disk' \in [Names -> Holdings], \A p \in Names : Possible(disk'[p]),
         listing' \subseteq Names, order' \in [Files -> Nat],
         failures' \in 0 .. MaxFailures, unread' \subseteq Names
  PROVE  ResultInv' /\ RenamedInv'
<1>1. Files \subseteq Names
  BY DEF Names
<1>2. ResultTypes'
  BY <1>1 DEF ResultTypes, ResetCall, VerifyPhases
<1>3. PassInv'
  <2>1. /\ pc' = "byName" /\ left' = Files /\ path' = [f \in Files |-> "none"] /\ damaged' = {}
        /\ toRename' = {} /\ missing' = {} /\ mapped' = {}
        /\ badBlocks' = [f \in Files |-> {}] /\ found' = [p \in Names |-> "none"]
    BY DEF ResetCall
  <2>2. \A f \in Files : f # "none"
    BY VerifyAssumption, <1>1
  <2> QED
    BY <2>1, <2>2 DEF PassInv
<1>4. PhaseInv' /\ PlaceInv' /\ SeamInv' /\ MapInv' /\ RenamedInv'
  BY DEF PhaseInv, PlaceInv, SeamInv, MapInv, RenamedInv, Settled, ResetCall
<1> QED
  BY <1>2, <1>3, <1>4 DEF ResultInv

\* The ranks of a map's entries are numbers.
LEMMA OrdersTyped == Orders \subseteq [Files -> Nat]
<1>1. Cardinality(Files) \in Nat
  BY VerifyAssumption, FS_Subset, FS_CardinalityType DEF Names
<1> QED
  BY <1>1 DEF Orders

\* A step that leaves the disk and the verdict alone keeps what is said of them.
LEMMA RenamedKept ==
  ASSUME RenamedInv, UNCHANGED <<disk, pc, outcome, path, toRename>>, failures' = 0 => failures = 0
  PROVE  RenamedInv'
BY DEF RenamedInv, Settled, Whole

LEMMA WholeSetKept ==
  ASSUME WholeSet, disk' = disk, failures' = 0 => failures = 0
  PROVE  WholeSet'
BY DEF WholeSet, AllWhole, Whole

\* What a verification counts as verified is whole; without failures it has its own name.
LEMMA VerifiedSet ==
  ASSUME ResultInv, RenamedInv, AllVerified, failures = 0 => unread = {}
  PROVE  WholeSet
<1>1. AllWhole
  BY ResultIsWhole DEF AllVerifiedIsWhole, AllWhole
<1>2. ASSUME failures = 0, NEW f \in Files PROVE Whole(f, f)
  <2>1. /\ Settled /\ unread = {} /\ toRename = {} /\ missing = Unmatched
        /\ damaged = {} /\ missing = {}
    BY <1>2 DEF AllVerified, Settled, ResultInv, MapInv
  <2>2. path[f] # "none"
    BY <2>1 DEF Unmatched
  <2>3. CASE path[f] = f
    BY <2>1, <2>2, <2>3 DEF ResultInv, SeamInv
  <2>4. CASE path[f] # f
    BY <1>2, <2>1, <2>2, <2>4 DEF RenamedInv
  <2> QED
    BY <2>3, <2>4
<1> QED
  BY <1>1, <1>2 DEF WholeSet

-----------------------------------------------------------------------------
(***************************************************************************)
(* The steps.                                                              *)
(***************************************************************************)

LEMMA RunnerStarts == RunnerInit => RunInv
<1> SUFFICES ASSUME RunnerInit PROVE RunInv
  OBVIOUS
<1>1. ResultInv
  BY InitVerifies DEF RunnerInit
<1>2. RenamedInv
  BY DEF RunnerInit, Init, Fresh, RenamedInv, Settled
<1> QED
  BY <1>1, <1>2 DEF RunInv, DiskInv, ResultInv, RunnerInit, Init, Repairing

\* The run is over: the next call starts afresh on the disk as it is.
LEMMA EndsWell ==
  ASSUME RunInv, ResetCall, stage' = "idle", result' \in {"failed", "cancelled", "crashed", "ok"},
         disk' \in [Names -> Holdings], \A p \in Names : Possible(disk'[p]),
         listing' = {}, order' = order, unread' = unread, failures' \in 0 .. MaxFailures,
         failures' = 0 => failures = 0, par2' = par2, todo' = {}, replaced' = replaced,
         result' = "ok" => WholeSet'
  PROVE  RunInv'
<1>1. ResultInv' /\ RenamedInv'
  BY ResetResult DEF RunInv, DiskInv, ResultTypes
<1> QED
  BY <1>1 DEF RunInv, DiskInv, ResultInv, Repairing

\* A failed I/O operation is counted.
LEMMA FailureCounted ==
  ASSUME RunInv, IoFails \/ failures' = failures
  PROVE  failures' \in 0 .. MaxFailures /\ (failures' = 0 => failures = 0)
BY VerifyAssumption DEF RunInv, DiskInv, ResultTypes, IoFails

\* The steps that end a run.
LEMMA EndStep ==
  ASSUME RunInv,
         \/ CancelSeen \/ LoadFails \/ VerifyCancelled \/ VerifyBad \/ NoPurge \/ PurgeFailed \/ Purged
         \/ Killed
  PROVE  RunInv'
<1>1. /\ ResetCall /\ stage' = "idle" /\ result' \in {"failed", "cancelled", "crashed", "ok"}
      /\ disk' = disk /\ listing' = {} /\ order' = order /\ unread' = unread /\ par2' = par2
      /\ todo' = {} /\ replaced' = replaced /\ (IoFails \/ failures' = failures)
      /\ result' = "ok" => stage \in {"purge", "purging"}
  BY DEF CancelSeen, LoadFails, VerifyCancelled, VerifyBad, NoPurge, PurgeFailed, Purged, Killed, End
<1>2. failures' \in 0 .. MaxFailures /\ (failures' = 0 => failures = 0)
  BY <1>1, FailureCounted
<1>3. result' = "ok" => WholeSet'
  BY <1>1, <1>2, WholeSetKept DEF RunInv
<1> QED
  BY <1>1, <1>2, <1>3, EndsWell DEF RunInv, DiskInv, ResultTypes, PhaseInv

\* A repair that ends early leaves the temps removed, or one that could not be sized.
LEMMA RepairEnds ==
  ASSUME RunInv, RepairCancelled \/ RepairFailed
  PROVE  RunInv'
<1>1. /\ ResetCall /\ stage' = "idle" /\ result' \in {"failed", "cancelled"}
      /\ listing' = {} /\ order' = order /\ unread' = unread /\ par2' = par2
      /\ todo' = {} /\ replaced' = replaced /\ (IoFails \/ failures' = failures)
      /\ \E S \in SUBSET Files : disk' = WithTemps(S, Gone)
  <2>1. todo \subseteq Files
    BY DEF RunInv, DiskInv
  <2>2. CASE RepairCancelled
    BY <2>1, <2>2 DEF RepairCancelled, End
  <2>3. CASE RepairFailed
    <3>1. todo \in SUBSET Files /\ todo \ replaced \in SUBSET Files
          /\ \A f \in todo : todo \ {f} \in SUBSET Files
      BY <2>1
    <3>2. \E S \in SUBSET Files : disk' = WithTemps(S, Gone)
      BY <2>3, <3>1 DEF RepairFailed
    <3> QED
      BY <2>3, <3>2 DEF RepairFailed, End
  <2> QED
    BY <2>2, <2>3
<1>2. failures' \in 0 .. MaxFailures /\ (failures' = 0 => failures = 0)
  BY <1>1, FailureCounted
<1>3. disk' \in [Names -> Holdings] /\ \A p \in Names : Possible(disk'[p])
  BY <1>1, TempsWritten DEF RunInv, DiskInv, ResultTypes, PhaseInv
<1> QED
  BY <1>1, <1>2, <1>3, EndsWell

\* The steps that leave the disk alone and the call as it is.
LEMMA QuietStep ==
  ASSUME RunInv,
         \/ \E repairing \in BOOLEAN : Begin(repairing)
         \/ RaiseFlag \/ Load \/ AllGood \/ RepairDone \/ BeginPurge \/ Retired
         \/ \E v \in Volumes : PurgeOne(v)
         \/ UNCHANGED allVars
  PROVE  RunInv'
<1>1. /\ UNCHANGED <<disk, listing, observed, pc, outcome, left, resultVars, found, toRename,
                     unread>>
      /\ order' = order \/ order' \in Orders
      /\ par2' \subseteq par2 /\ todo' = todo /\ replaced' \subseteq replaced
      /\ Repairing' <=> Repairing
      /\ stage' \in {"purge", "purging"} => stage \in {"purge", "purging"} \/ AllGood
      /\ result' = "ok" => result = "ok" /\ (stage = "idle" => stage' = "idle")
  <2> USE DEF vars, inputVars, repairVars, modeVars, Repairing
  <2>1. CASE \E repairing \in BOOLEAN : Begin(repairing)
    BY <2>1 DEF Begin
  <2>2. CASE RaiseFlag
    BY <2>2 DEF RaiseFlag, callVars
  <2>3. CASE Load
    BY <2>3 DEF Load, callVars
  <2>4. CASE AllGood
    BY <2>4 DEF AllGood, Verified
  <2>5. CASE RepairDone \/ BeginPurge
    BY <2>5 DEF RepairDone, BeginPurge
  <2>6. CASE \E v \in Volumes : PurgeOne(v)
    BY <2>6 DEF PurgeOne, callVars
  <2>7. CASE Retired \/ UNCHANGED allVars
    BY <2>7 DEF Retired, allVars, runnerVars
  <2> QED
    BY <2>1, <2>2, <2>3, <2>4, <2>5, <2>6, <2>7
<1>2. failures' \in 0 .. MaxFailures /\ (failures' = 0 => failures = 0)
  <2>1. CASE Load
    <3>1. PICK lost \in SUBSET par2 :
                 failures' = failures + Cardinality(lost) /\ failures' <= MaxFailures
      BY <2>1 DEF Load
    <3>2. Cardinality(lost) \in Nat
      BY RepairerAssumption, FS_Subset, FS_CardinalityType DEF RunInv, DiskInv
    <3> QED
      BY <3>1, <3>2, VerifyAssumption DEF RunInv, DiskInv, ResultTypes
  <2>2. CASE IoFails \/ failures' = failures
    BY <2>2, FailureCounted
  <2> QED
    BY <2>1, <2>2
    DEF Begin, RaiseFlag, AllGood, RepairDone, BeginPurge, Retired, PurgeOne, allVars, vars,
        callVars
<1>3. order' \in [Files -> Nat]
  BY <1>1, OrdersTyped DEF RunInv, DiskInv, ResultTypes
<1>4. ~Repairing' => ResultInv' /\ RenamedInv'
  BY <1>1, <1>2, <1>3, ResultKept, RenamedKept DEF RunInv, resultVars
<1>5. DiskInv'
  BY <1>1, <1>2, <1>3 DEF RunInv, DiskInv, ResultTypes, PhaseInv, resultVars
<1>6. stage' \in {"purge", "purging"} \/ result' = "ok" => WholeSet'
  <2>1. CASE AllGood
    <3>1. ~Repairing /\ AllVerified
      BY <2>1 DEF AllGood, Verified, Repairing
    <3> QED
      BY <3>1, <1>1, <1>2, VerifiedSet, WholeSetKept DEF RunInv, DiskInv
  <2>2. CASE ~AllGood
    BY <2>2, <1>1, <1>2, WholeSetKept DEF RunInv
  <2> QED
    BY <2>1, <2>2
<1> QED
  BY <1>1, <1>4, <1>5, <1>6 DEF RunInv

\* A scan, or a second verification, sets up a call.
LEMMA CallStep ==
  ASSUME RunInv, Scan \/ Reverify
  PROVE  RunInv'
<1>1. /\ ResetCall /\ disk' = disk /\ order' = order /\ failures' = failures /\ unread' = unread
      /\ listing' \subseteq Names /\ par2' = par2 /\ todo' = todo /\ replaced' = replaced
      /\ stage' \in {"verify", "reverify"} /\ stage # "idle" /\ result' = result
  BY DEF Scan, Reverify, inputVars, repairVars, RunInv, DiskInv, ResultTypes
<1>2. ResultInv' /\ RenamedInv'
  BY <1>1, ResetResult DEF RunInv, DiskInv, ResultTypes, PhaseInv
<1> QED
  BY <1>1, <1>2 DEF RunInv, DiskInv, ResultInv

\* The steps of a repair: only temps are written, and a replaced file takes over a temp.
LEMMA RepairStep ==
  ASSUME RunInv, BeginRepair \/ Rebuild \/ \E f \in Files : Replace(f)
  PROVE  RunInv'
<1> USE DEF callVars, resultVars, inputVars
<1>1. /\ UNCHANGED <<listing, order, observed, pc, outcome, left, path, missing, damaged, mapped,
                     badBlocks, found, toRename, failures, unread, par2>>
      /\ Repairing' /\ stage # "idle" /\ result' = result
  BY DEF BeginRepair, Rebuild, Replace, Repairing, Untouched, repairVars
<1>2. todo' \subseteq Files /\ replaced' \subseteq Files
  BY DEF BeginRepair, Rebuild, Replace, Untouched, RunInv, DiskInv, ResultTypes, repairVars
<1>3. disk' \in [Names -> Holdings] /\ \A p \in Names : Possible(disk'[p])
  <2>1. disk \in [Names -> Holdings] /\ \A p \in Names : Possible(disk[p])
    BY DEF RunInv, DiskInv, ResultTypes, PhaseInv
  <2>2. CASE BeginRepair \/ Rebuild
    <3>1. \E S \in SUBSET Files : disk' = WithTemps(S, Scratch) \/ disk' = WithTemps(S, WholeOf)
      BY <1>2, <2>2 DEF BeginRepair, Rebuild, RunInv, DiskInv
    <3> QED
      BY <2>1, <3>1, TempsWritten
  <2>3. ASSUME NEW f \in Files, Replace(f)
        PROVE  disk' \in [Names -> Holdings] /\ \A p \in Names : Possible(disk'[p])
    <3>1. disk' = Moved(TempOf[f], f)
      BY <2>3 DEF Replace
    <3>2. /\ disk' \in [Names -> Holdings]
          /\ disk'[f] = disk[TempOf[f]] /\ disk'[TempOf[f]] = Nothing
          /\ \A n \in Names \ {TempOf[f], f} : disk'[n] = disk[n]
      BY <2>1, <3>1, MovedFacts, TempsAreExtras
    <3> QED
      BY <2>1, <3>2, NothingHeld, TempsAreExtras
  <2> QED
    BY <2>2, <2>3
<1> QED
  BY <1>1, <1>2, <1>3
  DEF RunInv, DiskInv, ResultTypes, PhaseInv, Repairing

\* A step of a verification counts the failures it meets.
LEMMA FailuresSeen ==
  ASSUME ResultInv, Step, failures' = 0, failures = 0 => unread = {}
  PROVE  /\ failures = 0 /\ unread = {} /\ unread' = unread
         /\ \A f \in Files : ~RenameFails(f) /\ ~BlocksUnreadable(f)
<1>1. failures \in Nat
  BY VerifyAssumption DEF ResultInv, ResultTypes
<1>2. UNCHANGED <<failures, unread>> \/ failures' = failures + 1
  BY DEF Step, SkipByName, NotThere, VerifiedByName, DamagedByName, UnreadableByName, ReadFails,
     RenameFound, RenameSkipped, RenameFails, MapBlocks, BlocksUnreadable, SkipExtra,
     MatchExtra, UnreadableExtra, CancelledByName, EndByName, CancelledByHash, ApplyMatches,
     CancelledAfterRename, CountMissing, CancelledInBlocks, Finish, Cancelled
<1> QED
  BY <1>1, <1>2 DEF RenameFails, BlocksUnreadable, ReadFails

\* Without failures every rename that was due takes place.
LEMMA VerifyRenames ==
  ASSUME ResultInv, RenamedInv, Step, failures = 0 => unread = {}
  PROVE  RenamedInv'
<1> SUFFICES ASSUME failures' = 0, Settled', NEW f \in Files, path'[f] \notin {"none", f}
             PROVE  f \in toRename' \/ Whole(f, f)'
  BY DEF RenamedInv
<1>1. failures = 0 /\ unread = {} /\ \A g \in Files : ~RenameFails(g) /\ ~BlocksUnreadable(g)
  BY FailuresSeen
<1>2. CASE EndByName
  BY <1>2 DEF EndByName, resultVars, ResultInv, PassInv
<1>3. CASE ApplyMatches
  <2>1. path[f] \in {"none", f} /\ path \in [Files -> Names \cup {"none"}]
    BY <1>3 DEF ApplyMatches, ResultInv, PassInv, ResultTypes
  <2> QED
    BY <1>3, <2>1 DEF ApplyMatches
<1>4. CASE CountMissing \/ Finish \/ \E g \in Files : MapBlocks(g)
  <2>1. Settled /\ UNCHANGED <<disk, path, toRename>>
    BY <1>4 DEF CountMissing, Finish, MapBlocks, Settled, resultVars
  <2> QED
    BY <1>1, <2>1 DEF RenamedInv, Whole
<1>5. ASSUME NEW g \in Files, RenameSkipped(g) PROVE f \in toRename' \/ Whole(f, f)'
  <2>1. /\ Settled /\ UNCHANGED <<disk, path>>
        /\ toRename' = toRename \ {g} /\ g \in toRename /\ Exists(g)
    BY <1>5 DEF RenameSkipped, Settled, resultVars
  <2>2. CASE f = g
    BY <1>1, <2>1, <2>2 DEF ResultInv, SeamInv
  <2>3. CASE f # g
    BY <1>1, <2>1, <2>3 DEF RenamedInv, Whole
  <2> QED
    BY <2>2, <2>3
<1>6. ASSUME NEW g \in Files, RenameFound(g) PROVE f \in toRename' \/ Whole(f, f)'
  <2>1. /\ pc = "rename" /\ Settled /\ path' = path /\ toRename' = toRename \ {g}
        /\ g \in toRename /\ ~Exists(g) /\ disk' = Moved(path[g], g)
    BY <1>6 DEF RenameFound, Settled, resultVars
  <2>2. Whole(path[g], g) /\ path[g] \in Names
    BY <2>1 DEF ResultInv, PlaceInv, Placed
  <2>3. path[g] # g /\ g \in Names /\ f \in Names
    BY <2>1, <2>2, WholeExists DEF Names
  <2>4. path[g] \in Extras
    <3>1. path[g] # "none"
      BY <2>2, VerifyAssumption
    <3> QED
      BY <1>1, <2>1, <2>3, <3>1 DEF ResultInv, SeamInv
  <2>5. disk'[g] = disk[path[g]] /\ \A n \in Names \ {path[g], g} : disk'[n] = disk[n]
    BY <2>1, <2>2, <2>3, MovedFacts DEF ResultInv, ResultTypes
  <2>6. CASE f = g
    BY <2>2, <2>5, <2>6 DEF Whole
  <2>7. CASE f # g
    <3>1. f # path[g]
      BY <2>4, VerifyAssumption
    <3>2. disk'[f] = disk[f]
      BY <2>3, <2>5, <2>7, <3>1
    <3> QED
      BY <1>1, <2>1, <2>7, <3>2 DEF RenamedInv, Whole
  <2> QED
    BY <2>6, <2>7
<1>7. CASE \/ \E g \in Files : \/ SkipByName(g) \/ NotThere(g) \/ VerifiedByName(g)
                               \/ DamagedByName(g) \/ UnreadableByName(g)
           \/ \E p \in Names : SkipExtra(p) \/ MatchExtra(p) \/ UnreadableExtra(p)
  <2>1. pc \in {"byName", "byHash"} /\ pc' = pc /\ outcome' = outcome
    BY <1>7 DEF SkipByName, NotThere, VerifiedByName, DamagedByName, UnreadableByName, SkipExtra,
       MatchExtra, UnreadableExtra
  <2>2. ~Settled'
    BY <2>1 DEF Settled, ResultInv, PhaseInv
  <2> QED
    BY <2>2
<1>8. CASE CancelledByName \/ CancelledByHash \/ CancelledAfterRename \/ CancelledInBlocks
  BY <1>8 DEF CancelledByName, CancelledByHash, CancelledAfterRename, CancelledInBlocks,
     Cancelled, Return, Settled
<1> QED
  BY <1>1, <1>2, <1>3, <1>4, <1>5, <1>6, <1>7, <1>8 DEF Step

\* A verification keeps its own invariant, wherever the run is in its life.
LEMMA VerifyKeepsRun == RunInv /\ VerifyStep => RunInv'
<1> SUFFICES ASSUME RunInv, VerifyStep PROVE RunInv'
  OBVIOUS
<1>1. /\ stage \in {"verify", "reverify"} /\ Step /\ ResultInv /\ RenamedInv
      /\ failures = 0 => unread = {}
  BY DEF VerifyStep, RunInv, DiskInv, Repairing
<1>2. UNCHANGED <<stage, result, par2, todo, replaced>>
  BY DEF VerifyStep, runnerVars, repairVars
<1>3. ResultInv' /\ RenamedInv'
  BY <1>1, StepVerifies, VerifyRenames
<1>4. failures' = 0 => unread' = {}
  BY <1>1, FailuresSeen
<1> QED
  BY <1>1, <1>2, <1>3, <1>4 DEF RunInv, DiskInv, ResultInv, Repairing

LEMMA RunnerSteps == RunInv /\ [RunnerNext]_allVars => RunInv'
BY EndStep, RepairEnds, QuietStep, CallStep, RepairStep, VerifyKeepsRun DEF RunnerNext, RunStep

\* The invariant holds through every sequence of runs.
THEOREM RunInvariant == RunnerSpec => []RunInv
BY RunnerStarts, RunnerSteps, PTL DEF RunnerSpec

\* A run that returns Ok leaves every file whole, and under its own name if no I/O failed
\* (OkIsWhole), whatever the runs before it have left behind.
THEOREM OkAlwaysWhole == RunnerSpec => []OkIsWhole
<1>1. RunInv => OkIsWhole
  BY DEF RunInv, WholeSet, OkIsWhole
<1> QED
  BY <1>1, RunInvariant, PTL

\* Recovery files are deleted only while every file is whole (PurgedIsWhole): the
\* verification that led to the purge is still true at each deletion, whatever was killed,
\* cancelled or failed before, and a failed rename notwithstanding.
THEOREM PurgeIsSafe == RunnerSpec => PurgedIsWhole
<1>1. RunInv /\ [RunnerNext]_allVars => [par2' # par2 => AllWhole]_allVars
  <2> SUFFICES ASSUME RunInv, RunnerNext, par2' # par2 PROVE AllWhole
    BY DEF allVars, runnerVars
  <2>1. \E v \in Volumes : PurgeOne(v)
    BY DEF RunnerNext, RunStep, CancelSeen, Load, LoadFails, Scan, VerifyStep, VerifyCancelled, AllGood,
       VerifyBad, BeginRepair, Rebuild, Replace, RepairCancelled, RepairFailed, RepairDone,
       Reverify, NoPurge, BeginPurge, PurgeFailed, Purged, PurgeOne, Begin, Killed, End,
       RaiseFlag, Retired, Untouched, runnerVars, repairVars, allVars
  <2> QED
    BY <2>1 DEF PurgeOne, RunInv, WholeSet
<1> QED
  BY <1>1, RunInvariant, PTL DEF RunnerSpec, PurgedIsWhole

-----------------------------------------------------------------------------
(***************************************************************************)
(* Whole files are left alone.                                             *)
(***************************************************************************)

\* No two protected files have the same bytes.
NoTwins == \A f, g \in Files : Bytes[f] = Bytes[g] => f = g

\* While files are being replaced, the temps still to come are whole.
TempsInv == stage = "commit" => \A f \in todo \ replaced : Whole(TempOf[f], f)

\* The steps that leave the disk alone: all but the renames, and the repair's.
LEMMA DiskSteps ==
  ASSUME [RunnerNext]_allVars
  PROVE  \/ disk' = disk
         \/ VerifyStep /\ \E f \in Files : RenameFound(f)
         \/ BeginRepair \/ Rebuild \/ RepairCancelled \/ RepairFailed
         \/ \E f \in Files : Replace(f)
<1>1. VerifyStep => disk' = disk \/ \E f \in Files : RenameFound(f)
  BY DEF VerifyStep, Step, SkipByName, NotThere, VerifiedByName, DamagedByName,
     UnreadableByName, RenameSkipped, RenameFails, MapBlocks, BlocksUnreadable, SkipExtra,
     MatchExtra, UnreadableExtra, CancelledByName, EndByName, CancelledByHash, ApplyMatches,
     CancelledAfterRename, CountMissing, CancelledInBlocks, Finish, Cancelled
<1>2. \/ CancelSeen \/ Load \/ LoadFails \/ Scan \/ VerifyCancelled \/ AllGood \/ VerifyBad \/ RepairDone
      \/ Reverify \/ NoPurge \/ BeginPurge \/ PurgeFailed \/ Purged
      \/ (\E v \in Volumes : PurgeOne(v)) \/ (\E repairing \in BOOLEAN : Begin(repairing))
      \/ RaiseFlag \/ Killed \/ Retired \/ UNCHANGED allVars
      => disk' = disk
  BY DEF CancelSeen, Load, LoadFails, Scan, VerifyCancelled, AllGood, VerifyBad, RepairDone, Reverify,
     NoPurge, BeginPurge, PurgeFailed, Purged, PurgeOne, Begin, RaiseFlag, Killed, Retired,
     allVars, vars
<1> QED
  BY <1>1, <1>2 DEF RunnerNext, RunStep

\* No step touches a file that is whole under its own name: a verification moves only what
\* is another file's, to a free name; a repair writes temps, and replaces with whole bytes.
LEMMA WholeStays ==
  ASSUME NoTwins, RunInv, TempsInv, [RunnerNext]_allVars, NEW f \in Files, Whole(f, f)
  PROVE  disk'[f] = disk[f]
<1>0. /\ disk \in [Names -> Holdings] /\ \A p \in Names : Possible(disk[p])
      /\ f \in Names /\ disk[f] = WholeOf(f)
  BY TempsAreExtras, WholeMeans DEF RunInv, DiskInv, ResultTypes, PhaseInv, Whole
<1>1. ASSUME VerifyStep, NEW g \in Files, RenameFound(g) PROVE disk'[f] = disk[f]
  <2>1. ~Exists(g) /\ g \in toRename /\ pc = "rename" /\ disk' = Moved(path[g], g)
    BY <1>1 DEF RenameFound
  <2>2. Whole(path[g], g) /\ path[g] \in Names
    BY <1>1, <2>1 DEF VerifyStep, RunInv, Repairing, ResultInv, PlaceInv, Placed, Settled
  <2>3. path[g] # g /\ f # g /\ g \in Names
    BY <1>0, <2>1, <2>2, WholeExists, TempsAreExtras
  <2>4. disk[path[g]] = WholeOf(g)
    BY <1>0, <2>2, WholeMeans DEF Whole
  <2>5. f # path[g]
    BY <1>0, <2>3, <2>4 DEF NoTwins, WholeOf
  <2> QED
    BY <1>0, <2>1, <2>2, <2>3, <2>5, MovedFacts
<1>2. CASE BeginRepair \/ Rebuild \/ RepairCancelled \/ RepairFailed
  <2>1. todo \subseteq Files /\ todo \ replaced \subseteq Files
        /\ \A g \in todo : todo \ {g} \subseteq Files
    BY DEF RunInv, DiskInv
  <2>2. BeginRepair => todo' \subseteq Files
    BY DEF BeginRepair, RunInv, DiskInv, ResultTypes
  <2>3. \E S \in SUBSET Files : \/ disk' = WithTemps(S, Scratch)
                              \/ disk' = WithTemps(S, WholeOf)
                              \/ disk' = WithTemps(S, Gone)
    <3>1. CASE BeginRepair
      BY <2>2, <3>1 DEF BeginRepair
    <3>2. CASE Rebuild \/ RepairCancelled
      BY <2>1, <3>2 DEF Rebuild, RepairCancelled
    <3>3. CASE RepairFailed
      BY <2>1, <3>3 DEF RepairFailed
    <3> QED
      BY <1>2, <3>1, <3>2, <3>3
  <2> QED
    BY <1>0, <2>3, TempsWritten, TempsAreExtras
<1>3. ASSUME NEW g \in Files, Replace(g) PROVE disk'[f] = disk[f]
  <2>1. disk' = Moved(TempOf[g], g) /\ Whole(TempOf[g], g)
    BY <1>3 DEF Replace, TempsInv
  <2>2. /\ disk'[g] = disk[TempOf[g]]
        /\ \A n \in Names \ {TempOf[g], g} : disk'[n] = disk[n]
    BY <1>0, <2>1, MovedFacts, TempsAreExtras
  <2>3. disk[TempOf[g]] = WholeOf(g)
    BY <1>0, <2>1, WholeMeans, TempsAreExtras DEF Whole
  <2> QED
    BY <1>0, <2>2, <2>3, TempsAreExtras
<1> QED
  BY <1>1, <1>2, <1>3, DiskSteps

\* The temps of a repair are whole from the gate on.
LEMMA TempsStayWhole == RunInv /\ TempsInv /\ [RunnerNext]_allVars => TempsInv'
<1> SUFFICES ASSUME RunInv, TempsInv, [RunnerNext]_allVars, stage' = "commit",
                    NEW f \in todo' \ replaced'
             PROVE  Whole(TempOf[f], f)'
  BY DEF TempsInv
<1>0. disk \in [Names -> Holdings] /\ todo \subseteq Files
  BY DEF RunInv, DiskInv, ResultTypes
<1>1. CASE Rebuild
  <2>1. f \in todo /\ f \in Files /\ disk' = WithTemps(todo, WholeOf)
    BY <1>0, <1>1 DEF Rebuild, repairVars
  <2>2. disk'[TempOf[f]] = WholeOf(f)
    BY <1>0, <2>1, TempsHold
  <2> QED
    BY <2>1, <2>2, WholeMeans, ContentsPossible DEF Whole
<1>2. ASSUME NEW g \in Files, Replace(g) PROVE Whole(TempOf[f], f)'
  <2>1. /\ stage = "commit" /\ todo' = todo /\ f \in todo \ replaced /\ f # g /\ f \in Files
        /\ disk' = Moved(TempOf[g], g)
    BY <1>0, <1>2 DEF Replace
  <2>2. TempOf[f] \notin {TempOf[g], g}
    BY <2>1, TempsAreExtras, RepairerAssumption
  <2>3. disk'[TempOf[f]] = disk[TempOf[f]]
    BY <1>0, <2>1, <2>2, MovedFacts, TempsAreExtras
  <2> QED
    BY <2>1, <2>3 DEF TempsInv, Whole
<1>3. CASE RaiseFlag \/ UNCHANGED allVars
  BY <1>3 DEF RaiseFlag, allVars, vars, runnerVars, repairVars, TempsInv, Whole
<1>4. CASE Retired
  BY <1>4 DEF Retired, allVars, runnerVars
<1>5. stage' # "commit" \/ Rebuild \/ (\E g \in Files : Replace(g)) \/ RaiseFlag \/ Retired
      \/ UNCHANGED allVars
  BY DEF RunnerNext, RunStep, CancelSeen, Load, LoadFails, Scan, VerifyStep, VerifyCancelled, AllGood,
     VerifyBad, BeginRepair, RepairCancelled, RepairFailed, RepairDone, Reverify, NoPurge,
     BeginPurge, PurgeFailed, Purged, PurgeOne, Begin, Killed, End, runnerVars
<1> QED
  BY <1>1, <1>2, <1>3, <1>4, <1>5

\* A file that is whole under its own name is never touched again (IntactStaysIntact): in
\* no run, by no clean-up, and whatever fails.  Of two files with the same bytes one can
\* lose its name to the other, if it cannot be read.
THEOREM IntactNeverTouched == NoTwins => (RunnerSpec => IntactStaysIntact)
<1> SUFFICES ASSUME NoTwins PROVE RunnerSpec => IntactStaysIntact
  OBVIOUS
<1>1. RunnerInit => TempsInv
  BY DEF RunnerInit, TempsInv
<1>2. RunInv /\ TempsInv /\ [RunnerNext]_allVars =>
        [\A f \in Files : Whole(f, f) => disk'[f] = disk[f]]_allVars
  BY WholeStays
<1> QED
  BY <1>1, <1>2, RunInvariant, TempsStayWhole, PTL DEF RunnerSpec, IntactStaysIntact

\* What a run has replaced holds its protected bytes for as long as the run and what it
\* leaves behind last (ReplacedIsWhole), however the run ends.
THEOREM ReplacedStaysWhole == NoTwins => (RunnerSpec => []ReplacedIsWhole)
<1> SUFFICES ASSUME NoTwins PROVE RunnerSpec => []ReplacedIsWhole
  OBVIOUS
<1>1. RunnerInit => TempsInv /\ ReplacedIsWhole
  BY DEF RunnerInit, TempsInv, ReplacedIsWhole
<1>2. RunInv /\ TempsInv /\ ReplacedIsWhole /\ [RunnerNext]_allVars => ReplacedIsWhole'
  <2> SUFFICES ASSUME RunInv, TempsInv, ReplacedIsWhole, [RunnerNext]_allVars,
                      NEW f \in replaced'
               PROVE  Whole(f, f)'
    BY DEF ReplacedIsWhole
  <2>1. CASE f \in replaced
    <3>1. f \in Files /\ Whole(f, f)
      BY <2>1 DEF ReplacedIsWhole, RunInv, DiskInv
    <3> QED
      BY <3>1, WholeStays DEF Whole
  <2>2. CASE f \notin replaced
    <3>1. Replace(f) /\ f \in Files
      BY <2>2 DEF RunnerNext, RunStep, CancelSeen, Load, LoadFails, Scan, VerifyStep, VerifyCancelled,
         AllGood, VerifyBad, BeginRepair, Rebuild, RepairCancelled, RepairFailed, RepairDone,
         Reverify, NoPurge, BeginPurge, PurgeFailed, Purged, PurgeOne, Begin, Killed, End,
         RaiseFlag, Retired, Replace, Untouched, runnerVars, repairVars, allVars
    <3>2. disk' = Moved(TempOf[f], f) /\ Whole(TempOf[f], f)
      BY <3>1 DEF Replace, TempsInv
    <3>3. disk'[f] = disk[TempOf[f]]
      BY <3>1, <3>2, MovedFacts, TempsAreExtras DEF RunInv, DiskInv, ResultTypes
    <3> QED
      BY <3>2, <3>3 DEF Whole
  <2> QED
    BY <2>1, <2>2
<1> QED
  BY <1>1, <1>2, RunInvariant, TempsStayWhole, PTL DEF RunnerSpec
-----------------------------------------------------------------------------
(***************************************************************************)
(* Types.                                                                  *)
(***************************************************************************)

\* The packets of some volumes are a number, and no more than those of all.
LEMMA PacketsBounded ==
  ASSUME NEW S \in SUBSET Volumes
  PROVE  Packets(S) \in 0 .. Packets(Volumes)
<1>1. /\ IsFiniteSet(Volumes) /\ IsFiniteSet(S)
      /\ \A v \in Volumes : PacketsIn[v] \in Nat
  BY RepairerAssumption, FS_Subset
<1>2. Packets(S) = Total(PacketsIn, S) /\ Packets(Volumes) = Total(PacketsIn, Volumes)
  BY DEF Packets, MapThenSumSet, MapThenFoldSet, Total, SumIter, AddsUp
<1>3. Total(PacketsIn, S) \in Nat /\ Total(PacketsIn, Volumes) \in Nat
  BY <1>1, TotalType
<1>4. Total(PacketsIn, S) <= Total(PacketsIn, Volumes)
  BY <1>1, TotalOfPart
<1> QED
  BY <1>2, <1>3, <1>4

\* What a run has loaded and what it is about to purge, and its phases.
RunnerParts ==
  /\ stage \in {"idle", "load", "scan", "verify", "repair", "commit", "repaired", "reverify",
                "purge", "purging"}
  /\ result \in {"none", "running", "ok", "failed", "cancelled", "crashed"}
  /\ loaded \in 0 .. Packets(Volumes)
  /\ toPurge \subseteq par2

LEMMA RunnerPartsKept == RunInv /\ RunnerParts /\ [RunnerNext]_allVars => RunnerParts'
<1> SUFFICES ASSUME RunInv, RunnerParts, [RunnerNext]_allVars PROVE RunnerParts'
  OBVIOUS
<1> USE DEF RunnerParts
<1>0. Packets(Volumes)' = Packets(Volumes)
  BY DEF Packets, MapThenSumSet, MapThenFoldSet
<1>1. 0 \in 0 .. Packets(Volumes)
  BY PacketsBounded
<1>2. CASE Load
  <2>1. PICK lost \in SUBSET par2 : loaded' = Packets(par2 \ lost)
    BY <1>2 DEF Load
  <2>2. par2 \ lost \in SUBSET Volumes
    BY DEF RunInv, DiskInv
  <2>3. loaded' \in 0 .. Packets(Volumes)
    BY <2>1, <2>2, PacketsBounded
  <2> QED
    BY <1>0, <1>2, <2>3 DEF Load
<1>3. CASE \E v \in Volumes : PurgeOne(v)
  BY <1>0, <1>3 DEF PurgeOne
<1>4. CASE ~Load /\ ~(\E v \in Volumes : PurgeOne(v))
  <2>1. \/ stage' = "idle" /\ result' \in {"ok", "failed", "cancelled", "crashed"}
           /\ loaded' = 0 /\ toPurge' = {}
        \/ /\ stage' \in {stage, "load", "scan", "verify", "repair", "commit", "repaired",
                          "reverify", "purge", "purging"}
           /\ result' \in {result, "running"} /\ loaded' = loaded
           /\ par2' = par2 /\ toPurge' \in {toPurge, par2}
    <3> USE DEF runnerVars, repairVars, modeVars, Untouched, End
    <3>1. CASE RunStep
      BY <1>4, <3>1 DEF RunStep, CancelSeen, LoadFails, Scan, VerifyStep, VerifyCancelled, AllGood,
         VerifyBad, BeginRepair, Rebuild, Replace, RepairCancelled, RepairFailed, RepairDone,
         Reverify, NoPurge, BeginPurge, PurgeFailed, Purged
    <3>2. CASE \/ \E repairing \in BOOLEAN : Begin(repairing)
               \/ RaiseFlag \/ Killed \/ Retired \/ UNCHANGED allVars
      BY <3>2 DEF Begin, RaiseFlag, Killed, Retired, allVars
    <3> QED
      BY <3>1, <3>2 DEF RunnerNext
  <2> QED
    BY <1>0, <1>1, <2>1
<1> QED
  BY <1>2, <1>3, <1>4

\* Every variable has its type, for every number of volumes and packets: a run never counts
\* more recovery blocks than there are, and never purges a file twice (RunnerTypeOK).
THEOREM RunnerTypes == RunnerSpec => []RunnerTypeOK
<1>1. RunnerInit => RunnerParts
  BY PacketsBounded DEF RunnerInit, RunnerParts
<1>2. RunInv /\ RunnerParts => RunnerTypeOK
  BY DEF RunInv, DiskInv, ResultTypes, RunnerParts, RunnerTypeOK
<1> QED
  BY <1>1, <1>2, RunInvariant, RunnerPartsKept, PTL DEF RunnerSpec
=============================================================================
