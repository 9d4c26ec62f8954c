--------------------------- MODULE Verify_proofs ---------------------------
(***************************************************************************)
(* Theorems about Verify, for every set of files and other names, every    *)
(* choice of files that share their bytes, every disk and number of I/O    *)
(* failures.                                                               *)
(***************************************************************************)
EXTENDS Verify, FiniteSetTheorems, WellFoundedInduction, TLAPS

-----------------------------------------------------------------------------
(* Lemmas about the data.                                                  *)

\* Nothing is a content, and no file's: what is whole exists.
LEMMA NothingHeld ==
  /\ Nothing \in Holdings /\ Possible(Nothing)
  /\ \A f \in Files : SeenAs(f, Nothing) = Absent
  /\ Absent # Intact
BY DEF Nothing, Possible, Holdings, Lengths, SeenAs, Absent, Intact

\* Only what is there can be whole.
LEMMA WholeExists ==
  ASSUME NEW p \in Names, NEW f \in Files, Whole(p, f)
  PROVE  Exists(p)
BY NothingHeld DEF Whole, Exists

\* What is there and not whole is damaged, not absent.
LEMMA SeenIsThere ==
  ASSUME NEW held \in Holdings, Possible(held), held # Nothing, NEW f \in Files
  PROVE  SeenAs(f, held).len # "none"
<1>1. held.of \in Classes /\ held.len # "none" /\ held.of # "none"
  BY VerifyAssumption DEF Possible
<1> QED
  BY <1>1 DEF SeenAs

\* The block numbers of a content are numbers.
LEMMA BadBlocksTyped ==
  ASSUME NEW held \in Holdings, NEW f \in Files
  PROVE  BadBlocks(SeenAs(f, held)) \subseteq Nat
<1>1. Cells(f) \subseteq Nat \X Chunks
  BY DataAssumption DEF Cells, Blocks
<1>2. SeenAs(f, held).bad \subseteq Nat \X Chunks
  <2>1. CASE held.of = "none"
    <3>1. Bytes[f] # "none"
      BY VerifyAssumption DEF Classes
    <3>2. SeenAs(f, held) = Absent
      BY <2>1, <3>1 DEF SeenAs
    <3> QED
      BY <3>2 DEF Absent
  <2>2. CASE held.of # "none" /\ held.of = Bytes[f]
    <3>1. SeenAs(f, held) = [len |-> held.len, bad |-> held.bad]
      BY <2>2 DEF SeenAs
    <3> QED
      BY <3>1 DEF Holdings
  <2>3. CASE held.of # "none" /\ held.of # Bytes[f]
    BY <2>3, <1>1 DEF SeenAs
  <2> QED
    BY <2>1, <2>2, <2>3
<1> QED
  BY <1>2 DEF BadBlocks

\* The first of several files in the order of the map is one of them.
LEMMA FirstIsOne ==
  ASSUME NEW S \in SUBSET Files, order \in [Files -> Nat]
  PROVE  FirstOf(S) \in S \cup {"none"}
<1>1. CASE S = {}
  BY <1>1 DEF FirstOf
<1>2. CASE S # {}
  <2> DEFINE less == {pair \in Nat \X Nat : pair[1] < pair[2]}
  <2> DEFINE ranks == {order[f] : f \in S}
  <2>1. IsWellFoundedOn(less, Nat)
    BY NatLessThanWellFounded DEF OpToRel
  <2>2. ranks \subseteq Nat /\ ranks # {}
    BY <1>2
  <2>3. PICK m \in ranks : \A n \in ranks : <<n, m>> \notin less
    <3> HIDE DEF less, ranks
    <3> QED
      BY <2>1, <2>2, WFMin
  <2>4. PICK f \in S : order[f] = m
    BY <2>3
  <2>5. \A g \in S : order[f] <= order[g]
    <3> SUFFICES ASSUME NEW g \in S PROVE order[f] <= order[g]
      OBVIOUS
    <3>1. order[g] \in Nat /\ order[f] \in Nat /\ order[g] \in ranks
      OBVIOUS
    <3>2. ~ (order[g] < order[f])
      BY <2>3, <2>4, <3>1
    <3> QED
      BY <3>1, <3>2
  <2> QED
    BY <1>2, <2>5 DEF FirstOf
<1> QED
  BY <1>1, <1>2

-----------------------------------------------------------------------------
(***************************************************************************)
(* The invariant, by phases.                                               *)
(***************************************************************************)

\* The matches are applied: what verified_files says no longer changes.
Settled == pc \in {"rename", "blocks"} \/ outcome = "ok"

\* A call is running until it returns.
PhaseInv ==
  /\ outcome = "running" <=> pc # "done"
  /\ \A p \in Names : Possible(disk[p])

\* The first two passes only look: a file is listed at its own name or not at all, as
\* damaged if it is not whole there, and a match is a copy under a name nobody has.
PassInv ==
  pc \in {"byName", "byHash"} =>
    /\ toRename = {} /\ missing = {} /\ mapped = {} /\ badBlocks = [f \in Files |-> {}]
    /\ \A f \in Files :
         /\ path[f] \in {"none", f}
         /\ f \in damaged => path[f] = f /\ Exists(f) /\ ~Whole(f, f)
         /\ path[f] = f /\ f \notin damaged => Whole(f, f)
         /\ path[f] = "none" /\ Exists(f) =>
              f \in unread \/ observed \/ (pc = "byName" /\ f \in left)
    /\ pc = "byName" => found = [p \in Names |-> "none"]
    /\ pc = "byHash" =>
         /\ left \subseteq Candidates
         /\ \A p \in Names :
              found[p] # "none" =>
                found[p] \in Unmatched /\ Whole(p, found[p]) /\ p \in Candidates

\* The files that count as verified.
Located == {f \in Files : path[f] # "none" /\ f \notin damaged}

\* Each of them has a whole copy of its own: where it is listed as long as its rename is
\* still to come.
Placed ==
  \E place \in [Located -> Names] :
    /\ \A f \in Located : Whole(place[f], f)
    /\ \A f, g \in Located : place[f] = place[g] => f = g
    /\ \A f \in toRename : f \in Located /\ place[f] = path[f]

PlaceInv == Settled => Placed

\* If everything could be read, a file that is not found has nothing under its name, and
\* one that is found elsewhere is there, or whole at its own name.
SeamInv ==
  Settled /\ unread = {} =>
    /\ \A f \in Files :
         /\ f \in damaged => path[f] = f /\ Exists(f) /\ ~Whole(f, f)
         /\ path[f] = "none" => ~Exists(f)
         /\ path[f] = f /\ f \notin damaged => Whole(f, f)
         /\ path[f] \notin {"none", f} =>
              /\ path[f] \in Extras
              /\ \/ ~Exists(f) /\ Whole(path[f], f)
                 \/ f \notin toRename /\ Whole(f, f) /\ ~Exists(path[f])
    /\ \A f, g \in Files : path[f] = path[g] /\ path[f] # "none" => f = g

\* The block-level pass: an entry for each damaged file that was taken and has bad blocks.
MapInv ==
  /\ pc = "rename" => mapped = {} /\ badBlocks = [f \in Files |-> {}]
  /\ pc = "blocks" \/ outcome = "ok" =>
       /\ missing = Unmatched /\ toRename = {}
       /\ mapped \cup left \subseteq damaged \cap Sliced
       /\ \A f \in Files \ mapped : badBlocks[f] = {}
       /\ \A f \in mapped : badBlocks[f] = BadBlocks(SeenAs(f, disk[f])) /\ badBlocks[f] # {}
       /\ unread = {} =>
            \A f \in (damaged \cap Sliced) \ (left \cup mapped) :
              BadBlocks(SeenAs(f, disk[f])) = {}
  /\ outcome = "ok" => left = {}

\* The types of everything but the flag.
ResultTypes ==
  /\ disk \in [Names -> Holdings]
  /\ listing \subseteq Names /\ order \in [Files -> Nat]
  /\ observed \in BOOLEAN
  /\ pc \in VerifyPhases /\ outcome \in {"running", "ok", "cancelled"}
  /\ left \subseteq Names
  /\ path \in [Files -> Names \cup {"none"}]
  /\ missing \subseteq Files /\ damaged \subseteq Files /\ mapped \subseteq damaged
  /\ badBlocks \in [Files -> SUBSET Nat]
  /\ found \in [Names -> Files \cup {"none"}]
  /\ toRename \subseteq Files
  /\ failures \in 0 .. MaxFailures /\ unread \subseteq Names

\* What the passes establish, whoever calls: nothing here is about the flag, whose values
\* are the caller's, and the listing may be older than the disk.
ResultInv == ResultTypes /\ PhaseInv /\ PassInv /\ PlaceInv /\ SeamInv /\ MapInv

\* A flag raised before the block-level pass has been seen when that pass begins.
FlagInv ==
  /\ cancel \in VerifyPhases \cup {"no"}
  /\ pc = "blocks" \/ outcome = "ok" => cancel \in {"no", "blocks"}

VerifyInv == ResultInv /\ FlagInv

-----------------------------------------------------------------------------
\* The invariant holds when a call begins, on every disk.
LEMMA InitVerifies == Init => ResultInv
<1> SUFFICES ASSUME Init PROVE ResultInv
  OBVIOUS
<1>1. disk \in [Names -> Holdings] /\ \A p \in Names : Possible(disk[p])
  BY VerifyAssumption DEF Init
<1>2. order \in [Files -> Nat]
  <2>1. IsFiniteSet(Files)
    BY VerifyAssumption, FS_Subset DEF Names
  <2>2. Cardinality(Files) \in Nat
    BY <2>1, FS_CardinalityType
  <2> QED
    BY <2>2 DEF Init, Orders
<1>3. ResultTypes
  <2>1. MaxFailures \in Nat /\ Files \subseteq Names
    BY VerifyAssumption DEF Names
  <2> QED
    <3>1. /\ path \in [Files -> Names \cup {"none"}] /\ badBlocks \in [Files -> SUBSET Nat]
          /\ found \in [Names -> Files \cup {"none"}]
      BY DEF Init, Fresh
    <3>2. listing \subseteq Names /\ left \subseteq Names
      BY <2>1 DEF Init, Fresh
    <3>3. failures \in 0 .. MaxFailures
      BY <2>1 DEF Init
    <3> QED
      BY <1>1, <1>2, <3>1, <3>2, <3>3 DEF Init, Fresh, ResultTypes, VerifyPhases
<1>4. PhaseInv /\ PlaceInv /\ SeamInv /\ MapInv
  BY <1>1 DEF Init, Fresh, PhaseInv, PlaceInv, SeamInv, MapInv, Settled
<1>5. PassInv
  BY VerifyAssumption DEF Init, Fresh, PassInv, Names
<1> QED
  BY <1>3, <1>4, <1>5 DEF ResultInv

\* What the first pass does to one file keeps the invariant.
LEMMA ByNameVerifies ==
  ASSUME ResultInv, NEW f \in Files,
         \/ SkipByName(f) \/ NotThere(f) \/ VerifiedByName(f) \/ DamagedByName(f)
         \/ UnreadableByName(f)
  PROVE  ResultInv'
<1>1. /\ pc = "byName" /\ f \in left /\ left' = left \ {f}
      /\ UNCHANGED <<disk, inputVars, cancel, pc, outcome, missing, mapped, badBlocks, found,
                     toRename>>
  BY DEF SkipByName, NotThere, VerifiedByName, DamagedByName, UnreadableByName, Taken, resultVars
<1>2. ResultTypes'
  <2>1. /\ path' \in [Files -> Names \cup {"none"}] /\ damaged' \subseteq Files
        /\ damaged \subseteq damaged' /\ observed' \in BOOLEAN
    BY <1>1 DEF ResultInv, ResultTypes, SkipByName, NotThere, VerifiedByName, DamagedByName,
       UnreadableByName, Names, resultVars
  <2>2. failures' \in 0 .. MaxFailures /\ unread' \subseteq Names
    BY <1>1, VerifyAssumption DEF ResultInv, ResultTypes, SkipByName, NotThere, VerifiedByName,
       DamagedByName, UnreadableByName, ReadFails, Names
  <2> QED
    BY <1>1, <2>1, <2>2 DEF ResultInv, ResultTypes, inputVars
<1>3. PhaseInv' /\ PlaceInv' /\ SeamInv' /\ MapInv'
  BY <1>1 DEF ResultInv, PhaseInv, PlaceInv, SeamInv, MapInv, Settled
<1>4. PassInv'
  <2>1. /\ toRename' = {} /\ missing' = {} /\ mapped' = {}
        /\ badBlocks' = [g \in Files |-> {}] /\ found' = [p \in Names |-> "none"]
    BY <1>1 DEF ResultInv, PassInv
  <2>2. ASSUME NEW g \in Files
        PROVE  /\ path'[g] \in {"none", g}
               /\ g \in damaged' => path'[g] = g /\ Exists(g) /\ ~Whole(g, g)
               /\ path'[g] = g /\ g \notin damaged' => Whole(g, g)
               /\ path'[g] = "none" /\ Exists(g) =>
                    g \in unread' \/ observed' \/ g \in left'
    <3>1. /\ path[g] \in {"none", g}
          /\ g \in damaged => path[g] = g /\ Exists(g) /\ ~Whole(g, g)
          /\ path[g] = g /\ g \notin damaged => Whole(g, g)
          /\ path[g] = "none" /\ Exists(g) => g \in unread \/ observed \/ g \in left
          /\ path \in [Files -> Names \cup {"none"}] /\ f # "none"
      BY <1>1, VerifyAssumption DEF ResultInv, PassInv, ResultTypes, Names
    <3>2. CASE SkipByName(f)
      BY <1>1, <3>1, <3>2 DEF SkipByName, resultVars
    <3>3. CASE NotThere(f)
      BY <1>1, <3>1, <3>3 DEF NotThere, resultVars
    <3>4. CASE VerifiedByName(f)
      BY <1>1, <3>1, <3>4 DEF VerifiedByName
    <3>5. CASE DamagedByName(f)
      BY <1>1, <3>1, <3>5 DEF DamagedByName
    <3>6. CASE UnreadableByName(f)
      BY <1>1, <3>1, <3>6 DEF UnreadableByName, ReadFails, resultVars
    <3> QED
      BY <3>2, <3>3, <3>4, <3>5, <3>6
  <2> QED
    BY <1>1, <2>1, <2>2 DEF PassInv, Exists, Whole
<1> QED
  BY <1>2, <1>3, <1>4 DEF ResultInv

\* Copies stay where they are as long as nobody moves them.
LEMMA PlacedKept ==
  ASSUME Placed, UNCHANGED <<disk, path, damaged, toRename>>
  PROVE  Placed'
BY DEF Placed, Located, Whole

\* Failures are counted.
LEMMA FailuresTyped ==
  ASSUME ResultTypes, NEW p \in Names, ReadFails(p) \/ UNCHANGED <<failures, unread>>
  PROVE  failures' \in 0 .. MaxFailures /\ unread' \subseteq Names
BY VerifyAssumption DEF ResultTypes, ReadFails

\* Between the first two passes: what is left to match are names nobody has, and if there
\* is nothing to match every file has a copy at its own name.
LEMMA EndByNameVerifies == ResultInv /\ EndByName => ResultInv'
<1> SUFFICES ASSUME ResultInv, EndByName PROVE ResultInv'
  OBVIOUS
<1>1. /\ pc = "byName" /\ left = {} /\ ~observed
      /\ UNCHANGED <<disk, inputVars, cancel, observed, outcome, resultVars, found, toRename,
                     failures, unread>>
      /\ \/ Unmatched = {} /\ pc' = "rename" /\ left' = {}
         \/ pc' = "byHash" /\ left' = Candidates
  BY DEF EndByName
<1>2. outcome = "running"
  BY <1>1 DEF ResultInv, PhaseInv
<1>3. ResultTypes'
  BY <1>1 DEF ResultInv, ResultTypes, inputVars, resultVars, Candidates, VerifyPhases
<1>4. /\ toRename = {} /\ missing = {} /\ mapped = {} /\ badBlocks = [f \in Files |-> {}]
      /\ found = [p \in Names |-> "none"]
      /\ \A f \in Files :
           /\ path[f] \in {"none", f}
           /\ f \in damaged => path[f] = f /\ Exists(f) /\ ~Whole(f, f)
           /\ path[f] = f /\ f \notin damaged => Whole(f, f)
           /\ path[f] = "none" /\ Exists(f) => f \in unread
  BY <1>1 DEF ResultInv, PassInv
<1>5. PhaseInv' /\ MapInv'
  BY <1>1, <1>2, <1>4 DEF ResultInv, PhaseInv, MapInv, resultVars
<1>6. CASE pc' = "byHash" /\ left' = Candidates
  <2>1. PassInv'
    BY <1>1, <1>4, <1>6 DEF PassInv, Exists, Whole, Candidates, Unmatched, resultVars, inputVars
  <2>2. PlaceInv' /\ SeamInv'
    BY <1>1, <1>2, <1>6 DEF PlaceInv, SeamInv, Settled
  <2> QED
    BY <1>3, <1>5, <2>1, <2>2 DEF ResultInv
<1>7. CASE Unmatched = {} /\ pc' = "rename" /\ left' = {}
  <2>1. PassInv'
    BY <1>7 DEF PassInv
  <2>2. \A f \in Files : path[f] = f /\ (f \in damaged \/ Whole(f, f))
    <3>1. \A f \in Files : path[f] # "none" \/ f \in damaged
      BY <1>7 DEF Unmatched
    <3> QED
      BY <3>1, <1>4
  <2>3. PlaceInv'
    <3> DEFINE place == [f \in Located |-> f]
    <3>1. place \in [Located -> Names] /\ \A f \in Located : Whole(place[f], f)
      BY <2>2 DEF Located, Names
    <3>2. Placed
      BY <1>4, <3>1 DEF Placed
    <3> QED
      BY <1>1, <3>2, PlacedKept DEF PlaceInv, resultVars
  <2>4. SeamInv'
    <3>1. \A f \in Files : f # "none"
      BY VerifyAssumption DEF Names
    <3> QED
      BY <1>1, <1>4, <2>2, <3>1 DEF SeamInv, Exists, Whole, resultVars
  <2> QED
    BY <1>3, <1>5, <2>1, <2>3, <2>4 DEF ResultInv
<1> QED
  BY <1>1, <1>6, <1>7

\* A name is matched with one of the files it is a copy of.
LEMMA ByHashVerifies ==
  ASSUME ResultInv, NEW p \in Names, SkipExtra(p) \/ MatchExtra(p) \/ UnreadableExtra(p)
  PROVE  ResultInv'
<1>1. /\ pc = "byHash" /\ p \in left /\ left' = left \ {p}
      /\ UNCHANGED <<disk, inputVars, cancel, pc, outcome, resultVars, toRename>>
  BY DEF SkipExtra, MatchExtra, UnreadableExtra, Taken
<1>2. MayBe(p) \subseteq Unmatched /\ Unmatched \subseteq Files /\ order \in [Files -> Nat]
      /\ found \in [Names -> Files \cup {"none"}]
  BY DEF MayBe, Unmatched, ResultInv, ResultTypes
<1>3. PICK f \in MayBe(p) \cup {"none"} :
        found' = found \/ found' = [found EXCEPT ![p] = f]
  <2>1. CASE SkipExtra(p)
    BY <2>1 DEF SkipExtra
  <2>2. CASE MatchExtra(p)
    <3>1. FirstOf(MayBe(p)) \in MayBe(p) \cup {"none"}
      BY <1>2, FirstIsOne
    <3> QED
      BY <2>2, <3>1 DEF MatchExtra
  <2>3. CASE UnreadableExtra(p)
    <3> DEFINE rest == MayBe(p) \ {FirstOf(MayBe(p))}
    <3>1. FirstOf(rest) \in rest \cup {"none"}
      BY <1>2, FirstIsOne
    <3> QED
      BY <2>3, <3>1 DEF UnreadableExtra
  <2> QED
    BY <2>1, <2>2, <2>3
<1>4. f # "none" => f \in Unmatched /\ f \in Files /\ Whole(p, f)
  BY <1>2, <1>3 DEF MayBe
<1>5. ResultTypes'
  <2>1. found' \in [Names -> Files \cup {"none"}]
    BY <1>2, <1>3, <1>4
  <2>2. failures' \in 0 .. MaxFailures /\ unread' \subseteq Names /\ observed' \in BOOLEAN
    <3>1. observed' \in BOOLEAN
      BY DEF ResultInv, ResultTypes, SkipExtra, MatchExtra, UnreadableExtra
    <3>2. ReadFails(p) \/ UNCHANGED <<failures, unread>>
      BY DEF SkipExtra, MatchExtra, UnreadableExtra
    <3> QED
      BY <3>1, <3>2, FailuresTyped DEF ResultInv
  <2> QED
    BY <1>1, <2>1, <2>2 DEF ResultInv, ResultTypes, inputVars, resultVars
<1>6. PhaseInv' /\ PlaceInv' /\ SeamInv' /\ MapInv'
  BY <1>1 DEF ResultInv, PhaseInv, PlaceInv, SeamInv, MapInv, Settled, resultVars
<1>7. PassInv'
  <2>1. unread \subseteq unread' /\ (observed => observed')
    BY DEF SkipExtra, MatchExtra, UnreadableExtra, ReadFails
  <2>2. \A q \in Names :
          found'[q] # "none" => found'[q] \in Unmatched /\ Whole(q, found'[q]) /\ q \in Candidates
    BY <1>1, <1>2, <1>3, <1>4 DEF ResultInv, PassInv
  <2> QED
    BY <1>1, <2>1, <2>2
    DEF ResultInv, PassInv, Exists, Whole, Candidates, Unmatched, resultVars, inputVars
<1> QED
  BY <1>5, <1>6, <1>7 DEF ResultInv

\* Every matched file gets one of the names that are copies of it, and no two files the same.
LEMMA ApplyMatchesVerifies == ResultInv /\ ApplyMatches => ResultInv'
<1> SUFFICES ASSUME ResultInv, ApplyMatches PROVE ResultInv'
  OBVIOUS
<1>1. /\ pc = "byHash" /\ left = {} /\ ~observed /\ pc' = "rename" /\ toRename' = MatchedFiles
      /\ UNCHANGED <<disk, inputVars, cancel, observed, outcome, left, missing, damaged, mapped,
                     badBlocks, found, failures, unread>>
  BY DEF ApplyMatches
<1>2. PICK pick \in [MatchedFiles -> Names] :
        /\ \A f \in MatchedFiles : found[pick[f]] = f
        /\ path' = [f \in Files |-> IF f \in MatchedFiles THEN pick[f] ELSE path[f]]
  BY DEF ApplyMatches
<1>3. outcome = "running"
  BY <1>1 DEF ResultInv, PhaseInv
<1>4. /\ missing = {} /\ mapped = {} /\ badBlocks = [f \in Files |-> {}]
      /\ \A f \in Files :
           /\ path[f] \in {"none", f}
           /\ f \in damaged => path[f] = f /\ Exists(f) /\ ~Whole(f, f)
           /\ path[f] = f /\ f \notin damaged => Whole(f, f)
           /\ path[f] = "none" /\ Exists(f) => f \in unread
      /\ \A p \in Names :
           found[p] # "none" =>
             found[p] \in Unmatched /\ Whole(p, found[p]) /\ p \in Candidates
  BY <1>1 DEF ResultInv, PassInv
<1>5. \A f \in MatchedFiles :
        /\ f \in Files /\ path[f] = "none" /\ f \notin damaged /\ pick[f] \in Names
        /\ Whole(pick[f], f) /\ Exists(pick[f]) /\ \A g \in Files : path[g] # pick[f]
  <2> SUFFICES ASSUME NEW f \in MatchedFiles
               PROVE  /\ f \in Files /\ path[f] = "none" /\ f \notin damaged
                      /\ pick[f] \in Names /\ Whole(pick[f], f) /\ Exists(pick[f])
                      /\ \A g \in Files : path[g] # pick[f]
    OBVIOUS
  <2>1. found[pick[f]] = f /\ f # "none" /\ pick[f] \in Names
    BY <1>2 DEF MatchedFiles
  <2>2. f \in Unmatched /\ Whole(pick[f], f) /\ pick[f] \in Candidates
    BY <1>4, <2>1
  <2> QED
    BY <2>1, <2>2 DEF Unmatched, Candidates
<1>6. \A f, g \in MatchedFiles : pick[f] = pick[g] => f = g
  BY <1>2
<1>7. ResultTypes'
  <2>1. path' \in [Files -> Names \cup {"none"}]
    BY <1>2, <1>5 DEF ResultInv, ResultTypes
  <2>2. MatchedFiles \subseteq Files
    BY <1>5
  <2> QED
    BY <1>1, <2>1, <2>2 DEF ResultInv, ResultTypes, inputVars, VerifyPhases
<1>8. PhaseInv' /\ PassInv' /\ MapInv'
  BY <1>1, <1>3, <1>4 DEF ResultInv, PhaseInv, PassInv, MapInv
<1>9. PlaceInv'
  <2> DEFINE there == {f \in Files : path'[f] # "none" /\ f \notin damaged}
  <2> DEFINE place == [f \in there |-> path'[f]]
  <2>1. \A f \in there : path'[f] \in Names /\ Whole(path'[f], f)
    <3>1. \A f \in Files : f \in Names
      BY DEF Names
    <3> QED
      BY <1>2, <1>4, <1>5, <3>1
  <2>2. \A f, g \in there : path'[f] = path'[g] => f = g
    BY <1>2, <1>4, <1>5, <1>6
  <2>3. MatchedFiles \subseteq there
    <3>1. "none" \notin Names
      BY VerifyAssumption
    <3> QED
      BY <1>2, <1>5, <3>1
  <2>4. \E at \in [there -> Names] :
          /\ \A f \in there : Whole(at[f], f)
          /\ \A f, g \in there : at[f] = at[g] => f = g
          /\ \A f \in MatchedFiles : f \in there /\ at[f] = path'[f]
    <3>1. place \in [there -> Names]
      BY <2>1
    <3>2. \A f \in there : Whole(place[f], f)
      BY <2>1
    <3>3. /\ \A f, g \in there : place[f] = place[g] => f = g
          /\ \A f \in MatchedFiles : f \in there /\ place[f] = path'[f]
      BY <2>2, <2>3
    <3> QED
      BY <3>1, <3>2, <3>3
  <2>5. there = Located'
    BY <1>1 DEF Located
  <2> HIDE DEF there
  <2> QED
    BY <1>1, <2>4, <2>5 DEF PlaceInv, Placed, Whole
<1>10. SeamInv'
  <2> SUFFICES ASSUME unread = {}
               PROVE  SeamInv'
    BY <1>1 DEF SeamInv
  <2>0. \A f \in Files : f \in Names /\ f # "none"
    BY VerifyAssumption DEF Names
  <2>1. \A f \in MatchedFiles : pick[f] \in Extras /\ pick[f] # "none"
    <3> SUFFICES ASSUME NEW f \in MatchedFiles, pick[f] \in Files PROVE FALSE
      BY <1>5, VerifyAssumption DEF Names
    <3> QED
      BY <1>4, <1>5
  <2>2. \A f \in Files :
          /\ f \in damaged => path'[f] = f /\ Exists(f) /\ ~Whole(f, f)
          /\ path'[f] = "none" => ~Exists(f)
          /\ path'[f] = f /\ f \notin damaged => Whole(f, f)
          /\ path'[f] \notin {"none", f} =>
               path'[f] \in Extras /\ ~Exists(f) /\ Whole(path'[f], f)
    <3> SUFFICES ASSUME NEW f \in Files
                 PROVE  /\ f \in damaged => path'[f] = f /\ Exists(f) /\ ~Whole(f, f)
                        /\ path'[f] = "none" => ~Exists(f)
                        /\ path'[f] = f /\ f \notin damaged => Whole(f, f)
                        /\ path'[f] \notin {"none", f} =>
                             path'[f] \in Extras /\ ~Exists(f) /\ Whole(path'[f], f)
      OBVIOUS
    <3>1. CASE f \in MatchedFiles
      BY <1>2, <1>4, <1>5, <2>1, <3>1
    <3>2. CASE f \notin MatchedFiles
      BY <1>2, <1>4, <3>2
    <3> QED
      BY <3>1, <3>2
  <2>3. \A f, g \in Files : path'[f] = path'[g] /\ path'[f] # "none" => f = g
    BY <1>2, <1>4, <1>5, <1>6
  <2> QED
    BY <1>1, <2>2, <2>3 DEF SeamInv, Exists, Whole
<1> QED
  BY <1>7, <1>8, <1>9, <1>10 DEF ResultInv

\* What a rename does to the names.
LEMMA MovedFacts ==
  ASSUME disk \in [Names -> Holdings], NEW p \in Names, NEW q \in Names, p # q,
         disk' = Moved(p, q)
  PROVE  /\ disk' \in [Names -> Holdings] /\ disk'[q] = disk[p] /\ disk'[p] = Nothing
         /\ \A n \in Names \ {p, q} : disk'[n] = disk[n]
BY NothingHeld DEF Moved

\* A rename that is skipped or fails changes nothing but what is left to do.
LEMMA RenameSkippedVerifies ==
  ASSUME ResultInv, NEW f \in Files, RenameSkipped(f) \/ RenameFails(f)
  PROVE  ResultInv'
<1>1. /\ pc = "rename" /\ toRename' = toRename \ {f}
      /\ UNCHANGED <<disk, inputVars, cancel, observed, pc, outcome, left, resultVars, found,
                     unread>>
  BY DEF RenameSkipped, RenameFails
<1>2. ResultTypes'
  <2>1. failures' \in 0 .. MaxFailures
    BY VerifyAssumption DEF ResultInv, ResultTypes, RenameSkipped, RenameFails
  <2> QED
    BY <1>1, <2>1 DEF ResultInv, ResultTypes, inputVars, resultVars
<1>3. PhaseInv' /\ PassInv' /\ MapInv'
  BY <1>1 DEF ResultInv, PhaseInv, PassInv, MapInv, resultVars
<1>4. PlaceInv'
  BY <1>1 DEF ResultInv, PlaceInv, Placed, Settled, Located, Whole, resultVars
<1>5. SeamInv'
  BY <1>1 DEF ResultInv, SeamInv, Settled, Exists, Whole, resultVars
<1> QED
  BY <1>2, <1>3, <1>4, <1>5 DEF ResultInv

\* A rename moves a file's copy to the file's own, free name.
LEMMA RenameFoundVerifies ==
  ASSUME ResultInv, NEW f \in Files, RenameFound(f)
  PROVE  ResultInv'
<1> DEFINE p == path[f]
<1>1. /\ pc = "rename" /\ f \in toRename /\ ~Exists(f) /\ disk' = Moved(p, f)
      /\ toRename' = toRename \ {f}
      /\ UNCHANGED <<inputVars, cancel, observed, pc, outcome, left, resultVars, found, failures,
                     unread>>
  BY DEF RenameFound
<1>2. PICK place \in [Located -> Names] :
        /\ \A g \in Located : Whole(place[g], g)
        /\ \A g, h \in Located : place[g] = place[h] => g = h
        /\ \A g \in toRename : g \in Located /\ place[g] = path[g]
  BY <1>1 DEF ResultInv, PlaceInv, Placed, Settled
<1>3. f \in Located /\ p = place[f] /\ p \in Names /\ f \in Names /\ Whole(p, f) /\ p # f
  <2>1. f \in Located /\ p = place[f] /\ p \in Names /\ f \in Names /\ Whole(p, f)
    BY <1>1, <1>2 DEF Names
  <2> QED
    BY <1>1, <2>1, WholeExists
<1> HIDE DEF p
<1>4. /\ disk' \in [Names -> Holdings] /\ disk'[f] = disk[p] /\ disk'[p] = Nothing
      /\ \A n \in Names \ {p, f} : disk'[n] = disk[n]
  BY <1>1, <1>3, MovedFacts DEF ResultInv, ResultTypes
<1>5. ResultTypes'
  BY <1>1, <1>4 DEF ResultInv, ResultTypes, inputVars, resultVars
<1>6. PhaseInv'
  <2>1. \A n \in Names : Possible(disk'[n])
    BY <1>3, <1>4, NothingHeld DEF ResultInv, PhaseInv
  <2> QED
    BY <1>1, <2>1 DEF ResultInv, PhaseInv
<1>7. PassInv' /\ MapInv'
  <2>1. outcome # "ok"
    BY <1>1 DEF ResultInv, PhaseInv
  <2> QED
    BY <1>1, <2>1 DEF ResultInv, PassInv, MapInv, resultVars
<1>8. PlaceInv'
  <2> DEFINE moved == [place EXCEPT ![f] = f]
  <2>1. Located' = Located
    BY <1>1 DEF Located, resultVars
  <2>2. moved \in [Located -> Names] /\ moved[f] = f
        /\ \A g \in Located \ {f} : moved[g] = place[g] /\ place[g] \in Names
    BY <1>3
  <2>3. \A g \in Located \ {f} : place[g] # p /\ place[g] # f
    <3> SUFFICES ASSUME NEW g \in Located \ {f} PROVE place[g] # p /\ place[g] # f
      OBVIOUS
    <3>1. place[g] # p
      BY <1>2, <1>3
    <3>2. Exists(place[g])
      BY <1>2, WholeExists DEF Located
    <3> QED
      BY <1>1, <3>1, <3>2
  <2>4. \A g \in Located : SeenAs(g, disk'[moved[g]]) = Intact
    <3> SUFFICES ASSUME NEW g \in Located PROVE SeenAs(g, disk'[moved[g]]) = Intact
      OBVIOUS
    <3>1. CASE g = f
      BY <1>3, <1>4, <2>2, <3>1 DEF Whole
    <3>2. CASE g # f
      BY <1>2, <1>4, <2>2, <2>3, <3>2 DEF Whole
    <3> QED
      BY <3>1, <3>2
  <2>5. \A g, h \in Located : moved[g] = moved[h] => g = h
    BY <1>2, <2>2, <2>3
  <2>6. \A g \in toRename' : g \in Located /\ moved[g] = path[g]
    BY <1>1, <1>2, <2>2
  <2> HIDE DEF moved
  <2>7. \E at \in [Located' -> Names] :
          /\ \A g \in Located' : SeenAs(g, disk'[at[g]]) = Intact
          /\ \A g, h \in Located' : at[g] = at[h] => g = h
          /\ \A g \in toRename' : g \in Located' /\ at[g] = path'[g]
    BY <1>1, <2>1, <2>2, <2>4, <2>5, <2>6 DEF resultVars
  <2> QED
    BY <2>7 DEF PlaceInv, Placed, Whole
<1>9. SeamInv'
  <2> SUFFICES ASSUME unread = {}
               PROVE  SeamInv'
    BY <1>1 DEF SeamInv
  <2>0. path' = path /\ damaged' = damaged /\ \A g \in Files : g \in Names /\ g # "none"
    BY <1>1, VerifyAssumption DEF resultVars, Names
  <2>1. /\ \A g \in Files :
             /\ g \in damaged => path[g] = g /\ Exists(g) /\ ~Whole(g, g)
             /\ path[g] = "none" => ~Exists(g)
             /\ path[g] = g /\ g \notin damaged => Whole(g, g)
             /\ path[g] \notin {"none", g} =>
                  /\ path[g] \in Extras
                  /\ \/ ~Exists(g) /\ Whole(path[g], g)
                     \/ g \notin toRename /\ Whole(g, g) /\ ~Exists(path[g])
        /\ \A g, h \in Files : path[g] = path[h] /\ path[g] # "none" => g = h
    BY <1>1 DEF ResultInv, SeamInv, Settled
  <2>2. p = path[f] /\ p # "none" /\ p \in Extras /\ p \notin Files
    <3>1. p = path[f] /\ p # "none"
      BY <1>3, VerifyAssumption DEF p
    <3> QED
      BY <1>3, <2>1, <3>1, VerifyAssumption
  <2>3. \A g \in Files \ {f} : disk'[g] = disk[g]
    BY <1>4, <2>0, <2>2
  <2>4. \A g \in Files \ {f} : path[g] \in Extras => disk'[path[g]] = disk[path[g]]
    <3> SUFFICES ASSUME NEW g \in Files \ {f}, path[g] \in Extras
                 PROVE  path[g] \in Names \ {p, f}
      BY <1>4
    <3>1. path[g] # p
      BY <2>1, <2>2
    <3> QED
      BY <3>1, VerifyAssumption DEF Names
  <2>5. ASSUME NEW g \in Files
        PROVE  /\ g \in damaged => path[g] = g /\ Exists(g)' /\ ~Whole(g, g)'
               /\ path[g] = "none" => ~Exists(g)'
               /\ path[g] = g /\ g \notin damaged => Whole(g, g)'
               /\ path[g] \notin {"none", g} =>
                    /\ path[g] \in Extras
                    /\ \/ ~(disk'[g] # Nothing) /\ SeenAs(g, disk'[path[g]]) = Intact
                       \/ /\ g \notin toRename' /\ SeenAs(g, disk'[g]) = Intact
                          /\ ~(disk'[path[g]] # Nothing)
    <3>1. CASE g = f
      <4>1. g \notin damaged /\ g \notin toRename' /\ path[g] \notin {"none", g}
        BY <1>1, <1>3, <2>2, <3>1 DEF Located
      <4>2. SeenAs(g, disk'[g]) = Intact /\ ~(disk'[path[g]] # Nothing)
        BY <1>3, <1>4, <2>2, <3>1 DEF Whole
      <4> QED
        BY <2>2, <3>1, <4>1, <4>2
    <3>2. CASE g # f
      BY <1>1, <2>1, <2>3, <2>4, <3>2 DEF Exists, Whole
    <3> QED
      BY <3>1, <3>2
  <2> QED
    BY <2>0, <2>1, <2>5 DEF SeamInv, Exists, Whole
<1> QED
  BY <1>5, <1>6, <1>7, <1>8, <1>9 DEF ResultInv

\* The flag was not raised before the block-level pass, or the call ends here.
LEMMA CountMissingVerifies == ResultInv /\ CountMissing => ResultInv'
<1> SUFFICES ASSUME ResultInv, CountMissing PROVE ResultInv'
  OBVIOUS
<1>1. /\ pc = "rename" /\ toRename = {} /\ cancel = "no" /\ pc' = "blocks"
      /\ missing' = Unmatched /\ left' = damaged \cap Sliced
      /\ UNCHANGED <<disk, inputVars, cancel, observed, outcome, path, damaged, mapped, badBlocks,
                     found, toRename, failures, unread>>
  BY DEF CountMissing, CancelRaised
<1>2. outcome = "running" /\ mapped = {} /\ badBlocks = [f \in Files |-> {}]
  BY <1>1 DEF ResultInv, PhaseInv, MapInv
<1>3. ResultTypes'
  <2>1. missing' \subseteq Files /\ left' \subseteq Names
    BY <1>1 DEF Unmatched, ResultInv, ResultTypes, Names
  <2> QED
    BY <1>1, <2>1 DEF ResultInv, ResultTypes, inputVars, VerifyPhases
<1>4. PhaseInv' /\ PassInv'
  BY <1>1, <1>2 DEF ResultInv, PhaseInv, PassInv
<1>5. PlaceInv'
  BY <1>1, PlacedKept DEF ResultInv, PlaceInv, Settled
<1>6. SeamInv'
  BY <1>1 DEF ResultInv, SeamInv, Settled, Exists, Whole
<1>7. MapInv'
  BY <1>1, <1>2 DEF MapInv, Unmatched
<1> QED
  BY <1>3, <1>4, <1>5, <1>6, <1>7 DEF ResultInv

\* The blocks of one damaged file are checked, or cannot be read.
LEMMA BlocksVerify ==
  ASSUME ResultInv, NEW f \in Files, MapBlocks(f) \/ BlocksUnreadable(f)
  PROVE  ResultInv'
<1> DEFINE bad == BadBlocks(SeenAs(f, disk[f]))
<1>1. /\ pc = "blocks" /\ f \in left /\ left' = left \ {f}
      /\ UNCHANGED <<disk, inputVars, cancel, observed, pc, outcome, path, missing, damaged, found,
                     toRename>>
      /\ \/ /\ bad = {} \/ unread' # {}
            /\ UNCHANGED <<mapped, badBlocks>>
         \/ bad # {} /\ mapped' = mapped \cup {f} /\ badBlocks' = [badBlocks EXCEPT ![f] = bad]
      /\ unread \subseteq unread'
  BY DEF MapBlocks, BlocksUnreadable, ReadFails, Taken, resultVars
<1>2. bad \subseteq Nat
  BY BadBlocksTyped DEF ResultInv, ResultTypes, Names
<1>3. f \in damaged \cap Sliced
  BY <1>1 DEF ResultInv, MapInv
<1> HIDE DEF bad
<1>4. ResultTypes'
  <2>1. failures' \in 0 .. MaxFailures /\ unread' \subseteq Names
    <3>1. f \in Names /\ (ReadFails(f) \/ UNCHANGED <<failures, unread>>)
      BY DEF MapBlocks, BlocksUnreadable, Names
    <3> QED
      BY <3>1, FailuresTyped DEF ResultInv
  <2>2. mapped' \subseteq damaged /\ badBlocks' \in [Files -> SUBSET Nat]
    BY <1>1, <1>2, <1>3 DEF ResultInv, ResultTypes
  <2> QED
    BY <1>1, <2>1, <2>2 DEF ResultInv, ResultTypes, inputVars
<1>5. PhaseInv' /\ PassInv'
  BY <1>1 DEF ResultInv, PhaseInv, PassInv
<1>6. PlaceInv'
  BY <1>1, PlacedKept DEF ResultInv, PlaceInv, Settled
<1>7. SeamInv'
  BY <1>1 DEF ResultInv, SeamInv, Settled, Exists, Whole
<1>8. MapInv'
  <2>1. outcome = "running"
    BY <1>1 DEF ResultInv, PhaseInv
  <2>2. /\ missing = Unmatched /\ toRename = {}
        /\ mapped \cup left \subseteq damaged \cap Sliced
        /\ \A g \in Files \ mapped : badBlocks[g] = {}
        /\ \A g \in mapped : badBlocks[g] = BadBlocks(SeenAs(g, disk[g])) /\ badBlocks[g] # {}
        /\ unread = {} =>
             \A g \in (damaged \cap Sliced) \ (left \cup mapped) :
               BadBlocks(SeenAs(g, disk[g])) = {}
        /\ badBlocks \in [Files -> SUBSET Nat] /\ mapped \subseteq Files
    BY <1>1 DEF ResultInv, MapInv, ResultTypes
  <2>3. missing' = Unmatched' /\ toRename' = {} /\ pc' = "blocks" /\ outcome' = "running"
    BY <1>1, <2>1, <2>2 DEF Unmatched
  <2>4. mapped' \cup left' \subseteq damaged' \cap Sliced
    BY <1>1, <1>3, <2>2
  <2>5. /\ \A g \in Files \ mapped' : badBlocks'[g] = {}
        /\ \A g \in mapped' : badBlocks'[g] = BadBlocks(SeenAs(g, disk[g])) /\ badBlocks'[g] # {}
    BY <1>1, <2>2 DEF bad
  <2>6. unread' = {} =>
          \A g \in (damaged \cap Sliced) \ (left' \cup mapped') : BadBlocks(SeenAs(g, disk[g])) = {}
    BY <1>1, <2>2 DEF bad
  <2> QED
    BY <1>1, <2>3, <2>4, <2>5, <2>6 DEF MapInv
<1> QED
  BY <1>4, <1>5, <1>6, <1>7, <1>8 DEF ResultInv

\* A call that is cancelled drops its results.
LEMMA CancelledVerifies == ResultInv /\ Cancelled => ResultInv'
<1> SUFFICES ASSUME ResultInv, Cancelled PROVE ResultInv'
  OBVIOUS
<1>1. /\ pc' = "done" /\ outcome' = "cancelled"
      /\ UNCHANGED <<disk, inputVars, cancel, observed, left, resultVars, found, toRename,
                     failures, unread>>
  BY DEF Cancelled, Return
<1>2. ResultTypes'
  BY <1>1 DEF ResultInv, ResultTypes, inputVars, resultVars, VerifyPhases
<1>3. PhaseInv' /\ PassInv' /\ PlaceInv' /\ SeamInv' /\ MapInv'
  BY <1>1 DEF ResultInv, PhaseInv, PassInv, PlaceInv, SeamInv, MapInv, Settled
<1> QED
  BY <1>2, <1>3 DEF ResultInv

\* The call returns its result.
LEMMA FinishVerifies == ResultInv /\ Finish => ResultInv'
<1> SUFFICES ASSUME ResultInv, Finish PROVE ResultInv'
  OBVIOUS
<1>1. /\ pc = "blocks" /\ left = {} /\ pc' = "done" /\ outcome' = "ok"
      /\ UNCHANGED <<disk, inputVars, cancel, observed, left, resultVars, found, toRename,
                     failures, unread>>
  BY DEF Finish, Return
<1>2. ResultTypes'
  BY <1>1 DEF ResultInv, ResultTypes, inputVars, resultVars, VerifyPhases
<1>3. PhaseInv' /\ PassInv'
  BY <1>1 DEF ResultInv, PhaseInv, PassInv
<1>4. PlaceInv'
  BY <1>1, PlacedKept DEF ResultInv, PlaceInv, Settled, resultVars
<1>5. SeamInv'
  BY <1>1 DEF ResultInv, SeamInv, Settled, Exists, Whole, resultVars
<1>6. MapInv'
  BY <1>1 DEF ResultInv, MapInv, Unmatched, resultVars
<1> QED
  BY <1>2, <1>3, <1>4, <1>5, <1>6 DEF ResultInv

\* The invariant says nothing of the flag, the map's order or the number of failures but
\* their types.
LEMMA ResultKept ==
  ASSUME ResultInv,
         UNCHANGED <<disk, listing, observed, pc, outcome, left, resultVars, found, toRename,
                     unread>>,
         order' \in [Files -> Nat], failures' \in 0 .. MaxFailures
  PROVE  ResultInv'
<1>1. ResultTypes'
  BY DEF ResultInv, ResultTypes, inputVars, resultVars
<1>2. PhaseInv'
  BY DEF ResultInv, PhaseInv
<1>3. PassInv'
  BY DEF ResultInv, PassInv, Candidates, Unmatched, Exists, Whole, inputVars, resultVars
<1>4. PlaceInv'
  BY PlacedKept DEF ResultInv, PlaceInv, Settled, resultVars
<1>5. SeamInv'
  BY DEF ResultInv, SeamInv, Settled, Exists, Whole, resultVars
<1>6. MapInv'
  BY DEF ResultInv, MapInv, Unmatched, resultVars
<1> QED
  BY <1>1, <1>2, <1>3, <1>4, <1>5, <1>6 DEF ResultInv

\* Every step keeps the invariant.
LEMMA StepVerifies == ResultInv /\ Step => ResultInv'
<1> SUFFICES ASSUME ResultInv, Step PROVE ResultInv'
  OBVIOUS
<1>1. ASSUME NEW f \in Files,
             \/ SkipByName(f) \/ NotThere(f) \/ VerifiedByName(f) \/ DamagedByName(f)
             \/ UnreadableByName(f)
      PROVE  ResultInv'
  BY <1>1, ByNameVerifies
<1>2. ASSUME NEW f \in Files, RenameFound(f)
      PROVE  ResultInv'
  BY <1>2, RenameFoundVerifies
<1>3. ASSUME NEW f \in Files, RenameSkipped(f) \/ RenameFails(f)
      PROVE  ResultInv'
  BY <1>3, RenameSkippedVerifies
<1>4. ASSUME NEW f \in Files, MapBlocks(f) \/ BlocksUnreadable(f)
      PROVE  ResultInv'
  BY <1>4, BlocksVerify
<1>5. ASSUME NEW p \in Names, SkipExtra(p) \/ MatchExtra(p) \/ UnreadableExtra(p)
      PROVE  ResultInv'
  BY <1>5, ByHashVerifies
<1>6. CASE CancelledByName \/ CancelledByHash \/ CancelledAfterRename \/ CancelledInBlocks
  BY <1>6, CancelledVerifies
  DEF CancelledByName, CancelledByHash, CancelledAfterRename, CancelledInBlocks
<1>7. CASE EndByName
  BY <1>7, EndByNameVerifies
<1>8. CASE ApplyMatches
  BY <1>8, ApplyMatchesVerifies
<1>9. CASE CountMissing
  BY <1>9, CountMissingVerifies
<1>10. CASE Finish
  BY <1>10, FinishVerifies
<1> QED
  BY <1>1, <1>2, <1>3, <1>4, <1>5, <1>6, <1>7, <1>8, <1>9, <1>10 DEF Step

\* The flag: only CountMissing opens the last pass, and it has read the flag.
LEMMA FlagKept == VerifyInv /\ [Next]_vars => FlagInv'
<1> SUFFICES ASSUME VerifyInv, [Next]_vars PROVE FlagInv'
  OBVIOUS
<1>1. CASE RequestCancel
  BY <1>1 DEF RequestCancel, VerifyInv, FlagInv, ResultInv, ResultTypes, PhaseInv
<1>2. CASE CountMissing
  BY <1>2 DEF CountMissing, CancelRaised, FlagInv
<1>3. \/ /\ cancel' = cancel
         /\ pc' = "blocks" \/ outcome' = "ok" => pc = "blocks" \/ outcome = "ok"
      \/ RequestCancel
      \/ CountMissing
  BY DEF Next, Step, Returned, vars, SkipByName, NotThere, VerifiedByName, DamagedByName,
     UnreadableByName, RenameFound, RenameSkipped, RenameFails, MapBlocks, BlocksUnreadable,
     SkipExtra, MatchExtra, UnreadableExtra, CancelledByName, EndByName, CancelledByHash,
     ApplyMatches, CancelledAfterRename, CancelledInBlocks, Finish, Cancelled, Return
<1> QED
  BY <1>1, <1>2, <1>3 DEF VerifyInv, FlagInv

\* The invariant holds in every state of every call, whatever I/O fails and whenever the
\* flag is raised.
THEOREM VerifyInvariant == Spec => []VerifyInv
<1>1. Init => VerifyInv
  BY InitVerifies DEF Init, Fresh, VerifyInv, FlagInv
<1>2. ASSUME VerifyInv, [Next]_vars PROVE VerifyInv'
  <2>1. ResultInv
    BY <1>2 DEF VerifyInv
  <2>2. ResultInv'
    <3>1. CASE Step
      BY <2>1, <3>1, StepVerifies
    <3>2. CASE RequestCancel \/ UNCHANGED vars
      <4>1. UNCHANGED <<disk, inputVars, observed, pc, outcome, left, resultVars, found, toRename,
                        failures, unread>>
        BY <3>2 DEF RequestCancel, vars
      <4> QED
        BY <2>1, <4>1, ResultKept DEF ResultInv, ResultTypes, inputVars
    <3> QED
      BY <1>2, <3>1, <3>2 DEF Next, Returned
  <2> QED
    BY <1>2, <2>2, FlagKept DEF VerifyInv
<1> QED
  BY <1>1, <1>2, PTL DEF Spec

-----------------------------------------------------------------------------
(***************************************************************************)
(* What follows from it.                                                   *)
(***************************************************************************)

\* Every variable has its type.
THEOREM VerifyTypeCorrect == Spec => []TypeOK
<1>1. VerifyInv => TypeOK
  BY DEF VerifyInv, ResultInv, ResultTypes, FlagInv, TypeOK
<1> QED
  BY <1>1, VerifyInvariant, PTL

\* A flag raised before the block-level pass is not missed (CancelHonoured), although the
\* tasks of the parallel passes return nothing.
THEOREM CancelNotMissed == Spec => []CancelHonoured
<1>1. VerifyInv => CancelHonoured
  BY DEF VerifyInv, FlagInv, CancelHonoured
<1> QED
  BY <1>1, VerifyInvariant, PTL

\* What a call says is verified lies whole where the invariant has placed it.
LEMMA ResultIsWhole == ResultInv => AllVerifiedIsWhole
<1> SUFFICES ASSUME ResultInv, AllVerified
             PROVE  \E place \in [Files -> Names] :
                      /\ \A f \in Files : Whole(place[f], f)
                      /\ \A f, g \in Files : place[f] = place[g] => f = g
  BY DEF AllVerifiedIsWhole
<1>1. Placed /\ Unmatched = {} /\ damaged = {}
  BY DEF ResultInv, PlaceInv, MapInv, Settled, AllVerified
<1>2. Located = Files
  BY <1>1 DEF Located, Unmatched
<1> QED
  BY <1>1, <1>2 DEF Placed

\* A set that counts as verified has a whole copy of each file, one name a file
\* (AllVerifiedIsWhole): lib.rs deletes the recovery files on the strength of it.
THEOREM AllVerifiedAlwaysWhole == Spec => []AllVerifiedIsWhole
<1>1. VerifyInv => AllVerifiedIsWhole
  BY ResultIsWhole DEF VerifyInv
<1> QED
  BY <1>1, VerifyInvariant, PTL

\* What the result says of one file when everything could be read: where it is, and what
\* its own name holds.
LEMMA FileHandedOver ==
  ASSUME VerifyInv, outcome = "ok", unread = {}, NEW f \in Files
  PROVE  \/ /\ f \in Located /\ f \notin missing
            /\ \/ ListedAt(f) = "extra" /\ SeenAs(f, disk[f]) = Absent
               \/ ListedAt(f) \in {"own", "gone"} /\ SeenAs(f, disk[f]) = Intact
         \/ /\ path[f] = "none" /\ f \in missing /\ f \notin damaged
            /\ SeenAs(f, disk[f]) = Absent
         \/ /\ path[f] # "none" /\ f \in damaged /\ f \notin missing /\ ListedAt(f) = "own"
            /\ SeenAs(f, disk[f]) # Intact /\ SeenAs(f, disk[f]).len # "none"
<1>1. /\ f \in damaged => path[f] = f /\ Exists(f) /\ ~Whole(f, f)
      /\ path[f] = "none" => ~Exists(f)
      /\ path[f] = f /\ f \notin damaged => Whole(f, f)
      /\ path[f] \notin {"none", f} =>
           /\ path[f] \in Extras
           /\ \/ ~Exists(f) /\ Whole(path[f], f)
              \/ Whole(f, f) /\ ~Exists(path[f])
  BY DEF VerifyInv, ResultInv, SeamInv, Settled
<1>2. missing = Unmatched /\ f \in Names /\ f # "none"
  BY VerifyAssumption DEF VerifyInv, ResultInv, MapInv, Names
<1>3. ~Exists(f) => SeenAs(f, disk[f]) = Absent
  BY NothingHeld DEF Exists
<1>4. CASE f \in damaged
  <2>1. Exists(f) /\ ~Whole(f, f) /\ path[f] = f
    BY <1>1, <1>4
  <2>2. SeenAs(f, disk[f]).len # "none"
    BY <1>2, <2>1, SeenIsThere DEF VerifyInv, ResultInv, ResultTypes, PhaseInv, Exists
  <2> QED
    BY <1>2, <1>4, <2>1, <2>2 DEF ListedAt, Unmatched, Whole
<1>5. CASE f \notin damaged /\ path[f] = "none"
  BY <1>1, <1>2, <1>3, <1>5 DEF Unmatched
<1>6. CASE f \notin damaged /\ path[f] = f
  BY <1>1, <1>2, <1>6 DEF Unmatched, Located, ListedAt, Whole
<1>7. CASE f \notin damaged /\ path[f] \notin {"none", f}
  <2>1. f \in Located /\ f \notin missing /\ path[f] \in Names
    BY <1>1, <1>2, <1>7 DEF Located, Unmatched, Names
  <2>2. CASE ~Exists(f) /\ Whole(path[f], f)
    <3>1. Exists(path[f])
      BY <2>1, <2>2, WholeExists
    <3> QED
      BY <1>3, <1>7, <2>1, <2>2, <3>1 DEF ListedAt
  <2>3. CASE Whole(f, f) /\ ~Exists(path[f])
    BY <1>7, <2>1, <2>3 DEF ListedAt, Whole
  <2> QED
    BY <1>1, <1>7, <2>2, <2>3
<1> QED
  BY <1>4, <1>5, <1>6, <1>7

\* What repair is handed is the verdict the contents call for (HandsOverVerdict), unless a
\* name could not be read: the two modules fit, for every set of files and every disk.
THEOREM VerdictHandedOver == Spec => []HandsOverVerdict
<1>1. VerifyInv => HandsOverVerdict
  <2> DEFINE seen == [f \in Files |-> SeenAs(f, disk[f])]
  <2> DEFINE at   == [f \in Files |-> IF path[f] = "none" THEN "own" ELSE ListedAt(f)]
  <2> SUFFICES ASSUME VerifyInv, outcome = "ok", unread = {}
               PROVE  Consistent(seen, at) /\ Handed = VerdictOf(seen, at)
    BY DEF HandsOverVerdict
  <2>0. Absent # Intact /\ Absent.len = "none"
    BY DEF Absent, Intact
  <2>1. \A f \in Files : at[f] \in {"own", "extra", "gone"} /\ seen[f] = SeenAs(f, disk[f])
    BY DEF ListedAt
  <2>2. \A f \in Files :
          \/ /\ f \in Located /\ f \notin missing /\ at[f] = ListedAt(f)
             /\ \/ at[f] = "extra" /\ seen[f] = Absent
                \/ at[f] \in {"own", "gone"} /\ seen[f] = Intact
          \/ /\ path[f] = "none" /\ f \in missing /\ f \notin damaged /\ at[f] = "own"
             /\ seen[f] = Absent
          \/ /\ path[f] # "none" /\ f \in damaged /\ f \notin missing /\ at[f] = "own"
             /\ seen[f] # Intact /\ seen[f].len # "none"
    <3> SUFFICES ASSUME NEW f \in Files
                 PROVE  \/ /\ f \in Located /\ f \notin missing /\ at[f] = ListedAt(f)
                           /\ \/ at[f] = "extra" /\ seen[f] = Absent
                              \/ at[f] \in {"own", "gone"} /\ seen[f] = Intact
                        \/ /\ path[f] = "none" /\ f \in missing /\ f \notin damaged
                           /\ at[f] = "own" /\ seen[f] = Absent
                        \/ /\ path[f] # "none" /\ f \in damaged /\ f \notin missing
                           /\ at[f] = "own" /\ seen[f] # Intact /\ seen[f].len # "none"
      OBVIOUS
    <3>1. at[f] = IF path[f] = "none" THEN "own" ELSE ListedAt(f)
      OBVIOUS
    <3>2. seen[f] = SeenAs(f, disk[f])
      OBVIOUS
    <3> HIDE DEF seen, at
    <3> QED
      BY <3>1, <3>2, FileHandedOver DEF Located
  <2>3. at \in [Files -> {"own", "extra", "gone"}]
    BY <2>1
  <2> HIDE DEF seen, at
  <2>4. Consistent(seen, at)
    BY <2>0, <2>2, <2>3 DEF Consistent
  <2> DEFINE good   == {f \in Files : seen[f] = Intact \/ at[f] = "extra"}
  <2> DEFINE absent == {f \in Files \ good : seen[f].len = "none"}
  <2> DEFINE hurt   == Files \ (good \cup absent)
  <2> DEFINE listed == {f \in hurt : HasBlockMap(f, seen[f])}
  <2>5. good = Located
    BY <2>0, <2>2 DEF Located
  <2>6. missing \subseteq Files /\ damaged \subseteq Files
    BY DEF VerifyInv, ResultInv, ResultTypes
  <2>7. absent = missing
    <3> HIDE DEF good
    <3> QED
      BY <2>0, <2>2, <2>5, <2>6 DEF Located
  <2>8. hurt = damaged
    <3> HIDE DEF good, absent
    <3> QED
      BY <2>2, <2>5, <2>6, <2>7 DEF Located
  <2>9. /\ left = {} /\ mapped \subseteq damaged \cap Sliced
        /\ badBlocks \in [Files -> SUBSET Nat] /\ \A f \in Files \ mapped : badBlocks[f] = {}
        /\ \A f \in mapped : badBlocks[f] = BadBlocks(seen[f]) /\ badBlocks[f] # {}
        /\ \A f \in (damaged \cap Sliced) \ mapped : BadBlocks(seen[f]) = {}
    BY <2>6 DEF VerifyInv, ResultInv, MapInv, ResultTypes, seen
  <2>10. listed = mapped
    <3> HIDE DEF hurt
    <3> QED
      BY <2>6, <2>8, <2>9 DEF HasBlockMap
  <2> HIDE DEF good, absent, hurt, listed
  <2>11. [f \in Files |-> IF f \in good THEN at[f] ELSE "none"]
           = [f \in Files |-> IF path[f] = "none" \/ f \in damaged THEN "none" ELSE ListedAt(f)]
    <3>1. \A f \in Files : (IF f \in Located THEN at[f] ELSE "none")
                            = (IF path[f] = "none" \/ f \in damaged THEN "none" ELSE ListedAt(f))
      BY <2>2 DEF Located
    <3> QED
      BY <2>5, <3>1
  <2>12. [f \in Files |-> IF f \in listed THEN BadBlocks(seen[f]) ELSE {}] = badBlocks
    <3>1. \A f \in Files : (IF f \in mapped THEN BadBlocks(seen[f]) ELSE {}) = badBlocks[f]
      BY <2>9
    <3> QED
      BY <2>9, <2>10, <3>1
  <2>13. VerdictOf(seen, at) =
           [path      |-> [f \in Files |-> IF f \in good THEN at[f] ELSE "none"],
            missing   |-> absent, damaged |-> hurt, mapped |-> listed,
            badBlocks |-> [f \in Files |-> IF f \in listed THEN BadBlocks(seen[f]) ELSE {}]]
    BY DEF VerdictOf, good, absent, hurt, listed
  <2>14. Handed = VerdictOf(seen, at)
    BY <2>7, <2>8, <2>10, <2>11, <2>12, <2>13 DEF Handed
  <2> QED
    BY <2>4, <2>14
<1> QED
  BY <1>1, VerifyInvariant, PTL

\* No content is lost by a verification (NothingLost): a rename only moves what a name
\* held to a name that held nothing.
THEOREM NothingIsLost == Spec => NothingLost
<1>1. VerifyInv /\ [Next]_vars =>
        [\A held \in {disk[p] : p \in Names} \ {Nothing} :
           Cardinality({p \in Names : disk'[p] = held})
             >= Cardinality({p \in Names : disk[p] = held})]_vars
  <2> SUFFICES ASSUME VerifyInv, [Next]_vars, NEW held, held # Nothing
               PROVE  Cardinality({p \in Names : disk'[p] = held})
                        >= Cardinality({p \in Names : disk[p] = held})
    OBVIOUS
  <2> DEFINE before == {p \in Names : disk[p] = held}
  <2> DEFINE after  == {p \in Names : disk'[p] = held}
  <2>1. IsFiniteSet(Names)
    BY VerifyAssumption
  <2>2. IsFiniteSet(before) /\ IsFiniteSet(after)
    BY <2>1, FS_Subset
  <2>3. Cardinality(before) \in Nat /\ Cardinality(after) \in Nat
    BY <2>2, FS_CardinalityType
  <2>4. CASE disk' = disk
    BY <2>3, <2>4
  <2>5. ASSUME NEW f \in Files, RenameFound(f)
        PROVE  Cardinality(after) >= Cardinality(before)
    <3> DEFINE p == path[f]
    <3>1. ~Exists(f) /\ disk' = Moved(p, f) /\ pc = "rename" /\ f \in toRename
      BY <2>5 DEF RenameFound
    <3>2. p \in Names /\ f \in Names /\ p # f
      <4>1. Whole(p, f) /\ p \in Names
        BY <3>1 DEF VerifyInv, ResultInv, PlaceInv, Placed, Settled
      <4> QED
        BY <3>1, <4>1, WholeExists DEF Names
    <3> HIDE DEF p
    <3>3. /\ disk'[f] = disk[p] /\ disk'[p] = Nothing
          /\ \A n \in Names \ {p, f} : disk'[n] = disk[n]
      BY <3>1, <3>2, MovedFacts DEF VerifyInv, ResultInv, ResultTypes
    <3>4. disk[f] = Nothing
      BY <3>1 DEF Exists
    <3>5. CASE disk[p] # held
      <4>1. after = before
        BY <3>2, <3>3, <3>4, <3>5
      <4> QED
        BY <2>3, <4>1
    <3>6. CASE disk[p] = held
      <4>1. after = (before \ {p}) \cup {f} /\ p \in before /\ f \notin before
        BY <3>2, <3>3, <3>4, <3>6
      <4> HIDE DEF before, after
      <4>2. IsFiniteSet(before \ {p}) /\ Cardinality(before \ {p}) = Cardinality(before) - 1
        BY <2>2, <4>1, FS_RemoveElement
      <4>3. Cardinality((before \ {p}) \cup {f}) = Cardinality(before \ {p}) + 1
        BY <4>1, <4>2, FS_AddElement
      <4> QED
        BY <2>3, <4>1, <4>2, <4>3
    <3> QED
      BY <3>5, <3>6
  <2>6. disk' = disk \/ \E f \in Files : RenameFound(f)
    BY DEF Next, Step, Returned, vars, RequestCancel, SkipByName, NotThere, VerifiedByName,
       DamagedByName, UnreadableByName, RenameSkipped, RenameFails, MapBlocks, BlocksUnreadable,
       SkipExtra, MatchExtra, UnreadableExtra, CancelledByName, EndByName, CancelledByHash,
       ApplyMatches, CancelledAfterRename, CountMissing, CancelledInBlocks, Finish, Cancelled
  <2> QED
    BY <2>4, <2>5, <2>6
<1> QED
  BY <1>1, VerifyInvariant, PTL DEF Spec, NothingLost
=============================================================================
