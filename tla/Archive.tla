------------------------------ MODULE Archive ------------------------------
(***************************************************************************)
(* A directory's life: recovery sets are created in it (Creator), its      *)
(* .par2 files are damaged, deleted, renamed or written anew by another    *)
(* program, and one of them is loaded with the volumes it finds (Loader).  *)
(***************************************************************************)
EXTENDS Creator, Loader

archiveVars == <<dir, mishaps, creatorVars, loaderVars>>

ArchiveInit == dir = <<>> /\ mishaps = 0 /\ CreatorInit /\ LoaderInit

Undisturbed == creating = "idle" /\ loading \in {"idle", "due"}

\* Bound: once the files are damaged nobody creates another set; the load is due.
Mishap ==
  /\ Undisturbed /\ mishaps < MaxMishaps /\ mishaps' = mishaps + 1
  /\ loading' = "due"
  /\ UNCHANGED <<creatorVars, loaded, given, bare, position, setId, blockSize, infos, mainOrder,
                 deferred, recovery, checksums, unscanned, unreadable>>

\* A packet of a file is damaged.
Harm(name) ==
  /\ Mishap
  /\ \E i \in 1 .. Len(dir[name]), h \in Harms :
       /\ dir[name][i].harm = "none"
       /\ Put(name, [dir[name] EXCEPT ![i].harm = h])

Without(name) == [n \in DOMAIN dir \ {name} |-> dir[n]]

Delete(name) == Mishap /\ dir' = Without(name)

\* Somebody gives a file another name that ends in .par2.
Rename(name) ==
  /\ Mishap /\ Obfuscated \notin DOMAIN dir
  /\ dir' = [n \in (DOMAIN dir \ {name}) \cup {Obfuscated} |->
               IF n = Obfuscated THEN dir[name] ELSE dir[n]]

\* Another program has written the same packets in another order.
Reorder(name) ==
  /\ Mishap /\ \A i \in 1 .. Len(dir[name]) : dir[name][i].harm = "none"
  /\ dir[name] # <<>> /\ Put(name, Reverse(dir[name]))

CreatorSteps == CreatorNext /\ loading = "idle" /\ UNCHANGED loaderVars

Environment ==
  \/ loading = "idle" /\ Interrupt /\ UNCHANGED loaderVars
  \* Bound: the input files change while the last call looks at them.
  \/ /\ loading = "idle" /\ creating \in {"hash", "encode"} /\ creations = MaxCreations
     /\ \E f \in Files : Edit(f)
     /\ UNCHANGED loaderVars
  \/ \E name \in DOMAIN dir : Harm(name) \/ Delete(name) \/ Rename(name) \/ Reorder(name)
  \/ /\ mishaps < MaxMishaps /\ mishaps' = mishaps + 1 /\ LoadFails
     /\ UNCHANGED <<given, bare, position, setId, blockSize, infos, mainOrder, deferred,
                    recovery, checksums, dir, creatorVars>>

LoaderSteps == LoaderNext /\ creating = "idle" /\ UNCHANGED <<dir, mishaps, creatorVars>>

\* The load is over, or nobody has created anything to load.
Settled ==
  /\ loading = "done" \/ (Undisturbed /\ (loading = "due" \/ creations = MaxCreations))
  /\ UNCHANGED archiveVars

ArchiveNext == CreatorSteps \/ LoaderSteps \/ Environment \/ Settled

ArchiveSpec == ArchiveInit /\ [][ArchiveNext]_archiveVars

\* A call that is under way.
Busy == creating # "idle" \/ loading \in {"scan", "volumes"}

\* The threads of a call are scheduled, and its I/O operations return.
ArchiveFairSpec == ArchiveSpec /\ WF_archiveVars(Busy /\ (CreatorSteps \/ LoaderSteps))

-----------------------------------------------------------------------------
(***************************************************************************)
(* Properties                                                              *)
(***************************************************************************)
PacketOK(p) ==
  /\ p.kind \in {"Creator", "Main", "FileDesc", "IFSC", "RecoverySlice"}
  /\ p.harm \in {"none", "cut"} \cup Harms

\* Types: phases, results, counters and the shape of what is on disk and in memory.
ArchiveTypeOK ==
  /\ creating \in {"idle", "hash", "encode", "split", "write"}
  /\ created \in {"none", "ok", "error", "panic", "interrupted"}
  /\ loading \in {"idle", "due", "scan", "volumes", "done"} /\ loaded \in {"none", "ok", "error", "failed"}
  /\ \A f \in Files : source[f] \in ContentsOf(f)
  /\ DOMAIN hashed \subseteq Files /\ Len(read) = Len(meta)
  /\ {size, wanted, next, current, target, writing, position, blockSize, mishaps} \subseteq Nat
  /\ \A n \in DOMAIN dir : \A i \in 1 .. Len(dir[n]) : PacketOK(dir[n][i])
  /\ \A i \in 1 .. Len(volumes) : volumes[i].start \in Nat /\ volumes[i].count \in Nat
  /\ given \in DOMAIN dir \/ loading \in {"idle", "due"}
  /\ unscanned \cup unreadable \subseteq DOMAIN dir

\* Volumes tile: whatever the number of recovery blocks, the volumes split_into_volumes
\* has made are not empty, follow on one another from exponent 0 without gap or overlap,
\* and once the files are written no exponent is left out, so that volume names
\* are distinct and every recovery block is in one file.
VolumesTile ==
  /\ \A i \in 1 .. Len(volumes) :
       /\ volumes[i].count > 0
       /\ volumes[i].start = IF i = 1 THEN 0 ELSE volumes[i - 1].start + volumes[i - 1].count
  /\ creating = "write" /\ wanted > 0 =>
       /\ volumes # <<>>
       /\ volumes[Len(volumes)].start + volumes[Len(volumes)].count = wanted

\* The files the Main packet lists that no description was loaded of.
Undescribed == {id \in ToSet(mainOrder) : \A i \in 1 .. Len(infos) : infos[i].id # id}

\* The data blocks in the order in which repair numbers them.
Numbered == FlattenSeq([i \in 1 .. Len(infos) |-> BlockSeq(infos[i], blockSize)])

\* Loaded blocks are right: as long as no input file changed under its id or during a
\* call, and every listed file is described, each recovery block that was loaded undamaged
\* was computed from the described bytes, block by block in the numbering repair will use,
\* and the slice checksums are those of these blocks; whatever is deleted, damaged,
\* reordered or left by an older call.
LoadedBlocksAreRight ==
  loaded = "ok" /\ ~blurred =>
    /\ Undescribed = {} =>
         \A k \in 1 .. Len(recovery) : recovery[k].of # <<>> => recovery[k].of = Numbered
    /\ \A i \in 1 .. Len(infos) :
         infos[i].id \in DOMAIN checksums =>
           checksums[infos[i].id] = BlockSeq(infos[i], blockSize)

\* The volumes of the set that load looks into.
VolumesOfSet ==
  {given} \cup
    IF bare THEN {} ELSE {n \in DOMAIN dir \ unreadable : FirstSetId(n) = setId}

\* Intact recovery is loaded: a recovery packet is loaded once if no damage touches it
\* or the packet before it and its file's first header tells the set, wherever in the file
\* the Main packet is and in whatever order the directory lists the files; and nothing
\* is loaded twice.
IntactRecoveryIsLoaded ==
  loaded = "ok" =>
    /\ IsInjective([k \in 1 .. Len(recovery) |-> <<recovery[k].name, recovery[k].slot>>])
    /\ \A n \in VolumesOfSet : \A i \in 1 .. Len(dir[n]) :
         /\ dir[n][i].kind = "RecoverySlice" /\ dir[n][i].harm = "none"
         /\ i = 1 \/ dir[n][i - 1].harm # "overlong"
         => \E k \in 1 .. Len(recovery) : recovery[k].name = n /\ recovery[k].slot = i

\* The recovery blocks loaded from the files of the last creation.
OwnBlocks == {k \in 1 .. Len(recovery) : recovery[k].name \in NamesWritten}

\* A set that was created loads whole: from any of its files, if no mishap came between,
\* load returns the files in the order of their encoding, the block size, and each of the
\* recovery blocks of this creation once; and Par2Info reports as many.
RoundTrip ==
  created = "ok" /\ mishaps = 0 /\ loading = "done" /\ given \in NamesWritten =>
    /\ loaded = "ok" /\ infos = meta /\ blockSize = size /\ TotalDataBlocks = DataCount
    /\ Len(recovery) >= DistinctRecoveryBlocks
    /\ ~bare =>
         /\ Cardinality(OwnBlocks) = wanted
         /\ {recovery[k].exp : k \in OwnBlocks} = 0 .. wanted - 1
         /\ CanRepair(wanted)

\* One intact Main packet is enough: load only finds fault with a file if damage touches
\* each of its Main packets or the packet before it, whatever became of the others.
IntactMainLoads ==
  loaded = "error" =>
    \A i \in 1 .. Len(Here) :
      Here[i].kind = "Main" =>
        Here[i].harm # "none" \/ (i > 1 /\ Here[i - 1].harm = "overlong")

\* Calls come to an end: whatever interrupts them or changes the files, create and load return.
CallsReturn == Busy ~> ~Busy

-----------------------------------------------------------------------------
(***************************************************************************)
(* What the documentation says and the code does not do                    *)
(***************************************************************************)

\* Load knows every file of the set: of each file that the Main packet lists there is a
\* description, if any file of the set still has one.
ListedFilesAreDescribed ==
  loaded = "ok" =>
    \A id \in Undescribed : \A n \in DOMAIN dir : \A i \in ScannedSlots(dir[n]) :
      ~ (dir[n][i].kind = "FileDesc" /\ HashFits(dir[n][i]) /\ dir[n][i].body.id = id)

\* Siblings are found: the recovery blocks of every file of the set in the same directory
\* are counted.
SiblingsAreFound ==
  loaded = "ok" =>
    \A n \in DOMAIN dir \ unreadable :
      FirstSetId(n) = setId =>
        \A i \in ScannedSlots(dir[n]) :
          dir[n][i].kind = "RecoverySlice" =>
            \E k \in 1 .. Len(recovery) : recovery[k].name = n /\ recovery[k].slot = i
=============================================================================
