------------------------------- MODULE Loader -------------------------------
(***************************************************************************)
(* Par2File::load (src/parser.rs): scan the packets of one .par2 file,     *)
(* then every other .par2 file of the directory that starts with a packet  *)
(* of the same set, and number the files.  src/info.rs reports what was    *)
(* loaded.                                                                 *)
(*                                                                         *)
(* A position is the slot of a packet: between two of them the scan moves  *)
(* byte by byte and finds nothing.                                         *)
(***************************************************************************)
EXTENDS Packets

CONSTANT
  BarePaths    \* whether the path load is called with may have no directory part

ASSUME LoaderAssumption == BarePaths \in SUBSET BOOLEAN

VARIABLES
  loading,     \* the phase of the load
  loaded,      \* what it returned
  given,       \* the file it was called with
  bare,        \* that path has no directory part, so that there is no parent to list
  position,    \* the slot the scan is at
  setId,       \* recovery_set_id
  blockSize,   \* block_size
  infos,       \* files_in_order
  mainOrder,   \* main_file_id_order
  deferred,    \* deferred_recovery_positions: slots
  recovery,    \* recovery_blocks
  checksums,   \* slice_checksums: [ids -> blocks]
  unscanned,   \* directory entries still to come
  unreadable   \* volumes that could not be read (history)

loaderVars == <<loading, loaded, given, bare, position, setId, blockSize, infos, mainOrder,
                deferred, recovery, checksums, unscanned, unreadable>>

Here == dir[given]
Slot == Here[position]

\* parse_recovery_from_body_minimal: a recovery block is where its data is.
BlockAt(name, slot) ==
  LET p == dir[name][slot]
  IN  [exp |-> p.body.exp, of |-> DataOf(p), name |-> name, slot |-> slot]

LoaderInit ==
  /\ loading = "idle" /\ loaded = "none" /\ given = Index /\ bare = FALSE
  /\ position = 0 /\ setId = NoSet /\ blockSize = 0
  /\ infos = <<>> /\ mainOrder = <<>> /\ deferred = <<>> /\ recovery = <<>> /\ checksums = <<>>
  /\ unscanned = {} /\ unreadable = {}

LoadReturns(result) == loading' = "done" /\ loaded' = result

-----------------------------------------------------------------------------
(***************************************************************************)
(* The scan of the given file                                              *)
(***************************************************************************)
BeginLoad ==
  /\ loading \in {"idle", "due"}
  /\ \E n \in DOMAIN dir, b \in BarePaths :
       /\ given' = n /\ bare' = b /\ position' = 1
       /\ IF dir[n] = <<>> THEN LoadReturns("error") ELSE loading' = "scan" /\ UNCHANGED loaded
  /\ UNCHANGED <<setId, blockSize, infos, mainOrder, deferred, recovery, checksums, unscanned,
                 unreadable>>

\* What every step of the scan leaves alone.
ScanUnchanged == UNCHANGED <<loading, loaded, given, bare, unscanned, unreadable>>

\* The header is there; the first one seen says which set this is.
Header ==
  /\ loading = "scan" /\ position =< Len(Here) /\ HasMagic(Slot)
  /\ setId' = IF setId = NoSet THEN HeaderSet(Slot) ELSE setId

SkipNoMagic ==
  /\ loading = "scan" /\ position =< Len(Here) /\ ~HasMagic(Slot)
  /\ position' = position + 1
  /\ UNCHANGED <<setId, blockSize, infos, mainOrder, deferred, recovery, checksums>>
  /\ ScanUnchanged

\* Mutant: a length of zero is believed.
StayAtBadLength ==
  /\ Header /\ ~PlausibleLength(Here, position)
  /\ UNCHANGED <<position, blockSize, infos, mainOrder, deferred, recovery, checksums>>
  /\ ScanUnchanged

\* Mutant: a length that cannot be ends the scan.
StopAtBadLength ==
  /\ Header /\ ~PlausibleLength(Here, position)
  /\ position' = Len(Here) + 1
  /\ UNCHANGED <<blockSize, infos, mainOrder, deferred, recovery, checksums>> /\ ScanUnchanged

SkipBadLength ==
  /\ Header /\ ~PlausibleLength(Here, position)
  /\ position' = position + 1
  /\ UNCHANGED <<blockSize, infos, mainOrder, deferred, recovery, checksums>> /\ ScanUnchanged

\* A packet whose length is believed.
TakePacket(kind) ==
  /\ Header /\ PlausibleLength(Here, position) /\ Slot.kind = kind
  /\ position' = After(Here, position)
  /\ ScanUnchanged

\* The MD5 of a recovery slice is not looked at.  Its size is only known after Main.
DeferRecovery ==
  /\ TakePacket("RecoverySlice") /\ blockSize = 0
  /\ deferred' = Append(deferred, position)
  /\ UNCHANGED <<blockSize, infos, mainOrder, recovery, checksums>>

TakeRecovery ==
  /\ TakePacket("RecoverySlice") /\ blockSize # 0
  /\ recovery' = Append(recovery, BlockAt(given, position))
  /\ UNCHANGED <<blockSize, infos, mainOrder, deferred, checksums>>

\* The MD5 over set id, type and body is that of the header.
HashFits(p) == p.harm = "none"

SkipDamaged ==
  /\ \E kind \in {"Creator", "Main", "FileDesc", "IFSC"} : TakePacket(kind)
  /\ ~HashFits(Slot)
  /\ UNCHANGED <<blockSize, infos, mainOrder, deferred, recovery, checksums>>

TakeMain ==
  /\ TakePacket("Main") /\ HashFits(Slot)
  /\ blockSize' = Slot.body.size
  /\ mainOrder' = IF mainOrder = <<>> THEN Slot.body.ids ELSE mainOrder
  /\ UNCHANGED <<infos, deferred, recovery, checksums>>

TakeFileDesc ==
  /\ TakePacket("FileDesc") /\ HashFits(Slot)
  /\ infos' = IF \E i \in 1 .. Len(infos) : infos[i].id = Slot.body.id
                THEN infos ELSE Append(infos, Slot.body)
  /\ UNCHANGED <<blockSize, mainOrder, deferred, recovery, checksums>>

TakeChecksums ==
  /\ TakePacket("IFSC") /\ HashFits(Slot)
  /\ checksums' = With(checksums, Slot.body.id, Slot.body.sums)
  /\ UNCHANGED <<blockSize, infos, mainOrder, deferred, recovery>>

SkipOther ==
  /\ TakePacket("Creator") /\ HashFits(Slot)
  /\ UNCHANGED <<blockSize, infos, mainOrder, deferred, recovery, checksums>>

-----------------------------------------------------------------------------
(***************************************************************************)
(* The end of the scan and the volumes                                     *)
(***************************************************************************)

\* Mutant: what was deferred is forgotten.
NothingDeferred == <<>>

DeferredBlocks == [k \in 1 .. Len(deferred) |-> BlockAt(given, deferred[k])]

\* Without a header or without a Main packet there is nothing to load; else the deferred
\* recovery packets are taken in, and the entries of the directory listed.
EndScan ==
  /\ loading = "scan" /\ position > Len(Here)
  /\ IF setId = NoSet \/ blockSize = 0
       THEN LoadReturns("error") /\ UNCHANGED <<recovery, unscanned>>
       ELSE /\ loading' = "volumes" /\ UNCHANGED loaded
            /\ recovery' = recovery \o DeferredBlocks
            /\ unscanned' = IF bare THEN {} ELSE DOMAIN dir \ {given}
  /\ UNCHANGED <<given, bare, position, setId, blockSize, infos, mainOrder, deferred, checksums,
                 unreadable>>

\* get_recovery_set_id: the first 64 bytes have to be a header.  A damaged set id is like
\* no other, not even like another damaged one.
FirstSetId(name) ==
  IF dir[name] # <<>> /\ HasMagic(dir[name][1]) /\ HeaderSet(dir[name][1]) # Garbled
    THEN HeaderSet(dir[name][1]) ELSE NoSet

\* The slots a scan of a whole file takes packets from.
ScannedSlots(packets) ==
  LET reached[i \in Nat] ==
        IF i < 2 THEN i = 1
        ELSE ~ (/\ reached[i - 1] /\ packets[i - 1].harm = "overlong")
      taken(i) == reached[i] /\ HasMagic(packets[i]) /\ PlausibleLength(packets, i)
  IN  {i \in 1 .. Len(packets) : taken(i)}

\* parse_volume_file: the recovery slices, whatever their MD5 or set id, and nothing else.
VolumeBlocks(name) ==
  LET slices == {i \in ScannedSlots(dir[name]) : dir[name][i].kind = "RecoverySlice"}
      order  == Ascending(slices)
  IN  [k \in 1 .. Len(order) |-> BlockAt(name, order[k])]

\* Mutant: every .par2 file of the directory counts as a volume of the set.
AnyVolume(name) == TRUE

IsVolume(name) == FirstSetId(name) = setId

ScanVolume(name) ==
  /\ loading = "volumes" /\ name \in unscanned
  /\ unscanned' = unscanned \ {name}
  /\ recovery' = IF IsVolume(name) THEN recovery \o VolumeBlocks(name) ELSE recovery
  /\ UNCHANGED <<loading, loaded, given, bare, position, setId, blockSize, infos, mainOrder,
                 deferred, checksums, unreadable>>

\* Mutant: the files stay in the order of their packets.
PacketOrder(cs, order) == cs

\* reorder_files_canonically: as the Main packet lists them, then the others by id.
CanonicalOrder(cs, order) ==
  LET rank(c) ==
        IF \E k \in 1 .. Len(order) : order[k] = c.id
          THEN CHOOSE k \in 1 .. Len(order) : order[k] = c.id
          ELSE Len(order) + 1
  IN  InOrder(ToSet(cs), LAMBDA c, d : rank(c) < rank(d) \/ (rank(c) = rank(d) /\ c.id < d.id))

FinishLoad ==
  /\ loading = "volumes" /\ unscanned = {}
  /\ infos' = CanonicalOrder(infos, mainOrder)
  /\ LoadReturns("ok")
  /\ UNCHANGED <<given, bare, position, setId, blockSize, mainOrder, deferred, recovery,
                 checksums, unscanned, unreadable>>

LoaderNext ==
  \/ BeginLoad \/ SkipNoMagic \/ SkipBadLength \/ DeferRecovery \/ TakeRecovery
  \/ SkipDamaged \/ TakeMain \/ TakeFileDesc \/ TakeChecksums \/ SkipOther
  \/ EndScan \/ FinishLoad
  \/ \E name \in unscanned : ScanVolume(name)

\* An I/O operation fails: the given file's ends the load, a volume's costs the volume.
LoadFails ==
  \/ /\ loading = "scan" /\ LoadReturns("failed")
     /\ UNCHANGED <<unscanned, unreadable>>
  \/ /\ loading = "volumes" /\ \E name \in unscanned :
          /\ unscanned' = unscanned \ {name}
          /\ unreadable' = unreadable \cup {name}
     /\ UNCHANGED <<loading, loaded>>

-----------------------------------------------------------------------------
(***************************************************************************)
(* Par2Info: what is reported of a loaded set.                             *)
(***************************************************************************)
DistinctRecoveryBlocks == Cardinality({recovery[k].exp : k \in 1 .. Len(recovery)})

TotalDataBlocks == SumOf([i \in 1 .. Len(infos) |-> BlocksOf(infos[i], blockSize)])

CanRepair(damagedBlocks) == damagedBlocks =< DistinctRecoveryBlocks
=============================================================================
