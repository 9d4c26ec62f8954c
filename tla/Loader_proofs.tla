---------------------------- MODULE Loader_proofs ----------------------------
(***************************************************************************)
(* Proofs about loading what a directory holds (Loader, Archive): which    *)
(* packets a load takes in, what it makes of them, and that what has been  *)
(* created loads again.                                                    *)
(***************************************************************************)
EXTENDS Archive_proofs

-----------------------------------------------------------------------------
(***************************************************************************)
(* The phases of a load.                                                   *)
(***************************************************************************)

\* A load has begun.
Begun == loading \in {"scan", "volumes", "done"}

\* Nothing has been loaded.
Fresh ==
  /\ loaded = "none" /\ position = 0 /\ setId = NoSet /\ blockSize = 0 /\ infos = <<>>
  /\ mainOrder = <<>> /\ deferred = <<>> /\ recovery = <<>> /\ checksums = <<>>
  /\ unscanned = {} /\ unreadable = {}

\* Calls of create and load take turns, the load is the last, and it ends in one of three ways.
PhaseInv ==
  /\ loading \in {"idle", "due", "scan", "volumes", "done"}
  /\ loaded \in {"none", "ok", "error", "failed"}
  /\ creating # "idle" => loading = "idle"
  /\ ~Begun => Fresh
  /\ Begun => given \in DOMAIN dir /\ position \in Nat \ {0}
  /\ loaded = "none" <=> loading # "done"
  /\ position \in Nat /\ blockSize \in Nat
  /\ loading = "scan" => unscanned = {} /\ unreadable = {} /\ Here # <<>>
  /\ loading = "volumes" \/ loaded = "ok" =>
       position > Len(Here) /\ setId # NoSet /\ blockSize # 0 /\ Here # <<>>
  /\ loaded = "ok" => unscanned = {}
  /\ loaded = "error" => position > Len(Here) /\ (setId = NoSet \/ blockSize = 0)
  /\ unscanned \cup unreadable \subseteq DOMAIN dir
  /\ loading = "volumes" => given \notin unscanned
  /\ loaded = "failed" \/ unreadable # {} => mishaps # 0

\* A step of the scan.
ScanStep ==
  \/ SkipNoMagic \/ SkipBadLength \/ DeferRecovery \/ TakeRecovery \/ SkipDamaged
  \/ TakeMain \/ TakeFileDesc \/ TakeChecksums \/ SkipOther

\* What all steps of the scan do: they go on by a packet, or by two if the length of the
\* first takes in the second.
LEMMA ScanMoves ==
  ASSUME ScanStep
  PROVE  /\ loading = "scan" /\ position =< Len(Here)
         /\ UNCHANGED <<loading, loaded, given, bare, unscanned, unreadable>>
         /\ position' = position + 1 \/ (position' = position + 2 /\ Slot.harm = "overlong")
         /\ setId' = setId \/ (setId = NoSet /\ setId' = HeaderSet(Slot))
<1>1. ASSUME NEW kind, TakePacket(kind)
      PROVE  /\ loading = "scan" /\ position =< Len(Here)
             /\ UNCHANGED <<loading, loaded, given, bare, unscanned, unreadable>>
             /\ position' = position + 1 \/ (position' = position + 2 /\ Slot.harm = "overlong")
             /\ setId' = setId \/ (setId = NoSet /\ setId' = HeaderSet(Slot))
  BY <1>1 DEF TakePacket, Header, ScanUnchanged, After, Slot
<1>2. CASE SkipNoMagic
  BY <1>2 DEF SkipNoMagic, ScanUnchanged
<1>3. CASE SkipBadLength
  BY <1>3 DEF SkipBadLength, Header, ScanUnchanged
<1>4. ASSUME ~SkipNoMagic, ~SkipBadLength PROVE \E kind : TakePacket(kind)
  BY <1>4 DEF ScanStep, DeferRecovery, TakeRecovery, SkipDamaged, TakeMain, TakeFileDesc,
              TakeChecksums, SkipOther
<1> QED
  BY <1>1, <1>2, <1>3, <1>4

\* The slot of a scan holds a good packet.
LEMMA SlotIsGood ==
  ASSUME DirInv, PhaseInv, loading = "scan", position =< Len(Here)
  PROVE  /\ GoodFile(Here, Used, ~blurred) /\ IsSeq(Here) /\ Len(Here) \in Nat
         /\ position \in 1 .. Len(Here) /\ Shape(Slot) /\ Slot.set = Here[1].set
<1>1. given \in DOMAIN dir /\ position \in Nat \ {0}
  BY DEF PhaseInv, Begun
<1>2. GoodFile(Here, Used, ~blurred)
  BY <1>1 DEF DirInv, Here
<1>3. IsSeq(Here) /\ Len(Here) \in Nat
  BY <1>2, SeqFacts DEF GoodFile
<1>4. position \in 1 .. Len(Here) /\ 1 \in 1 .. Len(Here)
  BY <1>1, <1>3
<1> QED
  BY <1>2, <1>3, <1>4 DEF GoodFile, GoodPacket, Slot

\* The set a header tells is not none.
LEMMA HeaderTells ==
  ASSUME NEW p, Shape(p)
  PROVE  HeaderSet(p) # NoSet /\ p.set # NoSet /\ p.set # Garbled
<1>1. NoSet.size = 0 /\ Garbled.size = 0 /\ Len(NoSet.ids) = 0 /\ Len(Garbled.ids) = 1
  BY DEF NoSet, Garbled, SetIdOf
<1>2. NoSet # Garbled
  BY <1>1
<1> QED
  BY <1>1, <1>2 DEF HeaderSet, Shape

\* How the archive moves on, seen from the load.
LEMMA LoadSteps ==
  ASSUME PhaseInv, [ArchiveNext]_archiveVars
  PROVE  \/ /\ ~Begun /\ loading' \in {"idle", "due"}
            /\ creating' # "idle" => loading' = "idle"
            /\ UNCHANGED <<loaded, given, bare, position, setId, blockSize, infos, mainOrder,
                           deferred, recovery, checksums, unscanned, unreadable>>
         \/ LoaderSteps
         \/ /\ LoadFails /\ mishaps' = mishaps + 1
            /\ UNCHANGED <<given, bare, position, setId, blockSize, infos, mainOrder, deferred,
                           recovery, checksums, dir, creatorVars>>
         \/ UNCHANGED archiveVars
<1>1. CASE CreatorSteps
  BY <1>1 DEF CreatorSteps, loaderVars, Begun
<1>2. CASE Environment
  <2>1. CASE loading = "idle" /\ UNCHANGED loaderVars
    BY <2>1 DEF loaderVars, Begun
  <2>2. CASE \E name \in DOMAIN dir :
               Harm(name) \/ Delete(name) \/ Rename(name) \/ Reorder(name)
    <3>1. Mishap
      BY <2>2 DEF Harm, Delete, Rename, Reorder
    <3>2. creating = "idle" /\ creating' = creating /\ loading \in {"idle", "due"}
      BY <3>1 DEF Mishap, Undisturbed, creatorVars
    <3> QED
      BY <3>1, <3>2 DEF Mishap, Begun
  <2>3. \/ loading = "idle" /\ UNCHANGED loaderVars
        \/ \E name \in DOMAIN dir : Harm(name) \/ Delete(name) \/ Rename(name) \/ Reorder(name)
        \/ /\ LoadFails /\ mishaps' = mishaps + 1
           /\ UNCHANGED <<given, bare, position, setId, blockSize, infos, mainOrder, deferred,
                          recovery, checksums, dir, creatorVars>>
    BY <1>2 DEF Environment
  <2> QED
    BY <2>1, <2>2, <2>3
<1>3. CASE Settled
  BY <1>3 DEF Settled
<1> QED
  BY <1>1, <1>2, <1>3 DEF ArchiveNext

\* What a loader step leaves alone.
LEMMA LoaderKeeps ==
  ASSUME LoaderSteps
  PROVE  /\ creating = "idle" /\ UNCHANGED <<dir, mishaps, creating, source, blurred>>
         /\ UNCHANGED <<created, options, meta, size, wanted, read, volumes>>
BY DEF LoaderSteps, creatorVars, planVars, splitVars

\* Every step keeps the phases in order.
LEMMA PhaseNext ==
  DirInv /\ WriteInv /\ PhaseInv /\ [ArchiveNext]_archiveVars => PhaseInv'
<1> SUFFICES ASSUME DirInv, WriteInv, PhaseInv, [ArchiveNext]_archiveVars PROVE PhaseInv'
  OBVIOUS
<1>1. CASE /\ ~Begun /\ loading' \in {"idle", "due"}
           /\ creating' # "idle" => loading' = "idle"
           /\ UNCHANGED <<loaded, given, bare, position, setId, blockSize, infos, mainOrder,
                          deferred, recovery, checksums, unscanned, unreadable>>
  <2>1. Fresh /\ Fresh' /\ ~Begun'
    BY <1>1 DEF PhaseInv, Fresh, Begun
  <2> QED
    BY <1>1, <2>1 DEF PhaseInv, Fresh, Begun
<1>2. CASE LoaderSteps
  <2>1. creating = "idle" /\ UNCHANGED <<dir, mishaps, creating>>
    BY <1>2, LoaderKeeps
  <2>2. CASE BeginLoad
    <3>1. PICK n \in DOMAIN dir :
            /\ given' = n /\ position' = 1
            /\ IF dir[n] = <<>> THEN LoadReturns("error")
                                ELSE loading' = "scan" /\ UNCHANGED loaded
      BY <2>2 DEF BeginLoad
    <3>2. /\ Fresh /\ ~Begun
          /\ UNCHANGED <<setId, blockSize, infos, mainOrder, deferred, recovery, checksums,
                         unscanned, unreadable>>
      BY <2>2 DEF BeginLoad, PhaseInv, Begun
    <3>3. given' \in DOMAIN dir' /\ Here' = dir[n]
      BY <2>1, <3>1 DEF Here
    <3>4. CASE dir[n] = <<>>
      <4>1. Len(Here') = 0
        BY <3>3, <3>4, ShortSeqs
      <4>2. loading' = "done" /\ loaded' = "error"
        BY <3>1, <3>4 DEF LoadReturns
      <4> QED
        BY <2>1, <3>1, <3>2, <3>3, <4>1, <4>2 DEF PhaseInv, Fresh, Begun
    <3>5. CASE dir[n] # <<>>
      <4>1. loading' = "scan" /\ loaded' = "none"
        BY <3>1, <3>2, <3>5 DEF Fresh
      <4> QED
        BY <2>1, <3>1, <3>2, <3>3, <3>5, <4>1 DEF PhaseInv, Fresh, Begun
    <3> QED
      BY <3>4, <3>5
  <2>3. CASE ScanStep
    <3>1. /\ loading = "scan" /\ position =< Len(Here)
          /\ UNCHANGED <<loading, loaded, given, bare, unscanned, unreadable>>
          /\ position' = position + 1 \/ position' = position + 2
      BY <2>3, ScanMoves
    <3>2. blockSize' \in Nat
      <4>1. CASE TakeMain
        <5>1. Slot.kind = "Main" /\ blockSize' = Slot.body.size /\ Shape(Slot)
          BY <3>1, <4>1, SlotIsGood DEF TakeMain, TakePacket
        <5> QED
          BY <5>1 DEF Shape
      <4>2. CASE ~TakeMain
        <5>1. blockSize' = blockSize
          BY <2>3, <4>2 DEF ScanStep, SkipNoMagic, SkipBadLength, DeferRecovery, TakeRecovery,
                            SkipDamaged, TakeFileDesc, TakeChecksums, SkipOther
        <5> QED
          BY <5>1 DEF PhaseInv
      <4> QED
        BY <4>1, <4>2
    <3>3. position' \in Nat \ {0}
      BY <3>1 DEF PhaseInv
    <3>4. Here' = Here
      BY <2>1, <3>1 DEF Here
    <3> QED
      BY <2>1, <3>1, <3>2, <3>3, <3>4 DEF PhaseInv, Begun
  <2>4. CASE EndScan
    <3>1. /\ loading = "scan" /\ position > Len(Here) /\ Here' = Here
          /\ UNCHANGED <<given, position, setId, blockSize, unreadable>>
          /\ IF setId = NoSet \/ blockSize = 0
               THEN loading' = "done" /\ loaded' = "error" /\ UNCHANGED unscanned
               ELSE /\ loading' = "volumes" /\ UNCHANGED loaded
                    /\ unscanned' = IF bare THEN {} ELSE DOMAIN dir \ {given}
      BY <2>1, <2>4 DEF EndScan, LoadReturns, Here
    <3> QED
      BY <2>1, <3>1 DEF PhaseInv, Begun
  <2>5. CASE \E name \in unscanned : ScanVolume(name)
    <3>1. /\ loading = "volumes" /\ Here' = Here /\ unscanned' \subseteq unscanned
          /\ UNCHANGED <<loading, loaded, given, position, setId, blockSize, unreadable>>
      BY <2>1, <2>5 DEF ScanVolume, Here
    <3> QED
      BY <2>1, <3>1 DEF PhaseInv, Begun
  <2>6. CASE FinishLoad
    <3>1. /\ loading = "volumes" /\ unscanned = {} /\ Here' = Here
          /\ loading' = "done" /\ loaded' = "ok"
          /\ UNCHANGED <<given, position, setId, blockSize, unscanned, unreadable>>
      BY <2>1, <2>6 DEF FinishLoad, LoadReturns, Here
    <3> QED
      BY <2>1, <3>1 DEF PhaseInv, Begun
  <2> QED
    BY <1>2, <2>2, <2>3, <2>4, <2>5, <2>6 DEF LoaderSteps, LoaderNext, ScanStep
<1>3. CASE /\ LoadFails /\ mishaps' = mishaps + 1
           /\ UNCHANGED <<given, bare, position, setId, blockSize, infos, mainOrder, deferred,
                          recovery, checksums, dir, creatorVars>>
  <2>1. UNCHANGED <<creating, dir>> /\ mishaps' # 0 /\ Here' = Here
    BY <1>3 DEF creatorVars, WriteInv, Here
  <2>2. CASE loading = "scan" /\ LoadReturns("failed") /\ UNCHANGED <<unscanned, unreadable>>
    BY <1>3, <2>1, <2>2 DEF PhaseInv, Begun, LoadReturns
  <2>3. CASE /\ loading = "volumes" /\ UNCHANGED <<loading, loaded>>
             /\ \E name \in unscanned :
                  /\ unscanned' = unscanned \ {name}
                  /\ unreadable' = unreadable \cup {name}
    BY <1>3, <2>1, <2>3 DEF PhaseInv, Begun
  <2> QED
    BY <1>3, <2>2, <2>3 DEF LoadFails
<1>4. CASE UNCHANGED archiveVars
  BY <1>4 DEF archiveVars, loaderVars, creatorVars, PhaseInv, Begun, Fresh, Here
<1> QED
  BY <1>1, <1>2, <1>3, <1>4, LoadSteps

\* Nothing is loaded to begin with.
LEMMA PhaseInit == ArchiveInit => PhaseInv
BY DEF ArchiveInit, CreatorInit, LoaderInit, PhaseInv, Begun, Fresh

-----------------------------------------------------------------------------
(***************************************************************************)
(* What a load knows.                                                      *)
(***************************************************************************)

\* No damage touches slot i or the packet before it.
Intact(ps, i) == ps[i].harm = "none" /\ (i = 1 \/ ps[i - 1].harm # "overlong")

\* What the headers and the Main packet have said.
HeaderInv ==
  /\ setId \in {NoSet, Garbled, Here[1].set}
  /\ setId = Garbled => \E i \in 1 .. Len(Here) : Here[i].harm = "set"
  /\ blockSize # 0 => /\ blockSize = Here[1].set.size /\ mainOrder = Here[1].set.ids
                      /\ Len(Here) # 0
  /\ blockSize = 0 => mainOrder = <<>>

\* The descriptions and checksums are from packets of the file, each file is described once,
\* and in the end the descriptions are in the order of the ids.
InfoInv ==
  /\ IsSeq(infos)
  /\ \A k \in 1 .. Len(infos) : \E i \in 1 .. Len(Here) :
       Here[i].kind = "FileDesc" /\ infos[k] = Here[i].body
  /\ \A k, l \in 1 .. Len(infos) : infos[k].id = infos[l].id => k = l
  /\ loaded = "ok" => \A k, l \in 1 .. Len(infos) : k < l => infos[k].id < infos[l].id
  /\ \A id \in DOMAIN checksums : \E i \in 1 .. Len(Here) :
       Here[i].kind = "IFSC" /\ Here[i].body.id = id /\ checksums[id] = Here[i].body.sums

\* A recovery block is what a slot of a file holds, of the given file or of a volume of the set.
Sliced(r) ==
  /\ r.name \in DOMAIN dir /\ r.slot \in 1 .. Len(dir[r.name])
  /\ dir[r.name][r.slot].kind = "RecoverySlice"
  /\ r.exp = dir[r.name][r.slot].body.exp /\ r.of = DataOf(dir[r.name][r.slot])
  /\ r.name = given \/ FirstSetId(r.name) = setId

\* No slot is taken twice.
Once(rs) ==
  \A k, l \in 1 .. Len(rs) : rs[k].name = rs[l].name /\ rs[k].slot = rs[l].slot => k = l

SliceInv ==
  /\ IsSeq(deferred) /\ IsSeq(recovery)
  /\ \A k \in 1 .. Len(deferred) :
       /\ deferred[k] \in 1 .. Len(Here) /\ deferred[k] < position
       /\ Here[deferred[k]].kind = "RecoverySlice"
  /\ \A k, l \in 1 .. Len(deferred) : deferred[k] = deferred[l] => k = l
  /\ \A k \in 1 .. Len(recovery) : Sliced(recovery[k])
  /\ Once(recovery)
  /\ loading = "scan" => \A k \in 1 .. Len(recovery) :
       /\ recovery[k].name = given /\ recovery[k].slot < position
       /\ \A l \in 1 .. Len(deferred) : deferred[l] # recovery[k].slot
  /\ loading = "volumes" => \A k \in 1 .. Len(recovery) : recovery[k].name \notin unscanned

\* A slot is among the recovery blocks.
Has(rs, name, slot) == \E k \in 1 .. Len(rs) : rs[k].name = name /\ rs[k].slot = slot

\* The scan has passed over no intact packet that it needs, and the volumes that have been
\* scanned are in.
CoverInv ==
  /\ \A i \in 1 .. Len(Here) : i < position /\ Intact(Here, i) =>
       /\ Here[i].kind = "Main" => blockSize # 0 /\ setId # NoSet
       /\ Here[i].kind = "FileDesc" => \E k \in 1 .. Len(infos) : infos[k].id = Here[i].body.id
       /\ Here[i].kind = "RecoverySlice" =>
            Has(recovery, given, i) \/ \E k \in 1 .. Len(deferred) : deferred[k] = i
  /\ loading = "volumes" \/ loaded = "ok" =>
       /\ \A k \in 1 .. Len(deferred) : Has(recovery, given, deferred[k])
       /\ ~bare => \A n \in DOMAIN dir \ (unscanned \cup unreadable) :
            n # given /\ FirstSetId(n) = setId =>
              \A i \in 1 .. Len(dir[n]) :
                dir[n][i].kind = "RecoverySlice" /\ Intact(dir[n], i) => Has(recovery, n, i)

LoadInv == Begun => HeaderInv /\ InfoInv /\ SliceInv /\ CoverInv

\* A load that begins knows nothing.
LEMMA LoadBegins == PhaseInv /\ LoaderSteps /\ BeginLoad => LoadInv'
<1> SUFFICES ASSUME PhaseInv, LoaderSteps, BeginLoad PROVE LoadInv'
  OBVIOUS
<1>1. /\ Fresh
      /\ UNCHANGED <<setId, blockSize, infos, mainOrder, deferred, recovery, checksums,
                     unscanned, unreadable>>
  BY DEF BeginLoad, PhaseInv, Begun
<1>2. position' = 1 /\ loading' \in {"scan", "done"} /\ loaded' \in {"none", "error"}
  BY <1>1 DEF BeginLoad, LoadReturns, Fresh
<1>3. /\ setId' = NoSet /\ blockSize' = 0 /\ mainOrder' = <<>> /\ DOMAIN checksums' = {}
      /\ IsSeq(infos') /\ Len(infos') = 0 /\ IsSeq(deferred') /\ Len(deferred') = 0
      /\ IsSeq(recovery') /\ Len(recovery') = 0
  <2>1. IsSeq(<<>>) /\ Len(<<>>) = 0
    BY ShortSeqs
  <2>3. DOMAIN <<>> = {}
    OBVIOUS
  <2>2. /\ setId' = NoSet /\ blockSize' = 0 /\ mainOrder' = <<>> /\ checksums' = <<>>
        /\ infos' = <<>> /\ deferred' = <<>> /\ recovery' = <<>>
    BY <1>1 DEF Fresh
  <2> QED
    BY <2>1, <2>2, <2>3
<1>4. NoSet # Garbled
  <2>1. Len(NoSet.ids) = 0 /\ Len(Garbled.ids) = 1
    BY DEF NoSet, Garbled, SetIdOf
  <2> QED
    BY <2>1
<1>5. HeaderInv'
  BY <1>3, <1>4 DEF HeaderInv
<1>6. InfoInv' /\ SliceInv'
  BY <1>2, <1>3 DEF InfoInv, SliceInv, Once
<1>7. CoverInv'
  BY <1>2, <1>3 DEF CoverInv
<1> QED
  BY <1>5, <1>6, <1>7 DEF LoadInv

\* The scan: headers.
LEMMA ScanHeader ==
  ASSUME DirInv, PhaseInv, HeaderInv, ScanStep, UNCHANGED dir
  PROVE  HeaderInv'
<1>1. /\ loading = "scan" /\ position =< Len(Here) /\ given' = given
      /\ setId' = setId \/ (setId = NoSet /\ setId' = HeaderSet(Slot))
  BY ScanMoves
<1>2. /\ position \in 1 .. Len(Here) /\ Len(Here) \in Nat
      /\ Shape(Slot) /\ Slot.set = Here[1].set
  BY <1>1, SlotIsGood
<1>3. Here' = Here
  BY <1>1 DEF Here
<1>4. /\ setId' \in {NoSet, Garbled, Here[1].set}
      /\ setId' = Garbled => \E i \in 1 .. Len(Here) : Here[i].harm = "set"
  <2>1. CASE setId' = setId
    BY <2>1 DEF HeaderInv
  <2>2. CASE setId' = HeaderSet(Slot)
    BY <1>2, <2>2, HeaderTells DEF HeaderSet, Slot
  <2> QED
    BY <1>1, <2>1, <2>2
<1>5. CASE TakeMain
  <2>1. /\ Slot.kind = "Main" /\ blockSize' = Slot.body.size
        /\ mainOrder' = IF mainOrder = <<>> THEN Slot.body.ids ELSE mainOrder
    BY <1>5 DEF TakeMain, TakePacket
  <2>2. Slot.body = Here[1].set /\ Slot.body.size # 0
    BY <1>2, <2>1 DEF Shape
  <2>3. mainOrder = <<>> \/ mainOrder = Here[1].set.ids
    BY DEF HeaderInv
  <2> QED
    BY <1>2, <1>3, <1>4, <2>1, <2>2, <2>3 DEF HeaderInv
<1>6. CASE ~TakeMain
  <2>1. UNCHANGED <<blockSize, mainOrder>>
    BY <1>6 DEF ScanStep, SkipNoMagic, SkipBadLength, DeferRecovery, TakeRecovery, SkipDamaged,
                TakeFileDesc, TakeChecksums, SkipOther
  <2> QED
    BY <1>3, <1>4, <2>1 DEF HeaderInv
<1> QED
  BY <1>5, <1>6

\* The scan: descriptions and checksums.
LEMMA ScanInfo ==
  ASSUME DirInv, PhaseInv, InfoInv, ScanStep, UNCHANGED dir
  PROVE  InfoInv'
<1>1. loading = "scan" /\ position =< Len(Here) /\ given' = given /\ loaded' = loaded
  BY ScanMoves
<1>2. position \in 1 .. Len(Here) /\ loaded' # "ok"
  BY <1>1, SlotIsGood DEF PhaseInv
<1>3. Here' = Here
  BY <1>1 DEF Here
<1>4. CASE UNCHANGED <<infos, checksums>>
  BY <1>2, <1>3, <1>4 DEF InfoInv
<1>5. CASE TakeFileDesc
  <2>1. /\ Slot.kind = "FileDesc" /\ checksums' = checksums
        /\ infos' = IF \E i \in 1 .. Len(infos) : infos[i].id = Slot.body.id
                      THEN infos ELSE Append(infos, Slot.body)
    BY <1>5 DEF TakeFileDesc, TakePacket
  <2>2. CASE \A i \in 1 .. Len(infos) : infos[i].id # Slot.body.id
    <3> DEFINE new == Append(infos, Slot.body)
    <3>1. /\ IsSeq(new) /\ Len(new) = Len(infos) + 1 /\ Len(infos) \in Nat
          /\ \A i \in 1 .. Len(infos) : new[i] = infos[i]
          /\ new[Len(infos) + 1] = Slot.body
      BY SeqAppend, SeqFacts DEF InfoInv
    <3>2. infos' = new
      BY <2>1, <2>2
    <3> HIDE DEF new
    <3>3. \A k \in 1 .. Len(new) : k \in 1 .. Len(infos) \/ k = Len(infos) + 1
      BY <3>1
    <3>4. \A k \in 1 .. Len(new) : \E i \in 1 .. Len(Here) :
            Here[i].kind = "FileDesc" /\ new[k] = Here[i].body
      BY <1>2, <2>1, <3>1, <3>3 DEF InfoInv, Slot
    <3>5. \A k, l \in 1 .. Len(new) : new[k].id = new[l].id => k = l
      BY <2>2, <3>1, <3>3 DEF InfoInv
    <3>6. \A id \in DOMAIN checksums : \E i \in 1 .. Len(Here) :
            Here[i].kind = "IFSC" /\ Here[i].body.id = id /\ checksums[id] = Here[i].body.sums
      BY DEF InfoInv
    <3>7. /\ IsSeq(infos') /\ loaded' # "ok"
          /\ \A k \in 1 .. Len(infos') : \E i \in 1 .. Len(Here') :
               Here'[i].kind = "FileDesc" /\ infos'[k] = Here'[i].body
          /\ \A k, l \in 1 .. Len(infos') : infos'[k].id = infos'[l].id => k = l
      BY <1>2, <1>3, <3>1, <3>2, <3>4, <3>5
    <3> QED
      BY <1>3, <2>1, <3>6, <3>7 DEF InfoInv
  <2> QED
    BY <1>4, <2>1, <2>2
<1>6. CASE TakeChecksums
  <2>1. /\ Slot.kind = "IFSC" /\ infos' = infos
        /\ checksums' = With(checksums, Slot.body.id, Slot.body.sums)
    BY <1>6 DEF TakeChecksums, TakePacket
  <2>2. \A id \in DOMAIN checksums' : \E i \in 1 .. Len(Here) :
          Here[i].kind = "IFSC" /\ Here[i].body.id = id /\ checksums'[id] = Here[i].body.sums
    BY <1>2, <2>1 DEF With, InfoInv, Slot
  <2> QED
    BY <1>2, <1>3, <2>1, <2>2 DEF InfoInv
<1> QED
  BY <1>4, <1>5, <1>6 DEF ScanStep, SkipNoMagic, SkipBadLength, DeferRecovery, TakeRecovery,
                          SkipDamaged, TakeMain, SkipOther

\* The scan: recovery blocks.
LEMMA ScanSlices ==
  ASSUME DirInv, PhaseInv, SliceInv, HeaderInv, ScanStep, UNCHANGED dir
  PROVE  SliceInv'
<1>1. /\ loading = "scan" /\ loading' = "scan" /\ position =< Len(Here) /\ given' = given
      /\ position' = position + 1 \/ position' = position + 2
      /\ setId' = setId \/ setId = NoSet
  BY ScanMoves
<1>2. /\ position \in 1 .. Len(Here) /\ Len(Here) \in Nat /\ position' \in Nat
      /\ position < position' /\ given \in DOMAIN dir
  BY <1>1, SlotIsGood DEF PhaseInv, Begun
<1>3. Here' = Here
  BY <1>1 DEF Here
<1>4. \A r : r.name = given /\ Sliced(r) =>
        /\ given \in DOMAIN dir /\ r.slot \in 1 .. Len(Here)
        /\ Here[r.slot].kind = "RecoverySlice"
        /\ r.exp = Here[r.slot].body.exp /\ r.of = DataOf(Here[r.slot])
  BY DEF Sliced, Here
<1>5. ASSUME NEW k \in 1 .. Len(recovery)
      PROVE  /\ recovery[k].name = given /\ recovery[k].slot \in Nat
             /\ recovery[k].slot < position /\ recovery[k].slot < position'
             /\ \A l \in 1 .. Len(deferred) : deferred[l] # recovery[k].slot
             /\ Sliced(recovery[k])
  BY <1>1, <1>2, <1>4 DEF SliceInv
<1>6. \A k \in 1 .. Len(deferred) :
        /\ deferred[k] \in 1 .. Len(Here) /\ deferred[k] < position /\ deferred[k] < position'
        /\ Here[deferred[k]].kind = "RecoverySlice"
  BY <1>1, <1>2 DEF SliceInv
<1>7. ASSUME NEW r, r.name = given, Sliced(r)
      PROVE  /\ r.name \in DOMAIN dir' /\ r.slot \in 1 .. Len(dir'[r.name])
             /\ dir'[r.name][r.slot].kind = "RecoverySlice"
             /\ r.exp = dir'[r.name][r.slot].body.exp /\ r.of = DataOf(dir'[r.name][r.slot])
             /\ r.name = given'
  BY <1>1, <1>7 DEF Sliced
<1>8. CASE UNCHANGED <<deferred, recovery>>
  <2>1. \A k \in 1 .. Len(recovery') : Sliced(recovery[k])'
    BY <1>5, <1>7, <1>8 DEF Sliced
  <2> QED
    BY <1>1, <1>3, <1>5, <1>6, <1>8, <2>1 DEF SliceInv, Once
<1>9. CASE DeferRecovery
  <2>1. /\ Slot.kind = "RecoverySlice" /\ recovery' = recovery
        /\ deferred' = Append(deferred, position)
    BY <1>9 DEF DeferRecovery, TakePacket
  <2> DEFINE new == Append(deferred, position)
  <2>2. /\ IsSeq(new) /\ Len(new) = Len(deferred) + 1 /\ Len(deferred) \in Nat
        /\ \A i \in 1 .. Len(deferred) : new[i] = deferred[i]
        /\ new[Len(deferred) + 1] = position
    BY SeqAppend, SeqFacts DEF SliceInv
  <2>3. deferred' = new
    BY <2>1
  <2> HIDE DEF new
  <2>4. \A k \in 1 .. Len(new) : k \in 1 .. Len(deferred) \/ k = Len(deferred) + 1
    BY <2>2
  <2>5. \A k \in 1 .. Len(new) :
          /\ new[k] \in 1 .. Len(Here) /\ new[k] < position'
          /\ Here[new[k]].kind = "RecoverySlice"
    BY <1>2, <1>6, <2>1, <2>2, <2>4 DEF Slot
  <2>6. \A k, l \in 1 .. Len(new) : new[k] = new[l] => k = l
    <3> SUFFICES ASSUME NEW k \in 1 .. Len(new), NEW l \in 1 .. Len(new), new[k] = new[l]
                 PROVE  k = l
      OBVIOUS
    <3>1. \A i \in 1 .. Len(deferred) : new[i] # position
      BY <1>2, <1>6, <2>2
    <3> QED
      BY <2>2, <2>4, <3>1 DEF SliceInv
  <2>7. \A k \in 1 .. Len(recovery) : \A l \in 1 .. Len(new) : new[l] # recovery[k].slot
    BY <1>2, <1>5, <2>2, <2>4
  <2>8. \A k \in 1 .. Len(recovery') : Sliced(recovery[k])'
    BY <1>5, <1>7, <2>1 DEF Sliced
  <2>9. IsSeq(recovery') /\ Once(recovery')
    BY <2>1 DEF SliceInv
  <2> QED
    BY <1>1, <1>3, <1>5, <2>1, <2>2, <2>3, <2>5, <2>6, <2>7, <2>8, <2>9 DEF SliceInv
<1>10. CASE TakeRecovery
  <2>1. /\ Slot.kind = "RecoverySlice" /\ deferred' = deferred
        /\ recovery' = Append(recovery, BlockAt(given, position))
    BY <1>10 DEF TakeRecovery, TakePacket
  <2> DEFINE b == BlockAt(given, position)
  <2>2. /\ b.name = given /\ b.slot = position /\ b.exp = Slot.body.exp /\ b.of = DataOf(Slot)
    BY DEF BlockAt, Slot, Here
  <2> DEFINE new == Append(recovery, b)
  <2>3. recovery' = new
    BY <2>1
  <2> HIDE DEF b
  <2>4. Sliced(b)
    BY <1>2, <2>1, <2>2 DEF Sliced, Slot, Here
  <2>5. /\ IsSeq(new) /\ Len(new) = Len(recovery) + 1 /\ Len(recovery) \in Nat
        /\ \A i \in 1 .. Len(recovery) : new[i] = recovery[i]
        /\ new[Len(recovery) + 1] = b
    BY SeqAppend, SeqFacts DEF SliceInv
  <2> HIDE DEF new
  <2>6. \A k \in 1 .. Len(new) : k \in 1 .. Len(recovery) \/ k = Len(recovery) + 1
    BY <2>5
  <2>7. \A k \in 1 .. Len(new) :
          /\ new[k].name = given /\ Sliced(new[k]) /\ new[k].slot < position'
          /\ \A l \in 1 .. Len(deferred) : deferred[l] # new[k].slot
    <3> SUFFICES ASSUME NEW k \in 1 .. Len(new)
                 PROVE  /\ new[k].name = given /\ Sliced(new[k]) /\ new[k].slot < position'
                        /\ \A l \in 1 .. Len(deferred) : deferred[l] # new[k].slot
      OBVIOUS
    <3>1. CASE k \in 1 .. Len(recovery)
      BY <1>5, <2>5, <3>1
    <3>2. CASE k = Len(recovery) + 1
      <4>1. \A l \in 1 .. Len(deferred) : deferred[l] # position
        BY <1>2, <1>6
      <4> QED
        BY <1>2, <2>2, <2>4, <2>5, <3>2, <4>1
    <3> QED
      BY <2>6, <3>1, <3>2
  <2>8. Once(new)
    <3> SUFFICES ASSUME NEW k \in 1 .. Len(new), NEW l \in 1 .. Len(new), new[k].slot = new[l].slot
                 PROVE  k = l
      BY DEF Once
    <3>1. \A i \in 1 .. Len(recovery) : new[i].slot # position
      BY <1>2, <1>5, <2>5
    <3>2. CASE k = Len(recovery) + 1 \/ l = Len(recovery) + 1
      BY <2>2, <2>5, <2>6, <3>1, <3>2
    <3>3. CASE k \in 1 .. Len(recovery) /\ l \in 1 .. Len(recovery)
      BY <1>5, <2>5, <3>3 DEF SliceInv, Once
    <3> QED
      BY <2>6, <3>2, <3>3
  <2>9. \A k \in 1 .. Len(recovery') : Sliced(recovery[k])'
    BY <1>7, <2>3, <2>7 DEF Sliced
  <2>10. \A k \in 1 .. Len(deferred') :
           /\ deferred'[k] \in 1 .. Len(Here') /\ deferred'[k] < position'
           /\ Here'[deferred'[k]].kind = "RecoverySlice"
    BY <1>3, <1>6, <2>1
  <2>11. IsSeq(deferred') /\ \A k, l \in 1 .. Len(deferred') : deferred'[k] = deferred'[l] => k = l
    BY <2>1 DEF SliceInv
  <2>12. IsSeq(recovery') /\ Once(recovery')
    BY <2>3, <2>5, <2>8
  <2>13. \A k \in 1 .. Len(recovery') :
           /\ recovery'[k].name = given' /\ recovery'[k].slot < position'
           /\ \A l \in 1 .. Len(deferred') : deferred'[l] # recovery'[k].slot
    BY <1>1, <2>1, <2>3, <2>7
  <2> QED
    BY <1>1, <2>9, <2>10, <2>11, <2>12, <2>13 DEF SliceInv
<1> QED
  BY <1>8, <1>9, <1>10 DEF ScanStep, SkipNoMagic, SkipBadLength, SkipDamaged, TakeMain,
                           TakeFileDesc, TakeChecksums, SkipOther

\* The scan: what has been passed over.
LEMMA ScanCovers ==
  ASSUME DirInv, PhaseInv, HeaderInv, InfoInv, SliceInv, CoverInv, ScanStep, UNCHANGED dir
  PROVE  CoverInv'
<1>1. /\ loading = "scan" /\ loading' = "scan" /\ loaded' = loaded
      /\ position =< Len(Here) /\ given' = given
      /\ position' = position + 1 \/ (position' = position + 2 /\ Slot.harm = "overlong")
      /\ setId' = setId \/ (setId = NoSet /\ setId' = HeaderSet(Slot))
  BY ScanMoves
<1>2. /\ position \in 1 .. Len(Here) /\ Len(Here) \in Nat /\ Shape(Slot) /\ loaded # "ok"
  BY <1>1, SlotIsGood DEF PhaseInv
<1>3. Here' = Here
  BY <1>1 DEF Here
<1>4. setId # NoSet => setId' # NoSet
  BY <1>1
<1>5. Slot.harm = "none" => HasMagic(Slot) /\ PlausibleLength(Here, position) /\ HashFits(Slot)
  BY DEF HasMagic, PlausibleLength, HashFits, Slot
<1>6. blockSize # 0 => blockSize' # 0
  <2>1. CASE TakeMain
    <3>1. Slot.kind = "Main" /\ blockSize' = Slot.body.size
      BY <2>1 DEF TakeMain, TakePacket
    <3> QED
      BY <1>2, <3>1 DEF Shape
  <2> QED
    BY <2>1 DEF ScanStep, SkipNoMagic, SkipBadLength, DeferRecovery, TakeRecovery, SkipDamaged,
                TakeFileDesc, TakeChecksums, SkipOther
<1>7. ASSUME NEW i \in 1 .. Len(infos)
      PROVE  \E k \in 1 .. Len(infos') : infos'[k] = infos[i]
  <2>1. infos' = infos \/ infos' = Append(infos, Slot.body)
    BY DEF ScanStep, SkipNoMagic, SkipBadLength, DeferRecovery, TakeRecovery, SkipDamaged,
           TakeMain, TakeFileDesc, TakeChecksums, SkipOther
  <2>2. /\ Len(Append(infos, Slot.body)) = Len(infos) + 1 /\ Len(infos) \in Nat
        /\ Append(infos, Slot.body)[i] = infos[i]
    BY SeqAppend, SeqFacts DEF InfoInv
  <2> DEFINE new == Append(infos, Slot.body)
  <2>3. i \in 1 .. Len(new) /\ new[i] = infos[i]
    BY <2>2
  <2> HIDE DEF new
  <2> QED
    BY <2>1, <2>3 DEF new
<1>8. ASSUME NEW i \in Nat
      PROVE  /\ Has(recovery, given, i) => Has(recovery', given, i)
             /\ \A k \in 1 .. Len(deferred) : \E l \in 1 .. Len(deferred') : deferred'[l] = deferred[k]
  <2>1. /\ recovery' = recovery \/ recovery' = Append(recovery, BlockAt(given, position))
        /\ deferred' = deferred \/ deferred' = Append(deferred, position)
    BY DEF ScanStep, SkipNoMagic, SkipBadLength, DeferRecovery, TakeRecovery, SkipDamaged,
           TakeMain, TakeFileDesc, TakeChecksums, SkipOther
  <2> DEFINE more == Append(recovery, BlockAt(given, position))
             later == Append(deferred, position)
  <2>2. /\ Len(more) = Len(recovery) + 1 /\ Len(recovery) \in Nat
        /\ \A k \in 1 .. Len(recovery) : more[k] = recovery[k]
    BY SeqAppend, SeqFacts DEF SliceInv
  <2>3. /\ Len(later) = Len(deferred) + 1 /\ Len(deferred) \in Nat
        /\ \A k \in 1 .. Len(deferred) : later[k] = deferred[k]
    BY SeqAppend, SeqFacts DEF SliceInv
  <2>4. /\ recovery' = recovery \/ recovery' = more
        /\ deferred' = deferred \/ deferred' = later
    BY <2>1
  <2> HIDE DEF more, later
  <2>5. Has(recovery, given, i) => Has(more, given, i)
    BY <2>2 DEF Has
  <2>6. \A k \in 1 .. Len(deferred) : \E l \in 1 .. Len(later) : later[l] = deferred[k]
    BY <2>3
  <2> QED
    BY <2>4, <2>5, <2>6
<1>9. ASSUME Slot.harm = "none"
      PROVE  /\ Slot.kind = "Main" => blockSize' # 0 /\ setId' # NoSet
             /\ Slot.kind = "FileDesc" => \E k \in 1 .. Len(infos') : infos'[k].id = Slot.body.id
             /\ Slot.kind = "RecoverySlice" =>
                  \/ Has(recovery', given, position)
                  \/ \E k \in 1 .. Len(deferred') : deferred'[k] = position
  <2>1. CASE Slot.kind = "Main"
    <3>1. TakeMain
      BY <1>5, <1>9, <2>1 DEF ScanStep, SkipNoMagic, SkipBadLength, DeferRecovery, TakeRecovery,
            SkipDamaged, TakeFileDesc, TakeChecksums, SkipOther, TakePacket
    <3>2. /\ blockSize' = Slot.body.size
          /\ setId' = IF setId = NoSet THEN HeaderSet(Slot) ELSE setId
      BY <3>1 DEF TakeMain, TakePacket, Header
    <3> QED
      BY <1>2, <2>1, <3>2, HeaderTells DEF Shape
  <2>2. CASE Slot.kind = "FileDesc"
    <3>1. TakeFileDesc
      BY <1>5, <1>9, <2>2 DEF ScanStep, SkipNoMagic, SkipBadLength, DeferRecovery, TakeRecovery,
            SkipDamaged, TakeMain, TakeChecksums, SkipOther, TakePacket
    <3>2. \/ infos' = infos /\ \E k \in 1 .. Len(infos) : infos[k].id = Slot.body.id
          \/ infos' = Append(infos, Slot.body)
      BY <3>1 DEF TakeFileDesc
    <3> DEFINE new == Append(infos, Slot.body)
    <3>3. Len(new) = Len(infos) + 1 /\ Len(infos) \in Nat /\ new[Len(infos) + 1] = Slot.body
      BY SeqAppend, SeqFacts DEF InfoInv
    <3> HIDE DEF new
    <3>4. \E k \in 1 .. Len(new) : new[k].id = Slot.body.id
      BY <3>3
    <3> QED
      BY <2>2, <3>2, <3>4 DEF new
  <2>3. CASE Slot.kind = "RecoverySlice"
    <3>1. DeferRecovery \/ TakeRecovery
      BY <1>5, <1>9, <2>3 DEF ScanStep, SkipNoMagic, SkipBadLength, TakeFileDesc,
            SkipDamaged, TakeMain, TakeChecksums, SkipOther, TakePacket
    <3>2. CASE DeferRecovery
      <4> DEFINE new == Append(deferred, position)
      <4>1. Len(new) = Len(deferred) + 1 /\ Len(deferred) \in Nat /\ new[Len(deferred) + 1] = position
        BY SeqAppend, SeqFacts DEF SliceInv
      <4>2. deferred' = new
        BY <3>2 DEF DeferRecovery
      <4> HIDE DEF new
      <4> QED
        BY <2>3, <4>1, <4>2
    <3>3. CASE TakeRecovery
      <4> DEFINE b == BlockAt(given, position)
                 new == Append(recovery, b)
      <4>1. b.name = given /\ b.slot = position
        BY DEF BlockAt
      <4>2. recovery' = new
        BY <3>3 DEF TakeRecovery
      <4> HIDE DEF b
      <4>3. Len(new) = Len(recovery) + 1 /\ Len(recovery) \in Nat /\ new[Len(recovery) + 1] = b
        BY SeqAppend, SeqFacts DEF SliceInv
      <4> HIDE DEF new
      <4>4. Has(new, given, position)
        BY <4>1, <4>3 DEF Has
      <4> QED
        BY <2>3, <4>2, <4>4
    <3> QED
      BY <3>1, <3>2, <3>3
  <2> QED
    BY <2>1, <2>2, <2>3
<1> DEFINE Passed(i) ==
        /\ Here[i].kind = "Main" => blockSize' # 0 /\ setId' # NoSet
        /\ Here[i].kind = "FileDesc" => \E k \in 1 .. Len(infos') : infos'[k].id = Here[i].body.id
        /\ Here[i].kind = "RecoverySlice" =>
             Has(recovery', given, i) \/ \E k \in 1 .. Len(deferred') : deferred'[k] = i
<1>10. ASSUME NEW i \in 1 .. Len(Here), i < position', Intact(Here, i) PROVE Passed(i)
  <2>1. CASE i < position
    <3>1. /\ Here[i].kind = "Main" => blockSize # 0 /\ setId # NoSet
          /\ Here[i].kind = "FileDesc" => \E k \in 1 .. Len(infos) : infos[k].id = Here[i].body.id
          /\ Here[i].kind = "RecoverySlice" =>
               Has(recovery, given, i) \/ \E k \in 1 .. Len(deferred) : deferred[k] = i
      BY <1>10, <2>1 DEF CoverInv
    <3>2. i \in Nat
      OBVIOUS
    <3>3. Here[i].kind = "FileDesc" => \E k \in 1 .. Len(infos') : infos'[k].id = Here[i].body.id
      BY <1>7, <3>1
    <3>4. Here[i].kind = "RecoverySlice" =>
            Has(recovery', given, i) \/ \E k \in 1 .. Len(deferred') : deferred'[k] = i
      BY <1>8, <3>1, <3>2
    <3> QED
      BY <1>4, <1>6, <3>1, <3>3, <3>4
  <2>2. CASE i = position
    BY <1>9, <1>10, <2>2 DEF Intact, Slot
  <2>3. CASE i > position
    <3>1. i = position + 1 /\ Slot.harm = "overlong"
      BY <1>1, <1>2, <1>10, <2>3
    <3>2. i # 1 /\ Here[i - 1] = Slot
      BY <1>2, <3>1 DEF Slot
    <3> QED
      BY <1>10, <3>1, <3>2 DEF Intact
  <2> QED
    BY <1>2, <2>1, <2>2, <2>3
<1> QED
  BY <1>1, <1>2, <1>3, <1>10 DEF CoverInv

-----------------------------------------------------------------------------
(***************************************************************************)
(* The volumes.                                                            *)
(***************************************************************************)

\* An intact packet is one that a scan of the whole file comes to: the recursion over the
\* slots only passes over what an overlong packet takes in.
LEMMA IntactIsScanned ==
  ASSUME NEW ps, NEW i \in 1 .. Len(ps), Intact(ps, i)
  PROVE  i \in ScannedSlots(ps)
<1> DEFINE swallowed(n) == ps[n].harm = "overlong"
           body(f) == [n \in Nat |-> IF n < 2 THEN n = 1 ELSE ~(f[n - 1] /\ swallowed(n - 1))]
           step == [x \in Nat \X {0, 1} |->
                      IF x[1] # 0 /\ x[2] = 1 /\ swallowed(x[1]) THEN 0 ELSE 1]
<1>1. \E f : f = body(f)
  <2>1. step \in [Nat \X {0, 1} -> {0, 1}]
    OBVIOUS
  <2>2. \A n \in Nat, b \in {0, 1} :
          step[<<n, b>>] = IF n # 0 /\ b = 1 /\ swallowed(n) THEN 0 ELSE 1
    OBVIOUS
  <2> HIDE DEF step, swallowed
  <2>3. PICK g : FromNumbers(g, {0, 1}, 0, step)
    BY <2>1, NatRecursion
  <2>4. g \in [Nat -> {0, 1}] /\ g[0] = 0 /\ \A n \in Nat : g[n + 1] = step[<<n, g[n]>>]
    BY <2>3 DEF FromNumbers
  <2> DEFINE f == [n \in Nat |-> g[n] = 1]
  <2>5. \A n \in Nat : (g[n] = 1 => f[n] = TRUE) /\ (g[n] # 1 => f[n] = FALSE)
    OBVIOUS
  <2>6. ASSUME NEW n \in Nat
        PROVE  f[n] = IF n < 2 THEN n = 1 ELSE ~(f[n - 1] /\ swallowed(n - 1))
    <3> HIDE DEF f
    <3>1. CASE n = 0
      <4>1. f[n] = FALSE
        BY <2>4, <2>5, <3>1
      <4>2. (IF n < 2 THEN n = 1 ELSE ~(f[n - 1] /\ swallowed(n - 1))) = FALSE
        BY <3>1
      <4> QED
        BY <4>1, <4>2
    <3>2. CASE n = 1
      <4>1. g[0 + 1] = 1
        BY <2>2, <2>4
      <4>2. f[n] = TRUE
        BY <2>5, <3>2, <4>1
      <4>3. (IF n < 2 THEN n = 1 ELSE ~(f[n - 1] /\ swallowed(n - 1))) = TRUE
        BY <3>2
      <4> QED
        BY <4>2, <4>3
    <3>3. CASE n # 0 /\ n # 1
      <4> DEFINE m == n - 1
      <4>1. m \in Nat /\ m + 1 = n /\ m # 0 /\ ~(n < 2)
        BY <3>3
      <4> HIDE DEF m
      <4>2. g[n] = IF g[m] = 1 /\ swallowed(m) THEN 0 ELSE 1
        BY <2>2, <2>4, <4>1
      <4>3. CASE g[m] = 1 /\ swallowed(m)
        <5>1. f[n] = FALSE /\ f[m] = TRUE
          BY <2>5, <4>1, <4>2, <4>3
        <5>2. (f[m] /\ swallowed(m)) = TRUE
          BY <4>3, <5>1
        <5> QED
          BY <4>1, <5>1, <5>2 DEF m
      <4>4. CASE g[m] # 1
        <5>1. f[n] = TRUE /\ f[m] = FALSE
          BY <2>5, <4>1, <4>2, <4>4
        <5>2. (f[m] /\ swallowed(m)) = FALSE
          BY <5>1
        <5> QED
          BY <4>1, <5>1, <5>2 DEF m
      <4>5. CASE g[m] = 1 /\ ~swallowed(m)
        <5>1. f[n] = TRUE
          BY <2>5, <4>1, <4>2, <4>5
        <5>2. (f[m] /\ swallowed(m)) = FALSE
          BY <4>5
        <5> QED
          BY <4>1, <5>1, <5>2 DEF m
      <4> QED
        BY <4>3, <4>4, <4>5
    <3> QED
      BY <3>1, <3>2, <3>3
  <2>7. f = body(f)
    BY <2>6
  <2> QED
    BY <2>7
<1> DEFINE reached == CHOOSE f : f = body(f)
<1>2. reached = body(reached)
  BY <1>1
<1>3. ScannedSlots(ps) =
        {n \in 1 .. Len(ps) : reached[n] /\ HasMagic(ps[n]) /\ PlausibleLength(ps, n)}
  BY DEF ScannedSlots
<1> HIDE DEF reached
<1>4. i \in Nat /\ i # 0
  OBVIOUS
<1>5. reached[i] = IF i < 2 THEN i = 1 ELSE ~(reached[i - 1] /\ swallowed(i - 1))
  BY <1>2, <1>4
<1>6. reached[i]
  <2>1. CASE i = 1
    <3>1. i < 2
      BY <2>1
    <3>2. (IF i < 2 THEN i = 1 ELSE ~(reached[i - 1] /\ swallowed(i - 1))) = TRUE
      BY <2>1, <3>1
    <3> HIDE DEF swallowed
    <3> QED
      BY <1>5, <3>2
  <2>2. CASE i # 1
    <3>1. ~swallowed(i - 1) /\ ~(i < 2)
      BY <1>4, <2>2 DEF Intact
    <3> QED
      BY <1>5, <3>1
  <2> QED
    BY <2>1, <2>2
<1>7. HasMagic(ps[i]) /\ PlausibleLength(ps, i)
  BY DEF Intact, HasMagic, PlausibleLength
<1> QED
  BY <1>3, <1>6, <1>7

\* The recovery blocks of a file: what recovery slices of it hold, none twice, and each that is
\* intact.
InVolume(rs, name) ==
  /\ IsSeq(rs)
  /\ \A k \in 1 .. Len(rs) :
       /\ rs[k].name = name /\ rs[k].slot \in 1 .. Len(dir[name])
       /\ dir[name][rs[k].slot].kind = "RecoverySlice"
       /\ rs[k].exp = dir[name][rs[k].slot].body.exp
       /\ rs[k].of = DataOf(dir[name][rs[k].slot])
  /\ Once(rs)
  /\ \A i \in 1 .. Len(dir[name]) :
       dir[name][i].kind = "RecoverySlice" /\ Intact(dir[name], i) => Has(rs, name, i)

\* The scan of a volume finds these.
LEMMA VolumeFacts ==
  ASSUME DirInv, NEW name \in DOMAIN dir
  PROVE  InVolume(VolumeBlocks(name), name)
<1> DEFINE ps == dir[name]
           S == {i \in ScannedSlots(ps) : ps[i].kind = "RecoverySlice"}
           key == [x \in S |-> x]
           rs == VolumeBlocks(name)
<1>1. IsSeq(ps) /\ Len(ps) \in Nat
  BY SeqFacts DEF DirInv, GoodFile
<1>2. S \subseteq 1 .. Len(ps) /\ IsFiniteSet(1 .. Len(ps))
  BY <1>1, FS_Interval DEF ScannedSlots
<1>3. IsFiniteSet(S) /\ S \subseteq Nat
  BY <1>2, FS_Subset
<1>4. key \in [S -> Int] /\ \A x \in S : key[x] = x
  BY <1>3
<1>5. \A i \in S : i \in 1 .. Len(ps) /\ ps[i].kind = "RecoverySlice"
  BY <1>2
<1>6. \A i \in 1 .. Len(ps) : ps[i].kind = "RecoverySlice" /\ Intact(ps, i) => i \in S
  BY IntactIsScanned
<1> DEFINE line == ByRank(S, key)
<1>7. Ascending(S) = line
  BY AscendingIsByRank
<1>8. rs = [k \in 1 .. Len(line) |-> BlockAt(name, line[k])]
  BY <1>7 DEF VolumeBlocks
<1> HIDE DEF S, key, rs, ps
<1>9. \A x, y \in S : key[x] = key[y] => x = y
  BY <1>4
<1>16. SortedBy(line, S, key)
  BY <1>3, <1>4, <1>9, Sorting
<1>17. /\ IsSeq(line) /\ Len(line) = Cardinality(S) /\ Cardinality(S) \in Nat
       /\ \A k \in 1 .. Cardinality(S) : line[k] \in S
       /\ \A x \in S : \E k \in 1 .. Cardinality(S) : line[k] = x
       /\ \A k, l \in 1 .. Cardinality(S) : k < l => key[line[k]] < key[line[l]]
  BY <1>16 DEF SortedBy
<1> HIDE DEF line
<1>10. \A k \in 1 .. Len(line) :
         /\ rs[k].name = name /\ rs[k].slot = line[k]
         /\ rs[k].exp = ps[line[k]].body.exp /\ rs[k].of = DataOf(ps[line[k]])
  BY <1>8 DEF BlockAt, ps
<1>11. IsSeq(rs) /\ Len(rs) = Len(line)
  <2>1. rs = [k \in 1 .. Len(line) |-> rs[k]] /\ Len(line) \in Nat
    BY <1>8, <1>17
  <2> QED
    BY <2>1, SeqFromFunction
<1>12. \A k, l \in 1 .. Len(line) : line[k] = line[l] => k = l
  <2> SUFFICES ASSUME NEW k \in 1 .. Len(line), NEW l \in 1 .. Len(line), line[k] = line[l]
               PROVE  k = l
    OBVIOUS
  <2>1. line[k] \in S /\ line[l] \in S /\ key[line[k]] \in Int /\ key[line[k]] = key[line[l]]
    BY <1>4, <1>17
  <2>2. ~(k < l) /\ ~(l < k)
    BY <1>17, <2>1
  <2> QED
    BY <1>17, <2>2
<1>13. Once(rs)
  BY <1>10, <1>11, <1>12 DEF Once
<1>14. \A k \in 1 .. Len(rs) :
         /\ rs[k].name = name /\ rs[k].slot \in 1 .. Len(ps)
         /\ ps[rs[k].slot].kind = "RecoverySlice"
         /\ rs[k].exp = ps[rs[k].slot].body.exp /\ rs[k].of = DataOf(ps[rs[k].slot])
  BY <1>5, <1>17, <1>10, <1>11
<1>15. \A i \in 1 .. Len(ps) :
         ps[i].kind = "RecoverySlice" /\ Intact(ps, i) => Has(rs, name, i)
  <2> SUFFICES ASSUME NEW i \in 1 .. Len(ps), ps[i].kind = "RecoverySlice", Intact(ps, i)
               PROVE  Has(rs, name, i)
    OBVIOUS
  <2>1. PICK k \in 1 .. Len(line) : line[k] = i
    BY <1>6, <1>17
  <2> QED
    BY <1>10, <1>11, <2>1 DEF Has
<1> QED
  BY <1>11, <1>13, <1>14, <1>15 DEF InVolume, ps, rs

\* Two lists of recovery blocks, one behind the other.
LEMMA JoinedSlices ==
  ASSUME NEW rs, IsSeq(rs), NEW ts, IsSeq(ts), Once(rs), Once(ts),
         \A k \in 1 .. Len(rs) : \A l \in 1 .. Len(ts) :
           ~(rs[k].name = ts[l].name /\ rs[k].slot = ts[l].slot)
  PROVE  /\ IsSeq(rs \o ts) /\ Once(rs \o ts)
         /\ \A k \in 1 .. Len(rs \o ts) :
              \/ \E l \in 1 .. Len(rs) : (rs \o ts)[k] = rs[l]
              \/ \E l \in 1 .. Len(ts) : (rs \o ts)[k] = ts[l]
         /\ \A name, slot :
              Has(rs, name, slot) \/ Has(ts, name, slot) => Has(rs \o ts, name, slot)
<1> DEFINE us == rs \o ts
<1>1. Joined(us, rs, ts)
  BY SeqConcat
<1>2. Len(rs) \in Nat /\ Len(ts) \in Nat
  BY SeqFacts
<1> HIDE DEF us
<1>3. /\ IsSeq(us) /\ Len(us) = Len(rs) + Len(ts)
      /\ \A i \in 1 .. Len(rs) : us[i] = rs[i]
      /\ \A i \in 1 .. Len(ts) : us[Len(rs) + i] = ts[i]
      /\ \A i \in 1 .. Len(rs) + Len(ts) :
           i \notin 1 .. Len(rs) => i - Len(rs) \in 1 .. Len(ts) /\ us[i] = ts[i - Len(rs)]
  BY <1>1 DEF Joined
<1>4. \A k \in 1 .. Len(us) : \/ \E l \in 1 .. Len(rs) : us[k] = rs[l]
                              \/ \E l \in 1 .. Len(ts) : us[k] = ts[l]
  BY <1>3
<1>5. Once(us)
  <2> SUFFICES ASSUME NEW k \in 1 .. Len(us), NEW l \in 1 .. Len(us),
                      us[k].name = us[l].name, us[k].slot = us[l].slot
               PROVE  k = l
    BY DEF Once
  <2>1. CASE k \in 1 .. Len(rs) /\ l \in 1 .. Len(rs)
    BY <1>3, <2>1 DEF Once
  <2>2. CASE k \notin 1 .. Len(rs) /\ l \notin 1 .. Len(rs)
    <3>1. /\ k - Len(rs) \in 1 .. Len(ts) /\ us[k] = ts[k - Len(rs)]
          /\ l - Len(rs) \in 1 .. Len(ts) /\ us[l] = ts[l - Len(rs)]
      BY <1>3, <2>2
    <3>2. k - Len(rs) = l - Len(rs)
      BY <3>1 DEF Once
    <3> QED
      BY <1>2, <1>3, <3>2
  <2>3. CASE k \in 1 .. Len(rs) /\ l \notin 1 .. Len(rs)
    <3>1. us[k] = rs[k] /\ l - Len(rs) \in 1 .. Len(ts) /\ us[l] = ts[l - Len(rs)]
      BY <1>3, <2>3
    <3> QED
      BY <2>3, <3>1
  <2>4. CASE k \notin 1 .. Len(rs) /\ l \in 1 .. Len(rs)
    <3>1. us[l] = rs[l] /\ k - Len(rs) \in 1 .. Len(ts) /\ us[k] = ts[k - Len(rs)]
      BY <1>3, <2>4
    <3> QED
      BY <2>4, <3>1
  <2> QED
    BY <2>1, <2>2, <2>3, <2>4
<1>6. ASSUME NEW name, NEW slot, Has(rs, name, slot) \/ Has(ts, name, slot)
      PROVE  Has(us, name, slot)
  <2>1. CASE Has(rs, name, slot)
    <3>1. PICK k \in 1 .. Len(rs) : rs[k].name = name /\ rs[k].slot = slot
      BY <2>1 DEF Has
    <3>2. k \in 1 .. Len(us) /\ us[k] = rs[k]
      BY <1>2, <1>3
    <3> QED
      BY <3>1, <3>2 DEF Has
  <2>2. CASE Has(ts, name, slot)
    <3>1. PICK k \in 1 .. Len(ts) : ts[k].name = name /\ ts[k].slot = slot
      BY <2>2 DEF Has
    <3>2. Len(rs) + k \in 1 .. Len(us) /\ us[Len(rs) + k] = ts[k]
      BY <1>2, <1>3
    <3> QED
      BY <3>1, <3>2 DEF Has
  <2> QED
    BY <1>6, <2>1, <2>2
<1> QED
  BY <1>3, <1>4, <1>5, <1>6 DEF us

\* The end of the scan: what was deferred is taken in.
LEMMA EndOfScan ==
  ASSUME DirInv, PhaseInv, HeaderInv, InfoInv, SliceInv, CoverInv, EndScan, UNCHANGED dir
  PROVE  HeaderInv' /\ InfoInv' /\ SliceInv' /\ CoverInv'
<1>1. /\ loading = "scan" /\ position > Len(Here)
      /\ UNCHANGED <<given, bare, position, setId, blockSize, infos, mainOrder, deferred,
                     checksums, unreadable>>
  BY DEF EndScan
<1>2. Here' = Here
  BY <1>1 DEF Here
<1>3. given \in DOMAIN dir /\ loaded = "none" /\ unreadable = {}
  BY <1>1 DEF PhaseInv, Begun
<1>4. loaded' \in {"none", "error"}
  BY <1>3 DEF EndScan, LoadReturns
<1>5. HeaderInv' /\ InfoInv'
  BY <1>1, <1>2, <1>4 DEF HeaderInv, InfoInv
<1>6. \A r : Sliced(r)' <=> Sliced(r)
  BY <1>1 DEF Sliced, FirstSetId
<1>7. CASE setId = NoSet \/ blockSize = 0
  <2>1. recovery' = recovery /\ loading' = "done" /\ loaded' = "error"
    BY <1>7 DEF EndScan, LoadReturns
  <2>2. SliceInv'
    BY <1>1, <1>2, <1>6, <2>1 DEF SliceInv, Once
  <2>3. CoverInv'
    BY <1>1, <1>2, <2>1 DEF CoverInv
  <2> QED
    BY <1>5, <2>2, <2>3
<1>8. CASE ~(setId = NoSet \/ blockSize = 0)
  <2> DEFINE ds == DeferredBlocks
             us == recovery \o ds
  <2>1. /\ recovery' = us /\ loading' = "volumes" /\ loaded' = "none"
        /\ unscanned' = IF bare THEN {} ELSE DOMAIN dir \ {given}
    BY <1>3, <1>8 DEF EndScan
  <2>2. IsSeq(deferred) /\ Len(deferred) \in Nat /\ IsSeq(recovery) /\ Len(recovery) \in Nat
    BY SeqFacts DEF SliceInv
  <2>3. ds = [k \in 1 .. Len(deferred) |-> BlockAt(given, deferred[k])]
    BY DEF DeferredBlocks
  <2> HIDE DEF ds, us
  <2>4. \A k \in 1 .. Len(deferred) :
          /\ ds[k].name = given /\ ds[k].slot = deferred[k]
          /\ ds[k].exp = Here[deferred[k]].body.exp /\ ds[k].of = DataOf(Here[deferred[k]])
    BY <2>3 DEF BlockAt, Here
  <2>5. IsSeq(ds) /\ Len(ds) = Len(deferred)
    <3>1. ds = [k \in 1 .. Len(deferred) |-> ds[k]]
      BY <2>3
    <3> QED
      BY <2>2, <3>1, SeqFromFunction
  <2>6. Once(ds)
    BY <2>4, <2>5 DEF Once, SliceInv
  <2>7. \A k \in 1 .. Len(ds) : Sliced(ds[k])
    <3> SUFFICES ASSUME NEW k \in 1 .. Len(ds) PROVE Sliced(ds[k])
      OBVIOUS
    <3>1. deferred[k] \in 1 .. Len(Here) /\ Here[deferred[k]].kind = "RecoverySlice"
      BY <2>5 DEF SliceInv
    <3> QED
      BY <1>3, <2>4, <2>5, <3>1 DEF Sliced, Here
  <2>8. \A k \in 1 .. Len(recovery) : /\ Sliced(recovery[k]) /\ recovery[k].name = given
                                      /\ \A l \in 1 .. Len(ds) : recovery[k].slot # ds[l].slot
    BY <1>1, <2>4, <2>5 DEF SliceInv
  <2>9. Once(recovery)
    BY DEF SliceInv
  <2>10. /\ IsSeq(us) /\ Once(us)
         /\ \A k \in 1 .. Len(us) : \/ \E l \in 1 .. Len(recovery) : us[k] = recovery[l]
                                    \/ \E l \in 1 .. Len(ds) : us[k] = ds[l]
         /\ \A name, slot : Has(recovery, name, slot) \/ Has(ds, name, slot) =>
              Has(us, name, slot)
    BY <2>2, <2>5, <2>6, <2>8, <2>9, JoinedSlices DEF us
  <2>11. \A k \in 1 .. Len(us) : Sliced(us[k]) /\ us[k].name = given
    <3>1. \A k \in 1 .. Len(ds) : Sliced(ds[k]) /\ ds[k].name = given
      BY <2>4, <2>5, <2>7
    <3>2. \A k \in 1 .. Len(recovery) : Sliced(recovery[k]) /\ recovery[k].name = given
      BY <2>8
    <3> HIDE DEF Sliced
    <3> QED
      BY <2>10, <3>1, <3>2
  <2>12. \A k \in 1 .. Len(recovery') : Sliced(recovery[k])'
    BY <1>1, <2>1, <2>11 DEF Sliced, FirstSetId
  <2>13. \A k \in 1 .. Len(deferred) : Has(us, given, deferred[k])
    <3>1. \A k \in 1 .. Len(deferred) : Has(ds, given, deferred[k])
      BY <2>4, <2>5 DEF Has
    <3> QED
      BY <2>10, <3>1
  <2>14. SliceInv'
    <3>1. /\ IsSeq(deferred') /\ IsSeq(recovery') /\ Once(recovery')
          /\ \A k \in 1 .. Len(deferred') :
               /\ deferred'[k] \in 1 .. Len(Here') /\ deferred'[k] < position'
               /\ Here'[deferred'[k]].kind = "RecoverySlice"
          /\ \A k, l \in 1 .. Len(deferred') : deferred'[k] = deferred'[l] => k = l
      BY <1>1, <1>2, <2>1, <2>10 DEF SliceInv
    <3>2. \A k \in 1 .. Len(recovery') : recovery'[k].name \notin unscanned'
      BY <2>1, <2>11
    <3> QED
      BY <2>1, <2>12, <3>1, <3>2 DEF SliceInv
  <2>15. CoverInv'
    <3>1. ASSUME NEW i \in 1 .. Len(Here), i < position, Intact(Here, i)
          PROVE  /\ Here[i].kind = "Main" => blockSize # 0 /\ setId # NoSet
                 /\ Here[i].kind = "FileDesc" =>
                      \E k \in 1 .. Len(infos) : infos[k].id = Here[i].body.id
                 /\ Here[i].kind = "RecoverySlice" => Has(us, given, i)
      <4>1. /\ Here[i].kind = "Main" => blockSize # 0 /\ setId # NoSet
            /\ Here[i].kind = "FileDesc" =>
                 \E k \in 1 .. Len(infos) : infos[k].id = Here[i].body.id
            /\ Here[i].kind = "RecoverySlice" =>
                 Has(recovery, given, i) \/ \E k \in 1 .. Len(deferred) : deferred[k] = i
        BY <3>1 DEF CoverInv
      <4> QED
        BY <2>10, <2>13, <4>1
    <3>2. ~bare => DOMAIN dir \ (unscanned' \cup unreadable) \subseteq {given}
      BY <2>1
    <3> QED
      BY <1>1, <1>2, <2>1, <2>13, <3>1, <3>2 DEF CoverInv
  <2> QED
    BY <1>5, <2>14, <2>15
<1> QED
  BY <1>7, <1>8

\* A volume is scanned.
LEMMA VolumeScanned ==
  ASSUME DirInv, PhaseInv, HeaderInv, InfoInv, SliceInv, CoverInv,
         NEW name \in unscanned, ScanVolume(name), UNCHANGED dir
  PROVE  HeaderInv' /\ InfoInv' /\ SliceInv' /\ CoverInv'
<1>1. /\ loading = "volumes" /\ loading' = loading /\ loaded' = loaded
      /\ unscanned' = unscanned \ {name}
      /\ recovery' = IF FirstSetId(name) = setId THEN recovery \o VolumeBlocks(name) ELSE recovery
      /\ UNCHANGED <<given, bare, position, setId, blockSize, infos, mainOrder, deferred,
                     checksums, unreadable>>
  BY DEF ScanVolume, IsVolume
<1>2. Here' = Here
  BY <1>1 DEF Here
<1>3. name \in DOMAIN dir /\ name # given
  BY <1>1 DEF PhaseInv
<1>4. HeaderInv' /\ InfoInv'
  BY <1>1, <1>2 DEF HeaderInv, InfoInv
<1>5. /\ IsSeq(recovery') /\ Once(recovery')
      /\ \A k \in 1 .. Len(recovery') :
           Sliced(recovery'[k]) /\ recovery'[k].name \notin unscanned \ {name}
      /\ \A n, slot : Has(recovery, n, slot) => Has(recovery', n, slot)
      /\ FirstSetId(name) = setId =>
           \A i \in 1 .. Len(dir[name]) :
             dir[name][i].kind = "RecoverySlice" /\ Intact(dir[name], i) => Has(recovery', name, i)
  <2>1. /\ IsSeq(recovery) /\ Once(recovery)
        /\ \A k \in 1 .. Len(recovery) : Sliced(recovery[k]) /\ recovery[k].name \notin unscanned
    BY <1>1 DEF SliceInv
  <2>2. CASE FirstSetId(name) # setId
    BY <1>1, <2>1, <2>2
  <2>3. CASE FirstSetId(name) = setId
    <3> DEFINE vs == VolumeBlocks(name)
               us == recovery \o vs
    <3>1. InVolume(vs, name)
      BY <1>3, VolumeFacts
    <3>2. recovery' = us
      BY <1>1, <2>3
    <3> HIDE DEF vs
    <3>3. /\ IsSeq(vs) /\ Once(vs)
          /\ \A k \in 1 .. Len(vs) : vs[k].name = name /\ Sliced(vs[k])
          /\ \A i \in 1 .. Len(dir[name]) :
               dir[name][i].kind = "RecoverySlice" /\ Intact(dir[name], i) => Has(vs, name, i)
      BY <1>3, <2>3, <3>1 DEF InVolume, Sliced
    <3>4. \A k \in 1 .. Len(recovery) : recovery[k].name # name
      BY <2>1
    <3>5. /\ IsSeq(us) /\ Once(us)
          /\ \A k \in 1 .. Len(us) : \/ \E l \in 1 .. Len(recovery) : us[k] = recovery[l]
                                     \/ \E l \in 1 .. Len(vs) : us[k] = vs[l]
          /\ \A n, slot : Has(recovery, n, slot) \/ Has(vs, n, slot) => Has(us, n, slot)
      BY <2>1, <3>3, <3>4, JoinedSlices
    <3> HIDE DEF us
    <3>6. \A k \in 1 .. Len(us) : Sliced(us[k]) /\ us[k].name \notin unscanned \ {name}
      BY <2>1, <3>3, <3>5
    <3> QED
      BY <3>2, <3>3, <3>5, <3>6
  <2> QED
    BY <2>2, <2>3
<1>6. \A k \in 1 .. Len(recovery') : Sliced(recovery[k])'
  BY <1>1, <1>5 DEF Sliced, FirstSetId
<1>7. SliceInv'
  <2>1. /\ IsSeq(deferred')
        /\ \A k \in 1 .. Len(deferred') :
             /\ deferred'[k] \in 1 .. Len(Here') /\ deferred'[k] < position'
             /\ Here'[deferred'[k]].kind = "RecoverySlice"
        /\ \A k, l \in 1 .. Len(deferred') : deferred'[k] = deferred'[l] => k = l
    BY <1>1, <1>2 DEF SliceInv
  <2> QED
    BY <1>1, <1>5, <1>6, <2>1 DEF SliceInv
<1>8. CoverInv'
  <2>1. ASSUME NEW i \in 1 .. Len(Here), i < position, Intact(Here, i)
        PROVE  /\ Here[i].kind = "Main" => blockSize # 0 /\ setId # NoSet
               /\ Here[i].kind = "FileDesc" =>
                    \E k \in 1 .. Len(infos) : infos[k].id = Here[i].body.id
               /\ Here[i].kind = "RecoverySlice" =>
                    Has(recovery', given, i) \/ \E k \in 1 .. Len(deferred) : deferred[k] = i
    <3>1. /\ Here[i].kind = "Main" => blockSize # 0 /\ setId # NoSet
          /\ Here[i].kind = "FileDesc" =>
               \E k \in 1 .. Len(infos) : infos[k].id = Here[i].body.id
          /\ Here[i].kind = "RecoverySlice" =>
               Has(recovery, given, i) \/ \E k \in 1 .. Len(deferred) : deferred[k] = i
      BY <2>1 DEF CoverInv
    <3> QED
      BY <1>5, <3>1
  <2>2. \A k \in 1 .. Len(deferred) : Has(recovery', given, deferred[k])
    BY <1>1, <1>5 DEF CoverInv
  <2>3. ASSUME ~bare, NEW n \in DOMAIN dir \ (unscanned' \cup unreadable),
               n # given, FirstSetId(n) = setId, NEW i \in 1 .. Len(dir[n]),
               dir[n][i].kind = "RecoverySlice", Intact(dir[n], i)
        PROVE  Has(recovery', n, i)
    <3>1. CASE n = name
      BY <1>5, <2>3, <3>1
    <3>2. CASE n # name
      <4>1. n \in DOMAIN dir \ (unscanned \cup unreadable)
        BY <1>1, <3>2
      <4>2. Has(recovery, n, i)
        BY <1>1, <2>3, <4>1 DEF CoverInv
      <4> QED
        BY <1>5, <4>2
    <3> QED
      BY <3>1, <3>2
  <2>4. ASSUME ~bare, NEW n \in DOMAIN dir' \ (unscanned' \cup unreadable'),
               n # given', FirstSetId(n)' = setId', NEW i \in 1 .. Len(dir'[n]),
               dir'[n][i].kind = "RecoverySlice", Intact(dir'[n], i)
        PROVE  Has(recovery', n, i)
    <3>1. FirstSetId(n)' = FirstSetId(n)
      BY DEF FirstSetId
    <3> QED
      BY <1>1, <2>3, <2>4, <3>1
  <2> QED
    BY <1>1, <1>2, <2>1, <2>2, <2>4 DEF CoverInv
<1> QED
  BY <1>4, <1>7, <1>8

\* The same files, in the order of their ids.
SortedById(line, cs) ==
  /\ IsSeq(line)
  /\ \A k \in 1 .. Len(line) : \E l \in 1 .. Len(cs) : line[k] = cs[l]
  /\ \A l \in 1 .. Len(cs) : \E k \in 1 .. Len(line) : line[k] = cs[l]
  /\ \A k, l \in 1 .. Len(line) : k < l => line[k].id < line[l].id

\* The order of a Main packet whose ids grow is the order of the ids, if it lists all files.
LEMMA CanonicalFacts ==
  ASSUME NEW cs, IsSeq(cs), NEW order, IsSeq(order),
         \A k, l \in 1 .. Len(cs) : cs[k].id = cs[l].id => k = l,
         \A k \in 1 .. Len(order) : order[k] \in Nat,
         \A k, l \in 1 .. Len(order) : k < l => order[k] < order[l],
         \A k \in 1 .. Len(cs) : \E l \in 1 .. Len(order) : cs[k].id = order[l]
  PROVE  SortedById(CanonicalOrder(cs, order), cs)
<1> DEFINE S == ToSet(cs)
           key == [c \in S |-> c.id]
           rank(c) == IF \E k \in 1 .. Len(order) : order[k] = c.id
                        THEN CHOOSE k \in 1 .. Len(order) : order[k] = c.id
                        ELSE Len(order) + 1
           before(c, d) == rank(c) < rank(d) \/ (rank(c) = rank(d) /\ c.id < d.id)
           r == [x \in S |-> Cardinality({y \in S : before(y, x)})]
           s == [x \in S |-> Cardinality(Below(S, key, x))]
           line == ByRank(S, key)
<1>1. Len(cs) \in Nat /\ Len(order) \in Nat /\ S = {cs[k] : k \in 1 .. Len(cs)}
  BY SeqFacts DEF ToSet
<1>2. IsFiniteSet(S)
  <2> DEFINE f == [k \in 1 .. Len(cs) |-> cs[k]]
  <2>1. f \in Surjection(1 .. Len(cs), S)
    BY <1>1 DEF Surjection
  <2> HIDE DEF f, S
  <2> QED
    BY <1>1, <2>1, FS_Interval, FS_Surjection
<1>3. CanonicalOrder(cs, order) = [i \in 1 .. Cardinality(S) |-> CHOOSE x \in S : r[x] = i - 1]
  <2>1. CanonicalOrder(cs, order) =
          [i \in 1 .. Cardinality(S) |->
             CHOOSE x \in S : Cardinality({y \in S : before(y, x)}) = i - 1]
    BY DEF CanonicalOrder, InOrder
  <2> HIDE DEF S, before
  <2> QED
    BY <2>1
<1>4. \A c \in S : c.id \in Nat /\ \E k \in 1 .. Len(order) : order[k] = c.id
  BY <1>1
<1> HIDE DEF S
<1>5. \A c \in S : rank(c) \in 1 .. Len(order) /\ order[rank(c)] = c.id
  BY <1>4
<1> HIDE DEF rank
<1>6. \A c, d \in S : before(c, d) <=> c.id < d.id
  <2> SUFFICES ASSUME NEW c \in S, NEW d \in S PROVE before(c, d) <=> c.id < d.id
    OBVIOUS
  <2> DEFINE i == rank(c)
             j == rank(d)
  <2>1. i \in 1 .. Len(order) /\ j \in 1 .. Len(order) /\ order[i] = c.id /\ order[j] = d.id
    BY <1>5
  <2>2. order[i] \in Nat /\ order[j] \in Nat
    BY <2>1
  <2>3. (i < j => order[i] < order[j]) /\ (j < i => order[j] < order[i])
    BY <2>1
  <2>4. before(c, d) <=> i < j \/ (i = j /\ c.id < d.id)
    OBVIOUS
  <2> HIDE DEF i, j, before
  <2> QED
    BY <1>1, <2>1, <2>2, <2>3, <2>4
<1>7. key \in [S -> Int] /\ \A c \in S : key[c] = c.id
  BY <1>4
<1>8. r = s
  <2>1. \A x \in S : {y \in S : before(y, x)} = Below(S, key, x)
    BY <1>6, <1>7 DEF Below
  <2> HIDE DEF before, key
  <2> QED
    BY <2>1
<1>9. line = [i \in 1 .. Cardinality(S) |-> CHOOSE x \in S : s[x] = i - 1]
  <2> HIDE DEF key
  <2> QED
    BY DEF ByRank
<1>10. \A x, y \in S : key[x] = key[y] => x = y
  BY <1>1, <1>7
<1> HIDE DEF r, s, key
<1>11. SortedBy(line, S, key)
  BY <1>2, <1>7, <1>10, Sorting
<1> HIDE DEF line
<1>12. CanonicalOrder(cs, order) = line
  BY <1>3, <1>8, <1>9
<1>13. SortedById(line, cs)
  <2>1. /\ IsSeq(line) /\ \A k \in 1 .. Len(line) : line[k] \in S
        /\ \A x \in S : \E k \in 1 .. Len(line) : line[k] = x
        /\ \A k, l \in 1 .. Len(line) : k < l => key[line[k]] < key[line[l]]
    BY <1>11 DEF SortedBy
  <2>2. \A l \in 1 .. Len(cs) : cs[l] \in S
    BY <1>1
  <2>3. \A k, l \in 1 .. Len(line) : k < l => line[k].id < line[l].id
    BY <1>7, <2>1
  <2>4. \A k \in 1 .. Len(line) : \E l \in 1 .. Len(cs) : line[k] = cs[l]
    BY <1>1, <2>1
  <2> QED
    BY <2>1, <2>2, <2>3, <2>4 DEF SortedById
<1> QED
  BY <1>12, <1>13

\* The ids of the descriptions are in the Main packet.
LEMMA InfosAreListed ==
  ASSUME DirInv, PhaseInv, Begun, HeaderInv, InfoInv, blockSize # 0
  PROVE  /\ IsSeq(mainOrder) /\ \A k \in 1 .. Len(mainOrder) : mainOrder[k] \in Nat
         /\ \A k, l \in 1 .. Len(mainOrder) : k < l => mainOrder[k] < mainOrder[l]
         /\ \A k \in 1 .. Len(infos) : \E l \in 1 .. Len(mainOrder) : infos[k].id = mainOrder[l]
<1>1. GoodFile(Here, Used, ~blurred)
  BY DEF PhaseInv, DirInv, Here
<1>2. mainOrder = Here[1].set.ids /\ Len(Here) # 0 /\ Len(Here) \in Nat
  BY <1>1, SeqFacts DEF HeaderInv, GoodFile
<1>3. 1 \in 1 .. Len(Here)
  BY <1>2
<1>4. Shape(Here[1])
  BY <1>1, <1>3 DEF GoodFile, GoodPacket
<1>5. ASSUME NEW k \in 1 .. Len(infos)
      PROVE  \E l \in 1 .. Len(mainOrder) : infos[k].id = mainOrder[l]
  <2>1. PICK i \in 1 .. Len(Here) : Here[i].kind = "FileDesc" /\ infos[k] = Here[i].body
    BY DEF InfoInv
  <2>2. Shape(Here[i]) /\ Here[i].set = Here[1].set
    BY <1>1, <1>3 DEF GoodFile, GoodPacket
  <2> QED
    BY <1>2, <2>1, <2>2 DEF Shape
<1> QED
  BY <1>2, <1>4, <1>5 DEF Shape

\* The end of the load: the files are numbered.
LEMMA LoadFinished ==
  ASSUME DirInv, PhaseInv, HeaderInv, InfoInv, SliceInv, CoverInv, FinishLoad, UNCHANGED dir
  PROVE  HeaderInv' /\ InfoInv' /\ SliceInv' /\ CoverInv'
<1>1. /\ loading = "volumes" /\ unscanned = {} /\ loading' = "done" /\ loaded' = "ok"
      /\ infos' = CanonicalOrder(infos, mainOrder)
      /\ UNCHANGED <<given, bare, position, setId, blockSize, mainOrder, deferred, recovery,
                     checksums, unscanned, unreadable>>
  BY DEF FinishLoad, LoadReturns
<1>2. Here' = Here /\ Begun /\ blockSize # 0
  BY <1>1 DEF Here, Begun, PhaseInv
<1>3. SortedById(CanonicalOrder(infos, mainOrder), infos)
  <2>1. /\ IsSeq(mainOrder) /\ \A k \in 1 .. Len(mainOrder) : mainOrder[k] \in Nat
        /\ \A k, l \in 1 .. Len(mainOrder) : k < l => mainOrder[k] < mainOrder[l]
        /\ \A k \in 1 .. Len(infos) : \E l \in 1 .. Len(mainOrder) : infos[k].id = mainOrder[l]
    BY <1>2, InfosAreListed
  <2>2. IsSeq(infos) /\ \A k, l \in 1 .. Len(infos) : infos[k].id = infos[l].id => k = l
    BY DEF InfoInv
  <2> QED
    BY <2>1, <2>2, CanonicalFacts
<1>4. SortedById(infos', infos)
  BY <1>1, <1>3
<1>5. HeaderInv' /\ SliceInv'
  <2>1. HeaderInv'
    BY <1>1, <1>2 DEF HeaderInv
  <2>2. \A r : Sliced(r)' <=> Sliced(r)
    BY <1>1 DEF Sliced, FirstSetId
  <2> QED
    BY <1>1, <1>2, <2>1, <2>2 DEF SliceInv, Once
<1>6. InfoInv'
  <2>1. /\ IsSeq(infos')
        /\ \A k \in 1 .. Len(infos') : \E l \in 1 .. Len(infos) : infos'[k] = infos[l]
        /\ \A k, l \in 1 .. Len(infos') : k < l => infos'[k].id < infos'[l].id
    BY <1>4 DEF SortedById
  <2>2. \A k \in 1 .. Len(infos') : \E i \in 1 .. Len(Here) :
          Here[i].kind = "FileDesc" /\ infos'[k] = Here[i].body
    BY <2>1 DEF InfoInv
  <2>3. \A k \in 1 .. Len(infos') : infos'[k].id \in Nat
    <3> SUFFICES ASSUME NEW k \in 1 .. Len(infos') PROVE infos'[k].id \in Nat
      OBVIOUS
    <3>1. PICK l \in 1 .. Len(infos) : infos'[k] = infos[l]
      BY <2>1
    <3>2. PICK j \in 1 .. Len(mainOrder) : infos[l].id = mainOrder[j]
      BY <1>2, InfosAreListed
    <3> QED
      BY <1>2, <3>1, <3>2, InfosAreListed
  <2>4. \A k, l \in 1 .. Len(infos') : infos'[k].id = infos'[l].id => k = l
    <3> SUFFICES ASSUME NEW k \in 1 .. Len(infos'), NEW l \in 1 .. Len(infos'),
                        infos'[k].id = infos'[l].id
                 PROVE  k = l
      OBVIOUS
    <3>1. infos'[k].id \in Nat /\ infos'[l].id \in Nat
      BY <2>3
    <3>2. ~(k < l) /\ ~(l < k)
      BY <2>1, <3>1
    <3>3. Len(infos') \in Nat
      BY <2>1, SeqFacts
    <3> QED
      BY <3>2, <3>3
  <2> QED
    BY <1>1, <1>2, <2>1, <2>2, <2>4 DEF InfoInv
<1>7. CoverInv'
  <2>1. \A l \in 1 .. Len(infos) : \E k \in 1 .. Len(infos') : infos'[k] = infos[l]
    BY <1>4 DEF SortedById
  <2>2. ASSUME NEW i \in 1 .. Len(Here), i < position, Intact(Here, i)
        PROVE  /\ Here[i].kind = "Main" => blockSize # 0 /\ setId # NoSet
               /\ Here[i].kind = "FileDesc" =>
                    \E k \in 1 .. Len(infos') : infos'[k].id = Here[i].body.id
               /\ Here[i].kind = "RecoverySlice" =>
                    Has(recovery, given, i) \/ \E k \in 1 .. Len(deferred) : deferred[k] = i
    <3>1. /\ Here[i].kind = "Main" => blockSize # 0 /\ setId # NoSet
          /\ Here[i].kind = "FileDesc" =>
               \E k \in 1 .. Len(infos) : infos[k].id = Here[i].body.id
          /\ Here[i].kind = "RecoverySlice" =>
               Has(recovery, given, i) \/ \E k \in 1 .. Len(deferred) : deferred[k] = i
      BY <2>2 DEF CoverInv
    <3> QED
      BY <2>1, <3>1
  <2>3. \A n : FirstSetId(n)' = FirstSetId(n)
    BY DEF FirstSetId
  <2>4. /\ \A k \in 1 .. Len(deferred) : Has(recovery, given, deferred[k])
        /\ ~bare => \A n \in DOMAIN dir \ (unscanned \cup unreadable) :
             n # given /\ FirstSetId(n) = setId =>
               \A i \in 1 .. Len(dir[n]) :
                 dir[n][i].kind = "RecoverySlice" /\ Intact(dir[n], i) => Has(recovery, n, i)
    BY <1>1 DEF CoverInv
  <2> QED
    BY <1>1, <1>2, <2>2, <2>3, <2>4 DEF CoverInv
<1> QED
  BY <1>5, <1>6, <1>7

\* A failed read leaves what is known alone.
LEMMA LoadSpoiled ==
  ASSUME PhaseInv, HeaderInv, InfoInv, SliceInv, CoverInv,
         LoadFails, UNCHANGED <<given, bare, position, setId, blockSize, infos, mainOrder,
                                deferred, recovery, checksums, dir>>
  PROVE  HeaderInv' /\ InfoInv' /\ SliceInv' /\ CoverInv'
<1>1. Here' = Here
  BY DEF Here
<1>2. \/ loading = "scan" /\ loading' = "done" /\ loaded' = "failed"
      \/ /\ loading = "volumes" /\ UNCHANGED <<loading, loaded>>
         /\ unscanned' \subseteq unscanned
         /\ unscanned' \cup unreadable' = unscanned \cup unreadable
  BY DEF LoadFails, LoadReturns
<1>3. HeaderInv' /\ InfoInv'
  BY <1>1, <1>2 DEF HeaderInv, InfoInv, PhaseInv
<1>4. \A r : Sliced(r)' <=> Sliced(r)
  BY DEF Sliced, FirstSetId
<1>5. \A n : FirstSetId(n)' = FirstSetId(n)
  BY DEF FirstSetId
<1>6. SliceInv'
  BY <1>1, <1>2, <1>4 DEF SliceInv, Once
<1>7. CoverInv'
  <2>1. CASE loading = "scan" /\ loading' = "done" /\ loaded' = "failed"
    BY <1>1, <2>1 DEF CoverInv
  <2>2. CASE /\ loading = "volumes" /\ UNCHANGED <<loading, loaded>>
             /\ unscanned' \cup unreadable' = unscanned \cup unreadable
    BY <1>1, <1>5, <2>2 DEF CoverInv
  <2> QED
    BY <1>2, <2>1, <2>2
<1> QED
  BY <1>3, <1>6, <1>7

\* Every step keeps what the load knows.
LEMMA LoadNext ==
  DirInv /\ PhaseInv /\ LoadInv /\ [ArchiveNext]_archiveVars => LoadInv'
<1> SUFFICES ASSUME DirInv, PhaseInv, LoadInv, [ArchiveNext]_archiveVars PROVE LoadInv'
  OBVIOUS
<1>1. CASE ~Begun /\ loading' \in {"idle", "due"}
  BY <1>1 DEF LoadInv, Begun
<1>2. CASE LoaderSteps
  <2>1. UNCHANGED dir
    BY <1>2, LoaderKeeps
  <2>2. CASE BeginLoad
    BY <1>2, <2>2, LoadBegins
  <2>3. CASE ScanStep
    <3>1. HeaderInv /\ InfoInv /\ SliceInv /\ CoverInv
      BY <2>3, ScanMoves DEF LoadInv, Begun
    <3> QED
      BY <2>1, <2>3, <3>1, ScanHeader, ScanInfo, ScanSlices, ScanCovers DEF LoadInv
  <2>4. CASE EndScan
    <3>1. HeaderInv /\ InfoInv /\ SliceInv /\ CoverInv
      BY <2>4 DEF EndScan, LoadInv, Begun
    <3> QED
      BY <2>1, <2>4, <3>1, EndOfScan DEF LoadInv
  <2>5. CASE \E name \in unscanned : ScanVolume(name)
    <3>1. PICK name \in unscanned : ScanVolume(name)
      BY <2>5
    <3>2. HeaderInv /\ InfoInv /\ SliceInv /\ CoverInv
      BY <3>1 DEF ScanVolume, LoadInv, Begun
    <3> QED
      BY <2>1, <3>1, <3>2, VolumeScanned DEF LoadInv
  <2>6. CASE FinishLoad
    <3>1. HeaderInv /\ InfoInv /\ SliceInv /\ CoverInv
      BY <2>6 DEF FinishLoad, LoadInv, Begun
    <3> QED
      BY <2>1, <2>6, <3>1, LoadFinished DEF LoadInv
  <2> QED
    BY <1>2, <2>2, <2>3, <2>4, <2>5, <2>6 DEF LoaderSteps, LoaderNext, ScanStep
<1>3. CASE /\ LoadFails
           /\ UNCHANGED <<given, bare, position, setId, blockSize, infos, mainOrder, deferred,
                          recovery, checksums, dir, creatorVars>>
  <2>1. HeaderInv /\ InfoInv /\ SliceInv /\ CoverInv
    BY <1>3 DEF LoadFails, LoadInv, Begun
  <2> QED
    BY <1>3, <2>1, LoadSpoiled DEF LoadInv
<1>4. CASE UNCHANGED archiveVars
  <2>1. /\ UNCHANGED <<loading, loaded, given, bare, position, setId, blockSize, infos, mainOrder,
                       deferred, recovery, checksums, unscanned, unreadable, dir>>
        /\ Begun' = Begun /\ Here' = Here
    BY <1>4 DEF archiveVars, loaderVars, Begun, Here
  <2>2. \A r : Sliced(r)' <=> Sliced(r)
    BY <2>1 DEF Sliced, FirstSetId
  <2>3. \A n : FirstSetId(n)' = FirstSetId(n)
    BY <2>1 DEF FirstSetId
  <2>4. Begun => HeaderInv' /\ InfoInv'
    BY <2>1 DEF LoadInv, HeaderInv, InfoInv
  <2>5. Begun => SliceInv'
    BY <2>1, <2>2 DEF LoadInv, SliceInv, Once
  <2>6. Begun => CoverInv'
    BY <2>1, <2>3 DEF LoadInv, CoverInv
  <2> QED
    BY <2>1, <2>4, <2>5, <2>6 DEF LoadInv
<1> QED
  BY <1>1, <1>2, <1>3, <1>4, LoadSteps

\* All that is known of the archive.
LoadedInv == ArchiveInv /\ PhaseInv /\ LoadInv

LEMMA LoadedInvHolds == ArchiveSpec => []LoadedInv
<1>1. ArchiveInit => PhaseInv /\ LoadInv
  BY PhaseInit DEF ArchiveInit, LoaderInit, LoadInv, Begun
<1>2. ArchiveInv /\ PhaseInv /\ LoadInv /\ [ArchiveNext]_archiveVars => PhaseInv' /\ LoadInv'
  BY PhaseNext, LoadNext DEF ArchiveInv
<1> QED
  BY <1>1, <1>2, ArchiveInvHolds, PTL DEF ArchiveSpec, LoadedInv

-----------------------------------------------------------------------------
(***************************************************************************)
(* What a load returns.                                                    *)
(***************************************************************************)

\* One intact Main packet is enough (Par2File::load): in every reachable state, and however
\* many packets, files and mishaps there are, a load has only found fault with a file if
\* damage touches each of its Main packets or the packet before it.
THEOREM IntactMainAlwaysLoads == ArchiveSpec => []IntactMainLoads
<1>1. LoadedInv => IntactMainLoads
  <2> SUFFICES ASSUME LoadedInv, loaded = "error", NEW i \in 1 .. Len(Here),
                      Here[i].kind = "Main", Here[i].harm = "none",
                      ~(i > 1 /\ Here[i - 1].harm = "overlong")
               PROVE  FALSE
    BY DEF IntactMainLoads, LoadedInv
  <2>1. position > Len(Here) /\ (setId = NoSet \/ blockSize = 0) /\ Begun /\ position \in Nat
    BY DEF LoadedInv, PhaseInv, Begun
  <2>2. i \in Nat /\ Len(Here) \in Nat
    <3>1. IsSeq(Here)
      BY <2>1 DEF LoadedInv, ArchiveInv, DirInv, PhaseInv, GoodFile, Here
    <3> QED
      BY <3>1, SeqFacts
  <2>3. i < position
    BY <2>1, <2>2
  <2>4. Intact(Here, i)
    BY <2>2 DEF Intact
  <2> QED
    BY <2>1, <2>3, <2>4 DEF LoadedInv, LoadInv, CoverInv
<1> QED
  BY <1>1, LoadedInvHolds, PTL

\* Intact recovery is loaded, and once (Par2File::load, parse_volume_file): in every reachable
\* state of a load that has returned, each recovery packet of the given file and of the
\* volumes of the set is there, if no damage touches it or the packet before it, and none is
\* there twice; wherever the Main packet is, in whatever order the directory lists the files.
THEOREM IntactRecoveryIsAlwaysLoaded == ArchiveSpec => []IntactRecoveryIsLoaded
<1>1. LoadedInv => IntactRecoveryIsLoaded
  <2> SUFFICES ASSUME LoadedInv, loaded = "ok" PROVE IntactRecoveryIsLoaded
    BY DEF IntactRecoveryIsLoaded
  <2>1. SliceInv /\ CoverInv /\ PhaseInv /\ DirInv /\ unscanned = {}
    BY DEF LoadedInv, ArchiveInv, LoadInv, PhaseInv, Begun
  <2>2. position > Len(Here) /\ Len(Here) \in Nat /\ position \in Nat /\ given \in DOMAIN dir
    <3>1. position > Len(Here) /\ position \in Nat /\ given \in DOMAIN dir
      BY <2>1 DEF PhaseInv, Begun
    <3>2. IsSeq(Here)
      BY <2>1, <3>1 DEF DirInv, GoodFile, Here
    <3> QED
      BY <3>1, <3>2, SeqFacts
  <2>3. IsInjective([k \in 1 .. Len(recovery) |-> <<recovery[k].name, recovery[k].slot>>])
    <3> SUFFICES ASSUME NEW k \in 1 .. Len(recovery), NEW l \in 1 .. Len(recovery),
                        <<recovery[k].name, recovery[k].slot>>
                          = <<recovery[l].name, recovery[l].slot>>
                 PROVE  k = l
      BY DEF IsInjective
    <3>1. recovery[k].name = recovery[l].name /\ recovery[k].slot = recovery[l].slot
      OBVIOUS
    <3> QED
      BY <2>1, <3>1 DEF SliceInv, Once
  <2>4. ASSUME NEW n \in VolumesOfSet, NEW i \in 1 .. Len(dir[n]),
               dir[n][i].kind = "RecoverySlice", dir[n][i].harm = "none",
               i = 1 \/ dir[n][i - 1].harm # "overlong"
        PROVE  Has(recovery, n, i)
    <3>1. Intact(dir[n], i)
      BY <2>4 DEF Intact
    <3>2. CASE n = given
      <4>1. i < position /\ i \in 1 .. Len(Here)
        BY <2>2, <3>2 DEF Here
      <4>2. Has(recovery, given, i) \/ \E k \in 1 .. Len(deferred) : deferred[k] = i
        BY <2>1, <2>4, <3>1, <3>2, <4>1 DEF CoverInv, Here
      <4>3. \A k \in 1 .. Len(deferred) : Has(recovery, given, deferred[k])
        BY <2>1 DEF CoverInv
      <4> QED
        BY <3>2, <4>2, <4>3
    <3>3. CASE n # given
      <4>1. ~bare /\ n \in DOMAIN dir \ (unscanned \cup unreadable) /\ FirstSetId(n) = setId
        BY <2>1, <3>3 DEF VolumesOfSet
      <4> QED
        BY <2>1, <2>4, <3>1, <3>3, <4>1 DEF CoverInv
    <3> QED
      BY <3>2, <3>3
  <2>5. \A n \in VolumesOfSet : \A i \in 1 .. Len(dir[n]) :
          /\ dir[n][i].kind = "RecoverySlice" /\ dir[n][i].harm = "none"
          /\ i = 1 \/ dir[n][i - 1].harm # "overlong"
          => \E k \in 1 .. Len(recovery) : recovery[k].name = n /\ recovery[k].slot = i
    BY <2>4 DEF Has
  <2> QED
    BY <2>3, <2>5 DEF IntactRecoveryIsLoaded
<1> QED
  BY <1>1, LoadedInvHolds, PTL

\* Two files of the bytes that were used, with one id, are the same, if the history is clear.
LEMMA IdsTell ==
  ASSUME CreateInv, ~blurred, NEW c \in Used, NEW d \in Used, c.id = d.id
  PROVE  c = d
<1>1. PICK f \in Files : c = Originals[f] \/ c = source[f]
  BY DEF Used
<1>2. PICK g \in Files : d = Originals[g] \/ d = source[g]
  BY DEF Used
<1>3. c \in ContentsOf(f) /\ d \in ContentsOf(g)
  BY <1>1, <1>2, ContentFacts DEF CreateInv, HashInv
<1>4. f = g
  BY <1>3, ContentFacts
<1>5. source[f] # Originals[f] => source[f].id # Originals[f].id
  BY DEF CreateInv, FaithInv
<1> QED
  BY <1>1, <1>2, <1>4, <1>5

\* A loaded block is from a packet of the set.
LEMMA SlicesAreOfSet ==
  ASSUME DirInv, PhaseInv, HeaderInv, SliceInv, loaded = "ok", NEW k \in 1 .. Len(recovery)
  PROVE  \E p : /\ GoodPacket(p, Used, ~blurred) /\ p.set = Here[1].set
                /\ p.kind = "RecoverySlice" /\ recovery[k].of = DataOf(p)
<1> DEFINE r == recovery[k]
           ps == dir[r.name]
           p == ps[r.slot]
<1>1. /\ r.name \in DOMAIN dir /\ r.slot \in 1 .. Len(ps) /\ p.kind = "RecoverySlice"
      /\ r.of = DataOf(p) /\ (r.name = given \/ FirstSetId(r.name) = setId)
  BY DEF SliceInv, Sliced
<1>2. GoodFile(ps, Used, ~blurred)
  BY <1>1 DEF DirInv
<1>3. Len(ps) \in Nat /\ 1 \in 1 .. Len(ps)
  <2>1. Len(ps) \in Nat
    BY <1>2, SeqFacts DEF GoodFile
  <2> QED
    BY <1>1, <2>1
<1>4. GoodPacket(p, Used, ~blurred) /\ p.set = ps[1].set
  BY <1>1, <1>2, <1>3 DEF GoodFile
<1>5. ps[1].set = Here[1].set
  <2>1. CASE r.name = given
    BY <2>1 DEF Here
  <2>2. CASE FirstSetId(r.name) = setId
    <3>1. setId # NoSet /\ setId \in {NoSet, Garbled, Here[1].set}
      BY DEF PhaseInv, HeaderInv
    <3>2. setId = HeaderSet(ps[1]) /\ setId # Garbled
      BY <2>2, <3>1 DEF FirstSetId
    <3>3. setId = ps[1].set
      BY <3>2 DEF HeaderSet
    <3> QED
      BY <3>1, <3>2, <3>3
  <2> QED
    BY <1>1, <2>1, <2>2
<1> QED
  BY <1>1, <1>4, <1>5

\* With every listed file described, the loaded descriptions are those of the set.
LEMMA InfosAreTheSet ==
  ASSUME LoadedInv, loaded = "ok", ~blurred, Undescribed = {},
         NEW cs, OfSet(cs, Here[1].set, Used)
  PROVE  infos = cs
<1> DEFINE set == Here[1].set
           S == {cs[j] : j \in 1 .. Len(cs)}
           key == [c \in S |-> c.id]
<1>1. /\ CreateInv /\ DirInv /\ PhaseInv /\ HeaderInv /\ InfoInv /\ Begun
      /\ Here # <<>> /\ blockSize # 0 /\ given \in DOMAIN dir
  BY DEF LoadedInv, ArchiveInv, LoadInv, PhaseInv, Begun
<1>2. GoodFile(Here, Used, ~blurred) /\ Len(Here) \in Nat /\ 1 \in 1 .. Len(Here)
  <2>1. GoodFile(Here, Used, ~blurred)
    BY <1>1 DEF DirInv, Here
  <2>2. Len(Here) \in Nat /\ Len(Here) # 0
    BY <1>1, <2>1, SeqFacts DEF GoodFile
  <2> QED
    BY <2>1, <2>2
<1>3. /\ IsSeq(cs) /\ Len(cs) = Len(set.ids) /\ Len(cs) \in Nat
      /\ \A j \in 1 .. Len(cs) : cs[j] \in Used /\ cs[j].id = set.ids[j]
      /\ \A j, l \in 1 .. Len(cs) : j < l => cs[j].id < cs[l].id
  BY SeqFacts DEF OfSet
<1>4. mainOrder = set.ids /\ IsSeq(mainOrder) /\ \A j \in 1 .. Len(mainOrder) : mainOrder[j] \in Nat
  BY <1>1, InfosAreListed DEF HeaderInv
<1> HIDE DEF set
<1>5. ASSUME NEW k \in 1 .. Len(infos) PROVE \E j \in 1 .. Len(cs) : infos[k] = cs[j]
  <2>1. PICK i \in 1 .. Len(Here) : Here[i].kind = "FileDesc" /\ infos[k] = Here[i].body
    BY <1>1 DEF InfoInv
  <2>2. GoodPacket(Here[i], Used, ~blurred) /\ Here[i].set = set
    BY <1>2 DEF GoodFile, set
  <2>3. PICK ds : /\ OfSet(ds, set, Used)
                  /\ \E j \in 1 .. Len(ds) : infos[k] = ds[j]
    BY <2>1, <2>2 DEF GoodPacket, Honest
  <2>4. PICK j \in 1 .. Len(ds) : infos[k] = ds[j]
    BY <2>3
  <2>5. j \in 1 .. Len(cs) /\ ds[j] \in Used /\ ds[j].id = cs[j].id
    BY <1>3, <2>3 DEF OfSet
  <2>6. ds[j] = cs[j]
    BY <1>1, <1>3, <2>5, IdsTell
  <2> QED
    BY <2>4, <2>5, <2>6
<1>6. ASSUME NEW j \in 1 .. Len(cs) PROVE \E k \in 1 .. Len(infos) : infos[k] = cs[j]
  <2>1. cs[j].id \in ToSet(mainOrder)
    <3>1. cs[j].id = mainOrder[j] /\ j \in DOMAIN mainOrder
      BY <1>3, <1>4, SeqFacts
    <3> QED
      BY <3>1 DEF ToSet
  <2>2. PICK k \in 1 .. Len(infos) : infos[k].id = cs[j].id
    BY <2>1 DEF Undescribed
  <2>3. PICK l \in 1 .. Len(cs) : infos[k] = cs[l]
    BY <1>5
  <2>4. cs[l] = cs[j]
    BY <1>1, <1>3, <2>2, <2>3, IdsTell
  <2> QED
    BY <2>3, <2>4
<1>7. \A c \in S : c.id \in Nat
  BY <1>3, <1>4
<1>8. key \in [S -> Int] /\ \A c \in S : key[c] = c.id
  BY <1>7
<1>9. /\ \A j \in 1 .. Len(cs) : cs[j] \in S
      /\ \A c \in S : \E j \in 1 .. Len(cs) : cs[j] = c
      /\ \A k \in 1 .. Len(infos) : infos[k] \in S
      /\ \A c \in S : \E k \in 1 .. Len(infos) : infos[k] = c
  BY <1>5, <1>6
<1> HIDE DEF S, key
<1>10. ByRank(S, key) = cs
  <2>1. \A j, l \in 1 .. Len(cs) : j < l => key[cs[j]] < key[cs[l]]
    BY <1>3, <1>8, <1>9
  <2> QED
    BY <1>3, <1>8, <1>9, <2>1, SortedOnce
<1>11. ByRank(S, key) = infos
  <2>1. IsSeq(infos) /\ \A k, l \in 1 .. Len(infos) : k < l => infos[k].id < infos[l].id
    BY <1>1 DEF InfoInv
  <2>2. \A k, l \in 1 .. Len(infos) : k < l => key[infos[k]] < key[infos[l]]
    BY <1>8, <1>9, <2>1
  <2> QED
    BY <1>8, <1>9, <2>1, <2>2, SortedOnce
<1> QED
  BY <1>10, <1>11

\* Loaded blocks are right (Par2File::load and create_recovery_blocks together): in every
\* reachable state of a load that has returned, the recovery data and the slice checksums
\* are those of the described bytes in the numbering that repair will use, as long as no input
\* file changed under its id or during a call and every listed file is described; whatever
\* was damaged, deleted, renamed, reordered or left by an older call.
THEOREM LoadedBlocksAreAlwaysRight == ArchiveSpec => []LoadedBlocksAreRight
<1>1. LoadedInv => LoadedBlocksAreRight
  <2> SUFFICES ASSUME LoadedInv, loaded = "ok", ~blurred
               PROVE  /\ Undescribed = {} =>
                           \A k \in 1 .. Len(recovery) :
                             recovery[k].of # <<>> => recovery[k].of = Numbered
                      /\ \A i \in 1 .. Len(infos) :
                           infos[i].id \in DOMAIN checksums =>
                             checksums[infos[i].id] = BlockSeq(infos[i], blockSize)
    BY DEF LoadedBlocksAreRight
  <2>1. /\ CreateInv /\ DirInv /\ PhaseInv /\ HeaderInv /\ InfoInv /\ SliceInv
        /\ blockSize # 0 /\ given \in DOMAIN dir /\ Here # <<>>
    BY DEF LoadedInv, ArchiveInv, LoadInv, PhaseInv, Begun
  <2>2. blockSize = Here[1].set.size
    BY <2>1 DEF HeaderInv
  <2>3. GoodFile(Here, Used, ~blurred)
    BY <2>1 DEF DirInv, Here
  <2>4. ASSUME Undescribed = {}, NEW k \in 1 .. Len(recovery), recovery[k].of # <<>>
        PROVE  recovery[k].of = Numbered
    <3>1. PICK p : /\ GoodPacket(p, Used, ~blurred) /\ p.set = Here[1].set
                   /\ p.kind = "RecoverySlice" /\ recovery[k].of = DataOf(p)
      BY <2>1, SlicesAreOfSet
    <3>2. recovery[k].of = p.body.of
      BY <2>4, <3>1 DEF DataOf
    <3>3. PICK cs : OfSet(cs, Here[1].set, Used) /\ p.body.of = DataBlocks(cs, Here[1].set.size)
      BY <3>1 DEF GoodPacket, Honest
    <3>4. infos = cs
      BY <2>4, <3>3, InfosAreTheSet
    <3>5. Numbered = DataBlocks(infos, blockSize)
      BY DEF Numbered, DataBlocks
    <3> QED
      BY <2>2, <3>2, <3>3, <3>4, <3>5
  <2>5. ASSUME NEW k \in 1 .. Len(infos), infos[k].id \in DOMAIN checksums
        PROVE  checksums[infos[k].id] = BlockSeq(infos[k], blockSize)
    <3>1. PICK i \in 1 .. Len(Here) : Here[i].kind = "FileDesc" /\ infos[k] = Here[i].body
      BY <2>1 DEF InfoInv
    <3>2. PICK j \in 1 .. Len(Here) :
            /\ Here[j].kind = "IFSC" /\ Here[j].body.id = infos[k].id
            /\ checksums[infos[k].id] = Here[j].body.sums
      BY <2>1, <2>5 DEF InfoInv
    <3>3. /\ GoodPacket(Here[i], Used, ~blurred) /\ GoodPacket(Here[j], Used, ~blurred)
          /\ Here[j].set = Here[1].set
      <4>1. IsSeq(Here)
        BY <2>3 DEF GoodFile
      <4>2. 1 \in 1 .. Len(Here)
        BY <4>1, <3>1, SeqFacts
      <4> QED
        BY <2>3, <4>2 DEF GoodFile
    <3>4. infos[k] \in Used
      BY <3>1, <3>3 DEF GoodPacket, Honest, OfSet
    <3>5. PICK c \in Used : Here[j].body.id = c.id /\ Here[j].body.sums = BlockSeq(c, blockSize)
      BY <2>2, <3>2, <3>3 DEF GoodPacket, Honest, OfSet
    <3>6. c = infos[k]
      BY <2>1, <3>2, <3>4, <3>5, IdsTell
    <3> QED
      BY <3>2, <3>5, <3>6
  <2> QED
    BY <2>4, <2>5
<1> QED
  BY <1>1, LoadedInvHolds, PTL

-----------------------------------------------------------------------------
(***************************************************************************)
(* A set that was created loads whole.                                     *)
(***************************************************************************)

\* After a creation that succeeded, with nothing happening since.
Untouched == created = "ok" /\ mishaps = 0

\* The files of the creation are there, packet by packet, and nothing is wrong with them.
LEMMA FilesAreThere ==
  ASSUME ArchiveInv, Untouched
  PROVE  /\ OutputsOK /\ EndOf(volumes) = wanted /\ wanted \in Nat /\ Len(meta) \in Nat
         /\ IsSeq(meta) /\ SetId.size = size /\ size # 0
         /\ \A o \in 1 .. Len(Outputs) :
              /\ Outputs[o].name \in DOMAIN dir
              /\ Laid(dir[Outputs[o].name], Outputs[o]) /\ Outputs[o].count \in Nat
<1>1. wanted \in Nat /\ AllRead /\ Planned
  BY DEF ArchiveInv, CreateInv, PlanInv, Untouched, AllRead, Planned
<1>2. OutputsOK /\ EndOf(volumes) = wanted
  BY <1>1, OutputsFacts DEF ArchiveInv, WriteInv, Untouched
<1>3. IsSeq(meta) /\ Len(meta) \in Nat /\ size # 0
  BY <1>1, SeqFacts DEF ArchiveInv, CreateInv, PlanInv
<1>4. SetId.size = size
  BY SetIdFacts DEF ArchiveInv, CreateInv
<1>5. ASSUME NEW o \in 1 .. Len(Outputs)
      PROVE  /\ Outputs[o].name \in DOMAIN dir
             /\ Laid(dir[Outputs[o].name], Outputs[o]) /\ Outputs[o].count \in Nat
  <2>1. Whole(dir, Outputs[o].name, Plans[o])
    BY DEF ArchiveInv, WriteInv, Untouched
  <2>2. Plans[o] = PacketsFor(Outputs[o])
    BY DEF Plans
  <2>3. Outputs[o].count \in Nat
    BY <1>2 DEF OutputsOK
  <2>4. Laid(PacketsFor(Outputs[o]), Outputs[o])
    BY <2>3, PacketsAreLaid DEF ArchiveInv, CreateInv, PlanInv
  <2> QED
    BY <2>1, <2>2, <2>3, <2>4 DEF Whole
<1> QED
  BY <1>1, <1>2, <1>3, <1>4, <1>5

\* The packets of such a file: none is damaged, and which are descriptions and recovery blocks.
Pristine(ps, out) ==
  /\ Len(ps) \in Nat /\ Len(ps) = 2 + 2 * Len(meta) + out.count
  /\ \A i \in 1 .. Len(ps) : ps[i].set = SetId /\ ps[i].harm = "none" /\ Intact(ps, i)
  /\ ps[2].kind = "Main" /\ 2 \in 1 .. Len(ps)
  /\ \A j \in Entries :
       2 + j \in 1 .. Len(ps) /\ ps[2 + j].kind = "FileDesc" /\ ps[2 + j].body = meta[j]
  /\ \A i \in 1 .. Len(ps) : ps[i].kind = "FileDesc" => \E j \in Entries : i = 2 + j
  /\ \A k \in 1 .. out.count :
       /\ 2 + 2 * Len(meta) + k \in 1 .. Len(ps)
       /\ ps[2 + 2 * Len(meta) + k].kind = "RecoverySlice"
       /\ ps[2 + 2 * Len(meta) + k].body.exp = out.start + k - 1
  /\ \A i \in 1 .. Len(ps) : ps[i].kind = "RecoverySlice" =>
       \E k \in 1 .. out.count : i = 2 + 2 * Len(meta) + k

\* The packets of a file that was laid out are like that.
LEMMA LaidPackets ==
  ASSUME IsSeq(meta), NEW out, out.count \in Nat, NEW ps, Laid(ps, out)
  PROVE  Pristine(ps, out)
<1>1. /\ Len(meta) \in Nat /\ Entries = 1 .. Len(meta) /\ IsSeq(ps) /\ Len(ps) \in Nat
      /\ Len(ps) = 2 + 2 * Len(meta) + out.count
  BY SeqFacts DEF Entries, Laid
<1>2. /\ ps[1].kind = "Creator" /\ ps[1].set = SetId /\ ps[1].harm = "none"
      /\ ps[2].kind = "Main" /\ ps[2].set = SetId /\ ps[2].harm = "none"
  BY DEF Laid, CreatorPacket, MainPacket, Packet
<1>3. \A j \in Entries :
        /\ 2 + j \in 1 .. Len(ps)
        /\ ps[2 + j].kind = "FileDesc" /\ ps[2 + j].body = meta[j]
        /\ ps[2 + j].set = SetId /\ ps[2 + j].harm = "none"
  <2> SUFFICES ASSUME NEW j \in Entries
               PROVE  /\ 2 + j \in 1 .. Len(ps)
                      /\ ps[2 + j].kind = "FileDesc" /\ ps[2 + j].body = meta[j]
                      /\ ps[2 + j].set = SetId /\ ps[2 + j].harm = "none"
    OBVIOUS
  <2>1. ps[2 + j] = FileDescPacket(SetId, meta[j])
    BY DEF Laid
  <2>2. 2 + j \in 1 .. Len(ps)
    BY <1>1
  <2> QED
    BY <2>1, <2>2 DEF FileDescPacket, Packet
<1>4. \A j \in Entries :
        /\ ps[2 + Len(meta) + j].kind = "IFSC"
        /\ ps[2 + Len(meta) + j].set = SetId /\ ps[2 + Len(meta) + j].harm = "none"
  <2> SUFFICES ASSUME NEW j \in Entries
               PROVE  /\ ps[2 + Len(meta) + j].kind = "IFSC"
                      /\ ps[2 + Len(meta) + j].set = SetId
                      /\ ps[2 + Len(meta) + j].harm = "none"
    OBVIOUS
  <2>1. ps[2 + Len(meta) + j] = IfscPacket(SetId, meta[j].id, read[j])
    BY DEF Laid
  <2> QED
    BY <2>1 DEF IfscPacket, Packet
<1>5. \A k \in 1 .. out.count :
        /\ 2 + 2 * Len(meta) + k \in 1 .. Len(ps)
        /\ ps[2 + 2 * Len(meta) + k].kind = "RecoverySlice"
        /\ ps[2 + 2 * Len(meta) + k].body.exp = out.start + k - 1
        /\ ps[2 + 2 * Len(meta) + k].set = SetId /\ ps[2 + 2 * Len(meta) + k].harm = "none"
  <2> SUFFICES ASSUME NEW k \in 1 .. out.count
               PROVE  /\ 2 + 2 * Len(meta) + k \in 1 .. Len(ps)
                      /\ ps[2 + 2 * Len(meta) + k].kind = "RecoverySlice"
                      /\ ps[2 + 2 * Len(meta) + k].body.exp = out.start + k - 1
                      /\ ps[2 + 2 * Len(meta) + k].set = SetId
                      /\ ps[2 + 2 * Len(meta) + k].harm = "none"
    OBVIOUS
  <2>1. ps[2 + 2 * Len(meta) + k] = RecoverySlice(SetId, out.start + k - 1, Encoded)
    BY DEF Laid
  <2>2. 2 + 2 * Len(meta) + k \in 1 .. Len(ps)
    BY <1>1
  <2> QED
    BY <2>1, <2>2 DEF RecoverySlice, Packet
<1>6. ASSUME NEW i \in 1 .. Len(ps)
      PROVE  /\ ps[i].set = SetId /\ ps[i].harm = "none"
             /\ ps[i].kind = "FileDesc" => \E j \in Entries : i = 2 + j
             /\ ps[i].kind = "RecoverySlice" =>
                  \E k \in 1 .. out.count : i = 2 + 2 * Len(meta) + k
  <2>1. \/ i = 1 \/ i = 2
        \/ \E j \in Entries : i = 2 + j \/ i = 2 + Len(meta) + j
        \/ \E k \in 1 .. out.count : i = 2 + 2 * Len(meta) + k
    BY LaidIsAll
  <2>2. CASE i = 1 \/ i = 2
    BY <1>2, <2>2
  <2>3. CASE \E j \in Entries : i = 2 + j \/ i = 2 + Len(meta) + j
    <3>1. PICK j \in Entries : i = 2 + j \/ i = 2 + Len(meta) + j
      BY <2>3
    <3> QED
      BY <1>3, <1>4, <3>1
  <2>4. CASE \E k \in 1 .. out.count : i = 2 + 2 * Len(meta) + k
    <3>1. PICK k \in 1 .. out.count : i = 2 + 2 * Len(meta) + k
      BY <2>4
    <3> DEFINE x == 2 + 2 * Len(meta) + k
    <3>2. ps[x].kind = "RecoverySlice" /\ ps[x].set = SetId /\ ps[x].harm = "none"
      BY <1>5
    <3>3. i = x
      BY <3>1
    <3> QED
      BY <2>4, <3>2, <3>3
  <2> QED
    BY <2>1, <2>2, <2>3, <2>4
<1>7. \A i \in 1 .. Len(ps) : Intact(ps, i)
  <2> SUFFICES ASSUME NEW i \in 1 .. Len(ps) PROVE Intact(ps, i)
    OBVIOUS
  <2>1. i = 1 \/ i - 1 \in 1 .. Len(ps)
    BY <1>1
  <2> QED
    BY <1>6, <2>1 DEF Intact
<1>8. 2 \in 1 .. Len(ps)
  BY <1>1
<1> QED
  BY <1>1, <1>2, <1>3, <1>5, <1>6, <1>7, <1>8 DEF Pristine

\* What is loaded from one of the files.
LEMMA LoadedWhole ==
  ASSUME LoadedInv, Untouched, loading = "done", given \in NamesWritten
  PROVE  loaded = "ok" /\ infos = meta /\ blockSize = size /\ setId = SetId /\ setId # Garbled
<1>1. /\ ArchiveInv /\ CreateInv /\ PhaseInv /\ Begun /\ HeaderInv /\ InfoInv /\ CoverInv
      /\ loaded \in {"ok", "error"} /\ position \in Nat
  BY DEF LoadedInv, LoadInv, PhaseInv, Begun, Untouched, ArchiveInv
<1>2. PICK o \in 1 .. Len(Outputs) : given = Outputs[o].name
  BY DEF NamesWritten
<1>3. Laid(Here, Outputs[o]) /\ Outputs[o].count \in Nat /\ IsSeq(meta) /\ SetId.size = size
  BY <1>1, <1>2, FilesAreThere DEF Here
<1> DEFINE m == 2 + 2 * Len(meta)
<1>4. /\ Len(Here) \in Nat
      /\ \A i \in 1 .. Len(Here) : Here[i].set = SetId /\ Here[i].harm = "none" /\ Intact(Here, i)
      /\ Here[2].kind = "Main" /\ 2 \in 1 .. Len(Here)
      /\ \A j \in Entries : 2 + j \in 1 .. Len(Here) /\ Here[2 + j].kind = "FileDesc"
                            /\ Here[2 + j].body = meta[j]
      /\ \A i \in 1 .. Len(Here) : Here[i].kind = "FileDesc" => \E j \in Entries : i = 2 + j
  BY <1>3, LaidPackets DEF Pristine
<1>5. loaded = "ok"
  <2> SUFFICES ASSUME loaded = "error" PROVE FALSE
    BY <1>1
  <2>1. position > Len(Here) /\ (setId = NoSet \/ blockSize = 0)
    BY <1>1 DEF PhaseInv
  <2>2. 2 < position /\ Intact(Here, 2)
    BY <1>1, <1>4, <2>1
  <2> QED
    BY <1>1, <1>4, <2>1, <2>2 DEF CoverInv
<1>6. position > Len(Here) /\ setId # NoSet /\ blockSize # 0 /\ 1 \in 1 .. Len(Here)
  BY <1>1, <1>4, <1>5 DEF PhaseInv
<1>7. Here[1].set = SetId
  BY <1>4, <1>6
<1>8. blockSize = size /\ setId = SetId /\ setId # Garbled
  <2>1. setId # Garbled
    BY <1>1, <1>4 DEF HeaderInv
  <2> QED
    BY <1>1, <1>3, <1>6, <1>7, <2>1 DEF HeaderInv
<1> DEFINE S == {meta[j] : j \in 1 .. Len(meta)}
           key == [c \in S |-> c.id]
<1>9. /\ Entries = 1 .. Len(meta) /\ Len(meta) \in Nat /\ \A j \in Entries : meta[j].id \in Nat
      /\ \A j, l \in Entries : j < l => meta[j].id < meta[l].id
  <2>1. \A j \in Entries : meta[j].id \in Nat
    BY <1>1, EntryFacts DEF CreateInv
  <2> QED
    BY <1>1, <1>3, <2>1, SeqFacts DEF CreateInv, PlanInv, Entries
<1>10. \A j, l \in Entries : meta[j].id = meta[l].id => j = l
  <2> SUFFICES ASSUME NEW j \in Entries, NEW l \in Entries, meta[j].id = meta[l].id PROVE j = l
    OBVIOUS
  <2>1. ~(j < l) /\ ~(l < j)
    BY <1>9
  <2> QED
    BY <1>9, <2>1
<1>11. \A k \in 1 .. Len(infos) : \E j \in 1 .. Len(meta) : infos[k] = meta[j]
  <2> SUFFICES ASSUME NEW k \in 1 .. Len(infos) PROVE \E j \in 1 .. Len(meta) : infos[k] = meta[j]
    OBVIOUS
  <2>1. PICK i \in 1 .. Len(Here) : Here[i].kind = "FileDesc" /\ infos[k] = Here[i].body
    BY <1>1 DEF InfoInv
  <2>2. PICK j \in Entries : i = 2 + j
    BY <1>4, <2>1
  <2> QED
    BY <1>4, <1>9, <2>1, <2>2
<1>12. \A j \in 1 .. Len(meta) : \E k \in 1 .. Len(infos) : infos[k] = meta[j]
  <2> SUFFICES ASSUME NEW j \in 1 .. Len(meta) PROVE \E k \in 1 .. Len(infos) : infos[k] = meta[j]
    OBVIOUS
  <2> DEFINE i == 2 + j
  <2>1. /\ i \in 1 .. Len(Here) /\ Here[i].kind = "FileDesc" /\ Here[i].body = meta[j]
        /\ Intact(Here, i)
    BY <1>4, <1>9
  <2> HIDE DEF i
  <2>2. i < position
    BY <1>1, <1>4, <1>6, <2>1
  <2>3. PICK k \in 1 .. Len(infos) : infos[k].id = meta[j].id
    BY <1>1, <2>1, <2>2 DEF CoverInv
  <2>4. PICK l \in 1 .. Len(meta) : infos[k] = meta[l]
    BY <1>11
  <2>5. l = j
    BY <1>9, <1>10, <2>3, <2>4
  <2> QED
    BY <2>4, <2>5
<1>13. key \in [S -> Int] /\ \A c \in S : key[c] = c.id
  BY <1>9
<1>14. /\ \A j \in 1 .. Len(meta) : meta[j] \in S
       /\ \A c \in S : \E j \in 1 .. Len(meta) : meta[j] = c
       /\ \A k \in 1 .. Len(infos) : infos[k] \in S
       /\ \A c \in S : \E k \in 1 .. Len(infos) : infos[k] = c
  BY <1>11, <1>12
<1> HIDE DEF S, key
<1>15. ByRank(S, key) = meta
  <2>1. \A j, l \in 1 .. Len(meta) : j < l => key[meta[j]] < key[meta[l]]
    BY <1>9, <1>13, <1>14
  <2> QED
    BY <1>3, <1>13, <1>14, <2>1, SortedOnce
<1>16. ByRank(S, key) = infos
  <2>1. IsSeq(infos) /\ \A k, l \in 1 .. Len(infos) : k < l => infos[k].id < infos[l].id
    BY <1>1, <1>5 DEF InfoInv
  <2>2. \A k, l \in 1 .. Len(infos) : k < l => key[infos[k]] < key[infos[l]]
    BY <1>13, <1>14, <2>1
  <2> QED
    BY <1>13, <1>14, <2>1, <2>2, SortedOnce
<1> QED
  BY <1>5, <1>8, <1>15, <1>16

\* The recovery blocks that are loaded of the files of the creation: each exponent once.
LEMMA OwnBlocksCount ==
  ASSUME LoadedInv, Untouched, loading = "done", given \in NamesWritten, ~bare
  PROVE  /\ Cardinality(OwnBlocks) = wanted
         /\ {recovery[k].exp : k \in OwnBlocks} = 0 .. wanted - 1
<1> DEFINE m == 2 + 2 * Len(meta)
           E == 0 .. wanted - 1
           f == [k \in OwnBlocks |-> recovery[k].exp]
<1>1. /\ ArchiveInv /\ PhaseInv /\ SliceInv /\ CoverInv /\ Begun /\ position \in Nat
      /\ loaded = "ok" /\ unscanned = {} /\ unreadable = {} /\ given \in DOMAIN dir
  <2>1. loaded = "ok" /\ PhaseInv /\ mishaps = 0
    BY LoadedWhole DEF LoadedInv, Untouched
  <2> QED
    BY <2>1 DEF LoadedInv, LoadInv, PhaseInv, Begun
<1>2. /\ OutputsOK /\ EndOf(volumes) = wanted /\ wanted \in Nat /\ Len(meta) \in Nat
      /\ IsSeq(meta)
      /\ \A o \in 1 .. Len(Outputs) :
           /\ Outputs[o].name \in DOMAIN dir
           /\ Laid(dir[Outputs[o].name], Outputs[o])
  BY <1>1, FilesAreThere
<1>3. /\ Len(Outputs) \in Nat
      /\ \A o \in 1 .. Len(Outputs) : /\ Outputs[o].start \in Nat /\ Outputs[o].count \in Nat
                                      /\ Outputs[o].start + Outputs[o].count =< wanted
      /\ \A o, q \in 1 .. Len(Outputs) :
           o < q => Outputs[o].start + Outputs[o].count =< Outputs[q].start
      /\ \A e \in E : \E o \in 1 .. Len(Outputs) :
           Outputs[o].start =< e /\ e < Outputs[o].start + Outputs[o].count
  BY <1>2, SeqFacts DEF OutputsOK
<1>4. ASSUME NEW o \in 1 .. Len(Outputs)
      PROVE  LET ps == dir[Outputs[o].name]
             IN  /\ Len(ps) \in Nat /\ 1 \in 1 .. Len(ps) /\ ps[1].set = SetId
                 /\ ps[1].harm = "none"
                 /\ \A i \in 1 .. Len(ps) : Intact(ps, i)
                 /\ \A j \in 1 .. Outputs[o].count :
                      /\ m + j \in 1 .. Len(ps) /\ ps[m + j].kind = "RecoverySlice"
                      /\ ps[m + j].body.exp = Outputs[o].start + j - 1
                 /\ \A i \in 1 .. Len(ps) : ps[i].kind = "RecoverySlice" =>
                      \E j \in 1 .. Outputs[o].count : i = m + j
  <2> DEFINE ps == dir[Outputs[o].name]
  <2>1. Laid(ps, Outputs[o]) /\ Outputs[o].count \in Nat
    BY <1>2, <1>3
  <2> HIDE DEF ps
  <2>2. /\ Len(ps) \in Nat /\ Len(ps) = m + Outputs[o].count
        /\ \A i \in 1 .. Len(ps) : ps[i].set = SetId /\ ps[i].harm = "none" /\ Intact(ps, i)
        /\ \A j \in 1 .. Outputs[o].count :
             /\ m + j \in 1 .. Len(ps) /\ ps[m + j].kind = "RecoverySlice"
             /\ ps[m + j].body.exp = Outputs[o].start + j - 1
        /\ \A i \in 1 .. Len(ps) : ps[i].kind = "RecoverySlice" =>
             \E j \in 1 .. Outputs[o].count : i = m + j
    <3>1. Pristine(ps, Outputs[o])
      BY <1>2, <2>1, LaidPackets
    <3> QED
      BY <3>1 DEF Pristine
  <2>3. 1 \in 1 .. Len(ps)
    BY <1>2, <2>1, <2>2
  <2> QED
    BY <2>2, <2>3 DEF ps
<1>5. OwnBlocks = {k \in 1 .. Len(recovery) : recovery[k].name \in NamesWritten}
  BY DEF OwnBlocks
<1>6. Len(recovery) \in Nat
  BY <1>1, SeqFacts DEF SliceInv
<1> DEFINE At(k, o, j) == /\ recovery[k].name = Outputs[o].name /\ recovery[k].slot = m + j
                          /\ recovery[k].exp = Outputs[o].start + j - 1
<1>7. ASSUME NEW k \in OwnBlocks
      PROVE  \E o \in 1 .. Len(Outputs) : \E j \in 1 .. Outputs[o].count : At(k, o, j)
  <2>1. k \in 1 .. Len(recovery) /\ recovery[k].name \in NamesWritten
    BY <1>5
  <2>2. PICK o \in 1 .. Len(Outputs) : recovery[k].name = Outputs[o].name
    BY <2>1 DEF NamesWritten
  <2> DEFINE ps == dir[Outputs[o].name]
  <2>3. /\ recovery[k].slot \in 1 .. Len(ps) /\ ps[recovery[k].slot].kind = "RecoverySlice"
        /\ recovery[k].exp = ps[recovery[k].slot].body.exp
    BY <1>1, <2>1, <2>2 DEF SliceInv, Sliced
  <2>4. /\ \A j \in 1 .. Outputs[o].count : ps[m + j].body.exp = Outputs[o].start + j - 1
        /\ \A i \in 1 .. Len(ps) : ps[i].kind = "RecoverySlice" =>
             \E j \in 1 .. Outputs[o].count : i = m + j
    BY <1>4
  <2> HIDE DEF ps, m
  <2>5. PICK j \in 1 .. Outputs[o].count : recovery[k].slot = m + j
    BY <2>3, <2>4
  <2>6. At(k, o, j)
    BY <2>2, <2>3, <2>4, <2>5
  <2> QED
    BY <2>6
<1>8. ASSUME NEW e \in E PROVE \E k \in OwnBlocks : recovery[k].exp = e
  <2>1. PICK o \in 1 .. Len(Outputs) :
          Outputs[o].start =< e /\ e < Outputs[o].start + Outputs[o].count
    BY <1>3
  <2> DEFINE n == Outputs[o].name
             ps == dir[n]
             j == e - Outputs[o].start + 1
  <2>2. j \in 1 .. Outputs[o].count /\ Outputs[o].start + j - 1 = e
    BY <1>2, <1>3, <2>1
  <2>3. /\ Len(ps) \in Nat /\ 1 \in 1 .. Len(ps) /\ ps[1].set = SetId /\ ps[1].harm = "none"
        /\ m + j \in 1 .. Len(ps) /\ Intact(ps, m + j) /\ ps[m + j].kind = "RecoverySlice"
        /\ ps[m + j].body.exp = e
    <3>1. /\ Len(ps) \in Nat /\ 1 \in 1 .. Len(ps) /\ ps[1].set = SetId
          /\ ps[1].harm = "none"
          /\ \A i \in 1 .. Len(ps) : Intact(ps, i)
          /\ \A l \in 1 .. Outputs[o].count :
               /\ m + l \in 1 .. Len(ps) /\ ps[m + l].kind = "RecoverySlice"
               /\ ps[m + l].body.exp = Outputs[o].start + l - 1
      BY <1>4
    <3> HIDE DEF ps, j, m
    <3>2. m + j \in 1 .. Len(ps) /\ ps[m + j].kind = "RecoverySlice" /\ ps[m + j].body.exp = e
      BY <2>2, <3>1
    <3> QED
      BY <3>1, <3>2
  <2>4. n \in NamesWritten /\ n \in DOMAIN dir
    BY <1>2 DEF NamesWritten
  <2> DEFINE i == m + j
  <2>5. /\ i \in 1 .. Len(ps) /\ Intact(ps, i) /\ ps[i].kind = "RecoverySlice"
        /\ ps[i].body.exp = e
    BY <2>3
  <2> HIDE DEF i, j
  <2>6. Has(recovery, n, i)
    <3>1. CASE n = given
      <4>1. i < position
        <5>1. position > Len(Here) /\ Here = ps
          BY <1>1, <3>1 DEF PhaseInv, Here
        <5> QED
          BY <1>1, <2>3, <2>5, <5>1
      <4>2. Has(recovery, given, i) \/ \E k \in 1 .. Len(deferred) : deferred[k] = i
        BY <1>1, <2>5, <3>1, <4>1 DEF CoverInv, Here
      <4>3. \A k \in 1 .. Len(deferred) : Has(recovery, given, deferred[k])
        BY <1>1 DEF CoverInv
      <4> QED
        BY <3>1, <4>2, <4>3
    <3>2. CASE n # given
      <4>1. setId = SetId /\ setId # Garbled
        BY LoadedWhole
      <4>2. ps # <<>>
        BY <2>3, ShortSeqs
      <4>3. FirstSetId(n) = setId
        BY <2>3, <4>1, <4>2 DEF FirstSetId, HasMagic, HeaderSet
      <4>4. n \in DOMAIN dir \ (unscanned \cup unreadable)
        BY <1>1, <2>4
      <4> QED
        BY <1>1, <2>5, <3>2, <4>3, <4>4 DEF CoverInv
    <3> QED
      BY <3>1, <3>2
  <2>7. PICK k \in 1 .. Len(recovery) : recovery[k].name = n /\ recovery[k].slot = i
    BY <2>6 DEF Has
  <2>8. k \in OwnBlocks
    BY <1>5, <2>4, <2>7
  <2>9. recovery[k].exp = e
    BY <1>1, <2>5, <2>7 DEF SliceInv, Sliced
  <2> QED
    BY <2>8, <2>9
<1>9. ASSUME NEW k \in OwnBlocks PROVE recovery[k].exp \in E
  <2>1. PICK o \in 1 .. Len(Outputs) : \E j \in 1 .. Outputs[o].count : At(k, o, j)
    BY <1>7
  <2>2. PICK j \in 1 .. Outputs[o].count : recovery[k].exp = Outputs[o].start + j - 1
    BY <2>1
  <2> QED
    BY <1>2, <1>3, <2>2
<1>10. ASSUME NEW k \in OwnBlocks, NEW l \in OwnBlocks, recovery[k].exp = recovery[l].exp
       PROVE  k = l
  <2>8. PICK o \in 1 .. Len(Outputs) : \E j \in 1 .. Outputs[o].count : At(k, o, j)
    BY <1>7
  <2>9. PICK q \in 1 .. Len(Outputs) : \E h \in 1 .. Outputs[q].count : At(l, q, h)
    BY <1>7
  <2>1. PICK j \in 1 .. Outputs[o].count : At(k, o, j)
    BY <2>8
  <2>2. PICK h \in 1 .. Outputs[q].count : At(l, q, h)
    BY <2>9
  <2>3. Outputs[o].start + j - 1 = Outputs[q].start + h - 1
    BY <1>10, <2>1, <2>2
  <2>4. ~(o < q) /\ ~(q < o)
    <3>1. /\ Outputs[o].start \in Nat /\ Outputs[o].count \in Nat
          /\ Outputs[q].start \in Nat /\ Outputs[q].count \in Nat
          /\ o < q => Outputs[o].start + Outputs[o].count =< Outputs[q].start
          /\ q < o => Outputs[q].start + Outputs[q].count =< Outputs[o].start
      BY <1>3
    <3> DEFINE x == Outputs[o].start
               c == Outputs[o].count
               y == Outputs[q].start
               d == Outputs[q].count
    <3>2. /\ x \in Nat /\ c \in Nat /\ y \in Nat /\ d \in Nat
          /\ j \in 1 .. c /\ h \in 1 .. d /\ x + j - 1 = y + h - 1
          /\ (o < q => x + c =< y) /\ (q < o => y + d =< x)
      BY <2>3, <3>1
    <3> HIDE DEF At, m, E, f, x, c, y, d
    <3> QED
      BY <3>2
  <2>5. o = q
    BY <1>3, <2>4
  <2>6. j = h
    BY <1>3, <2>3, <2>5
  <2>7. recovery[k].name = recovery[l].name /\ recovery[k].slot = recovery[l].slot
    BY <2>1, <2>2, <2>5, <2>6
  <2>10. k \in 1 .. Len(recovery) /\ l \in 1 .. Len(recovery)
    BY <1>5
  <2> QED
    BY <1>1, <2>7, <2>10 DEF SliceInv, Once
<1> HIDE DEF At, m
<1>11. f \in Bijection(OwnBlocks, E)
  <2> HIDE DEF E
  <2>1. f \in [OwnBlocks -> E]
    BY <1>9
  <2>2. \A k, l \in OwnBlocks : f[k] = f[l] => k = l
    BY <1>10
  <2>3. \A e \in E : \E k \in OwnBlocks : f[k] = e
    BY <1>8
  <2> HIDE DEF f
  <2> QED
    BY <2>1, <2>2, <2>3 DEF Bijection, Injection, Surjection, IsInjective
<1>12. IsFiniteSet(OwnBlocks)
  <2>1. IsFiniteSet(1 .. Len(recovery)) /\ OwnBlocks \in SUBSET (1 .. Len(recovery))
    BY <1>5, <1>6, FS_Interval
  <2> QED
    BY <2>1, FS_Subset
<1>13. Cardinality(E) = wanted
  <2>1. Cardinality(0 .. wanted - 1) = IF 0 > wanted - 1 THEN 0 ELSE (wanted - 1) - 0 + 1
    BY <1>2, FS_Interval
  <2> QED
    BY <1>2, <2>1
<1>14. Cardinality(OwnBlocks) = Cardinality(E)
  <2> HIDE DEF f, E
  <2>1. ExistsBijection(OwnBlocks, E)
    BY <1>11 DEF ExistsBijection
  <2> QED
    BY <1>12, <2>1, FS_Bijection
<1>15. {recovery[k].exp : k \in OwnBlocks} = E
  <2> HIDE DEF E
  <2> QED
    BY <1>8, <1>9
<1> QED
  BY <1>13, <1>14, <1>15

\* A set that was created loads whole (Par2Creator::create and Par2File::load together): from
\* any of the files, with any number of input files, blocks and recovery blocks and under both
\* volume schemes, in every reachable state.
THEOREM CreatedSetsLoadWhole == ArchiveSpec => []RoundTrip
<1>1. LoadedInv => RoundTrip
  <2> SUFFICES ASSUME LoadedInv, Untouched, loading = "done", given \in NamesWritten
               PROVE  /\ loaded = "ok" /\ infos = meta /\ blockSize = size
                      /\ TotalDataBlocks = DataCount
                      /\ Len(recovery) >= DistinctRecoveryBlocks
                      /\ ~bare => /\ Cardinality(OwnBlocks) = wanted
                                  /\ {recovery[k].exp : k \in OwnBlocks} = 0 .. wanted - 1
                                  /\ CanRepair(wanted)
    BY DEF RoundTrip, Untouched
  <2>1. loaded = "ok" /\ infos = meta /\ blockSize = size
    BY LoadedWhole
  <2>2. TotalDataBlocks = DataCount
    BY <2>1 DEF TotalDataBlocks, DataCount, Entries
  <2> DEFINE exps == {recovery[k].exp : k \in 1 .. Len(recovery)}
             f == [k \in 1 .. Len(recovery) |-> recovery[k].exp]
  <2>3. Len(recovery) \in Nat
    <3>1. IsSeq(recovery)
      BY DEF LoadedInv, LoadInv, Begun, SliceInv
    <3> QED
      BY <3>1, SeqFacts
  <2>4. IsFiniteSet(exps) /\ Cardinality(exps) =< Len(recovery)
    <3>1. f \in Surjection(1 .. Len(recovery), exps)
      BY DEF Surjection
    <3>2. IsFiniteSet(1 .. Len(recovery)) /\ Cardinality(1 .. Len(recovery)) = Len(recovery)
      BY <2>3, FS_Interval
    <3> HIDE DEF f, exps
    <3>3. IsFiniteSet(exps) /\ Cardinality(exps) =< Cardinality(1 .. Len(recovery))
      BY <3>1, <3>2, FS_Surjection
    <3> QED
      BY <3>2, <3>3
  <2>5. Len(recovery) >= DistinctRecoveryBlocks
    BY <2>3, <2>4, FS_CardinalityType DEF DistinctRecoveryBlocks
  <2>6. ASSUME ~bare
        PROVE  /\ Cardinality(OwnBlocks) = wanted
               /\ {recovery[k].exp : k \in OwnBlocks} = 0 .. wanted - 1
               /\ CanRepair(wanted)
    <3>1. /\ Cardinality(OwnBlocks) = wanted
          /\ {recovery[k].exp : k \in OwnBlocks} = 0 .. wanted - 1
      BY <2>6, OwnBlocksCount
    <3>2. 0 .. wanted - 1 \in SUBSET exps
      BY <3>1 DEF OwnBlocks
    <3>3. wanted \in Nat
      BY DEF LoadedInv, ArchiveInv, CreateInv, PlanInv
    <3>4. Cardinality(0 .. wanted - 1) =< Cardinality(exps)
      <4> HIDE DEF exps
      <4> QED
        BY <2>4, <3>2, FS_Subset
    <3>5. Cardinality(0 .. wanted - 1) = wanted
      <4>1. Cardinality(0 .. wanted - 1) = IF 0 > wanted - 1 THEN 0 ELSE (wanted - 1) - 0 + 1
        BY <3>3, FS_Interval
      <4> QED
        BY <3>3, <4>1
    <3> QED
      BY <3>1, <3>4, <3>5 DEF CanRepair, DistinctRecoveryBlocks
  <2> QED
    BY <2>1, <2>2, <2>5, <2>6
<1> QED
  BY <1>1, LoadedInvHolds, PTL

\* Types: in every reachable state the phases, results and counters are what ArchiveTypeOK says,
\* each packet on the disk is of a known kind, and what load refers to is there.
THEOREM ArchiveTypes == ArchiveSpec => []ArchiveTypeOK
<1>1. LoadedInv => ArchiveTypeOK
  <2> SUFFICES ASSUME LoadedInv PROVE ArchiveTypeOK
    OBVIOUS
  <2>1. SplitInv /\ HashInv /\ PlanInv /\ WriteInv /\ DirInv /\ PhaseInv
    BY DEF LoadedInv, ArchiveInv, CreateInv
  <2>2. /\ creating \in {"idle", "hash", "encode", "split", "write"}
        /\ created \in {"none", "ok", "error", "panic", "interrupted"}
        /\ loading \in {"idle", "due", "scan", "volumes", "done"}
        /\ loaded \in {"none", "ok", "error", "failed"}
    BY <2>1 DEF HashInv, PhaseInv
  <2>3. /\ \A f \in Files : source[f] \in ContentsOf(f)
        /\ DOMAIN hashed \subseteq Files /\ Len(read) = Len(meta)
    BY <2>1 DEF HashInv, PlanInv
  <2>4. {size, wanted, next, current, target, writing, position, blockSize, mishaps}
          \subseteq Nat
    BY <2>1 DEF SplitInv, PlanInv, WriteInv, PhaseInv
  <2>5. \A n \in DOMAIN dir : \A i \in 1 .. Len(dir[n]) : PacketOK(dir[n][i])
    BY <2>1 DEF DirInv, GoodFile, GoodPacket, Shape
  <2>6. \A i \in 1 .. Len(volumes) : volumes[i].start \in Nat /\ volumes[i].count \in Nat
    <3>1. volumes \in Seq(VolumeRecords)
      BY <2>1 DEF SplitInv
    <3>2. \A i \in 1 .. Len(volumes) : volumes[i] \in VolumeRecords
      BY <3>1
    <3> QED
      BY <3>2 DEF VolumeRecords
  <2>7. /\ given \in DOMAIN dir \/ loading \in {"idle", "due"}
        /\ unscanned \cup unreadable \subseteq DOMAIN dir
    BY <2>1 DEF PhaseInv, Begun
  <2> QED
    BY <2>2, <2>3, <2>4, <2>5, <2>6, <2>7 DEF ArchiveTypeOK
<1> QED
  BY <1>1, LoadedInvHolds, PTL
=============================================================================
