------------------------------ MODULE Creator ------------------------------
(***************************************************************************)
(* Par2Creator::create (src/creator.rs), with src/volumes.rs and           *)
(* src/writer.rs: hash every input file, choose the block size and count   *)
(* blocks, read every file again and encode it, distribute the recovery    *)
(* blocks over volumes, write the volumes one packet after another.        *)
(*                                                                         *)
(* The files are written under their own names, without temps: an error    *)
(* or a kill leaves what has been written.  Around the call others may     *)
(* change an input file.  A caller may create more than one set, over what *)
(* was there before.                                                       *)
(***************************************************************************)
EXTENDS Packets

CONSTANTS
  Options,       \* the options callers give: [size, percent, scheme], size 0 if none
  MinBlockSize,  \* MIN_BLOCK_SIZE
  MaxBlockSize,  \* MAX_BLOCK_SIZE: the usual cap
  TargetBlocks,  \* TARGET_BLOCKS
  MaxBlocks,     \* MAX_BLOCKS
  VolumeCap,     \* the most blocks a volume is meant to hold
  Radix,         \* the base volume names are written in
  MaxCreations   \* bound: calls of create

Schemes == {"Single", "Exponential"}

\* What with_block_size and with_redundancy accept.
ValidOptions ==
  [size : {0} \cup {s \in Nat : s >= MinBlockSize /\ s % 4 = 0}, percent : Nat, scheme : Schemes]

ASSUME CreatorAssumption ==
  /\ {MinBlockSize, MaxBlockSize, TargetBlocks, MaxBlocks, VolumeCap} \subseteq Nat \ {0}
  /\ MinBlockSize % 4 = 0 /\ MaxBlockSize % 4 = 0 /\ MinBlockSize =< MaxBlockSize
  /\ \A o \in Options :
       /\ o.size \in Nat /\ o.size % 4 = 0 /\ (o.size # 0 => o.size >= MinBlockSize)
       /\ o.percent \in Nat /\ o.scheme \in Schemes
  /\ Radix \in Nat \ {0, 1} /\ MaxCreations \in Nat

VARIABLES
  source,     \* the bytes of each input file
  blurred,    \* a file changed under its old id, or while a call was using it (history)
  creations,  \* calls so far
  creating,   \* the phase of the call
  created,    \* what the last call returned
  options,    \* its options
  hashed,     \* file_metadata of the hash pass, file by file
  meta,       \* file_metadata in canonical order
  size,       \* block_size
  wanted,     \* num_recovery_blocks
  read,       \* the blocks read and encoded so far, for each entry of meta
  volumes,    \* the volumes of split_into_volumes: [start, count]
  next,       \* the next exponent to place in a volume
  current,    \* blocks_in_current
  target,     \* target_count
  writing,    \* the position of the file being written
  opened      \* that file is open

planVars    == <<options, hashed, meta, size, wanted>>
splitVars   == <<volumes, next, current, target>>
creatorVars == <<source, blurred, creations, creating, created, planVars, read, splitVars, writing, opened>>

Larger(a, b)  == IF a >= b THEN a ELSE b
Smaller(a, b) == IF a =< b THEN a ELSE b
RoundUp4(n)   == IF n % 4 = 0 THEN n ELSE (n \div 4 + 1) * 4

CalculateBlockSize(total) ==
  LET wish  == RoundUp4(total \div TargetBlocks)
      least == RoundUp4(Larger(CeilDiv(total, MaxBlocks), MinBlockSize))
  IN  CASE total = 0 -> MinBlockSize
        [] total # 0 /\ least > MaxBlockSize -> least
        [] OTHER -> Larger(Smaller(MaxBlockSize, Larger(MinBlockSize, wish)), least)

-----------------------------------------------------------------------------
\* The canonical order, by File ID.
InIdOrder(cs) == InOrder(cs, LAMBDA c, d : c.id < d.id)

Entries   == 1 .. Len(meta)

\* build_main_packet_body sorts the ids itself.
SetId     == SetIdOf(size, Ascending({meta[i].id : i \in Entries}))
DataCount == SumOf([i \in Entries |-> BlocksOf(meta[i], size)])

\* All data blocks in the order in which the encoder was fed.
Encoded == FlattenSeq(read)

\* The entry whose next block is read: the first that is not at its end.
Unread == {i \in Entries : Len(read[i]) < BlocksOf(meta[i], size)}
Reading == CHOOSE i \in Unread : \A k \in Unread : i =< k

\* The input file an entry is about.
FileOf(c) == CHOOSE f \in Files : c \in ContentsOf(f)

\* calculate_padding_width of the largest exponent.
Width ==
  LET digits[n \in Nat] == IF n < Radix THEN 1 ELSE 1 + digits[n \div Radix]
  IN  digits[wanted - 1]

VolumeName(v) == [width |-> Width, start |-> v.start, count |-> v.count]

\* The files to write, in order: a single one, or an index without recovery blocks and
\* the volumes.
Outputs ==
  IF options.scheme = "Single"
    THEN <<[name |-> Index, start |-> 0, count |-> wanted]>>
    ELSE <<[name |-> Index, start |-> 0, count |-> 0]>>
           \o [i \in 1 .. Len(volumes) |->
                 [name |-> VolumeName(volumes[i]), start |-> volumes[i].start,
                  count |-> volumes[i].count]]

\* Mutant: the exponents begin at zero in every volume.
RestartedPackets(out) ==
  <<CreatorPacket(SetId), MainPacket(SetId)>>
    \o [i \in Entries |-> FileDescPacket(SetId, meta[i])]
    \o [i \in Entries |-> IfscPacket(SetId, meta[i].id, read[i])]
    \o [k \in 1 .. out.count |-> RecoverySlice(SetId, k - 1, Encoded)]

\* The packets of a file: each holds all that is known of the set but for the recovery
\* blocks of the others.
PacketsFor(out) ==
  <<CreatorPacket(SetId), MainPacket(SetId)>>
    \o [i \in Entries |-> FileDescPacket(SetId, meta[i])]
    \o [i \in Entries |-> IfscPacket(SetId, meta[i].id, read[i])]
    \o [k \in 1 .. out.count |-> RecoverySlice(SetId, out.start + k - 1, Encoded)]

NamesWritten == {Outputs[i].name : i \in 1 .. Len(Outputs)}

NoOptions == [size |-> 0, percent |-> 0, scheme |-> "Single"]

CreatorInit ==
  /\ source = Originals /\ blurred = FALSE
  /\ creations = 0 /\ creating = "idle" /\ created = "none"
  /\ options = NoOptions /\ hashed = <<>> /\ meta = <<>> /\ size = 0 /\ wanted = 0
  /\ read = <<>> /\ volumes = <<>> /\ next = 0 /\ current = 0 /\ target = 1 /\ writing = 0
  /\ opened = FALSE

-----------------------------------------------------------------------------
Begin ==
  /\ creating = "idle" /\ creations < MaxCreations
  /\ \E o \in Options : options' = o
  /\ creations' = creations + 1 /\ creating' = "hash" /\ created' = "none"
  /\ hashed' = <<>> /\ meta' = <<>> /\ size' = 0 /\ wanted' = 0 /\ read' = <<>>
  /\ volumes' = <<>> /\ next' = 0 /\ current' = 0 /\ target' = 1 /\ writing' = 0 /\ opened' = FALSE
  /\ UNCHANGED <<source, blurred, dir, mishaps>>

\* compute_file_hashes_parallel: one task per file, in any order.
HashFile(f) ==
  /\ creating = "hash" /\ f \notin DOMAIN hashed
  /\ hashed' = With(hashed, f, source[f])
  /\ UNCHANGED <<source, blurred, creations, creating, created, options, meta, size, wanted,
                 read, splitVars, writing, opened, dir, mishaps>>

\* The call returns.
Return(result) == creating' = "idle" /\ created' = result

\* The number of recovery blocks for so many data blocks: a share of the bytes, rounded up.
RecoveryCount(blocks, s, percent) == CeilDiv((blocks * s * percent) \div 100, s)

\* Sort, choose the block size, count the blocks and hold the counts against the limit.
Plan ==
  /\ creating = "hash" /\ DOMAIN hashed = Files
  /\ meta' = InIdOrder({hashed[f] : f \in Files})
  /\ size' = IF options.size # 0 THEN options.size
             ELSE CalculateBlockSize(SumOf([i \in 1 .. Len(meta') |-> meta'[i].len]))
  /\ read' = [i \in 1 .. Len(meta') |-> <<>>]
  /\ LET blocks == SumOf([i \in 1 .. Len(meta') |-> BlocksOf(meta'[i], size')])
         extra  == RecoveryCount(blocks, size', options.percent)
     IN  /\ wanted' = extra
         /\ IF /\ size' # 0
               /\ {blocks, extra} \subseteq 0 .. MaxBlocks /\ blocks + extra =< MaxBlocks
              THEN creating' = "encode" /\ created' = created
              ELSE Return("error")
  /\ UNCHANGED <<source, blurred, creations, options, hashed, splitVars, writing, opened, dir, mishaps>>

\* The file is open again and the next block is read from it, hashed and encoded; the
\* length is that of the hash pass, and a file that has become too short ends the call.
ReadBlock ==
  LET i == Reading
      j == Len(read[i])
      c == source[FileOf(meta[i])]
  IN  /\ creating = "encode" /\ Unread # {}
      /\ IF c.len >= Smaller((j + 1) * size, meta[i].len)
           THEN /\ read' = [read EXCEPT ![i] = Append(@, Block(c, size, j))]
                /\ UNCHANGED <<creating, created>>
           ELSE Return("error") /\ UNCHANGED read
      /\ UNCHANGED <<source, blurred, creations, planVars, splitVars, writing, opened, dir, mishaps>>

Finalize ==
  /\ creating = "encode" /\ Unread = {}
  /\ creating' = "split"
  /\ UNCHANGED <<source, blurred, creations, created, planVars, read, splitVars, writing, opened, dir,
                 mishaps>>

-----------------------------------------------------------------------------
(***************************************************************************)
(* split_into_volumes                                                      *)
(***************************************************************************)
SplitUnchanged ==
  UNCHANGED <<source, blurred, creations, planVars, read, opened, dir, mishaps>>

\* Mutant: the start is one too low.
VolumeFromBefore(end, count) == [start |-> end - count - 1, count |-> count]

\* The volume that ends with the blocks placed so far.
VolumeTo(end, count) == [start |-> end - count, count |-> count]

\* The loop of the exponential scheme: place one block, and close the volume when it has
\* as many as it should.
PlaceBlock ==
  /\ creating = "split" /\ options.scheme = "Exponential" /\ next < wanted
  /\ next' = next + 1
  /\ IF current + 1 >= target
       THEN /\ volumes' = Append(volumes, VolumeTo(next + 1, current + 1))
            /\ current' = 0
            /\ target' = Smaller(2 * target, VolumeCap)
       ELSE current' = current + 1 /\ UNCHANGED <<volumes, target>>
  /\ UNCHANGED <<creating, created, writing>> /\ SplitUnchanged

\* Mutant: the blocks left when the loop ends get no volume.
VolumesWithoutRest == volumes

\* The volumes with what is left when the loop ends.
VolumesWithRest ==
  IF current = 0 THEN volumes ELSE Append(volumes, VolumeTo(next, current))

FinishExponential ==
  /\ creating = "split" /\ options.scheme = "Exponential" /\ next = wanted
  /\ volumes' = VolumesWithRest
  /\ creating' = "write" /\ writing' = 1
  /\ UNCHANGED <<created, next, current, target>> /\ SplitUnchanged

\* One volume with all blocks takes the output path; without any recovery block there is
\* no volume to take it, and volumes[0] is out of bounds.
FinishSingle ==
  /\ creating = "split" /\ options.scheme = "Single"
  /\ IF wanted = 0
       THEN Return("panic") /\ UNCHANGED <<volumes, next, writing>>
       ELSE /\ volumes' = <<[start |-> 0, count |-> wanted]>> /\ next' = wanted
            /\ creating' = "write" /\ writing' = 1 /\ UNCHANGED created
  /\ UNCHANGED <<current, target>> /\ SplitUnchanged

-----------------------------------------------------------------------------
(***************************************************************************)
(* Writing the files                                                       *)
(***************************************************************************)
WriteUnchanged == UNCHANGED <<source, blurred, creations, planVars, read, splitVars, mishaps>>

Out == Outputs[writing]

\* File::create: an older file of that name is cut to nothing.
OpenFile ==
  /\ creating = "write" /\ ~opened
  /\ Put(Out.name, <<>>) /\ opened' = TRUE
  /\ UNCHANGED <<creating, created, writing>> /\ WriteUnchanged

Written   == Len(dir[Out.name])
NextPacket == PacketsFor(Out)[Written + 1]

WritePacket ==
  /\ creating = "write" /\ opened /\ Written < Len(PacketsFor(Out))
  /\ Put(Out.name, Append(dir[Out.name], NextPacket))
  /\ UNCHANGED <<creating, created, writing, opened>> /\ WriteUnchanged

\* The file is complete: on to the next, or the call returns the names.
CloseFile ==
  /\ creating = "write" /\ opened /\ Written = Len(PacketsFor(Out))
  /\ opened' = FALSE /\ writing' = writing + 1
  /\ IF writing = Len(Outputs) THEN Return("ok") ELSE UNCHANGED <<creating, created>>
  /\ UNCHANGED dir /\ WriteUnchanged

-----------------------------------------------------------------------------
(***************************************************************************)
(* The environment                                                         *)
(***************************************************************************)

\* An I/O operation fails and the call returns an error, or the process is killed.  The
\* packet that was being written may be there in part.
Interrupt ==
  /\ creating # "idle" /\ mishaps < MaxMishaps /\ mishaps' = mishaps + 1
  /\ Return("interrupted") /\ opened' = FALSE
  /\ \/ UNCHANGED dir
     \/ /\ opened /\ Written < Len(PacketsFor(Out))
        /\ Put(Out.name, Append(dir[Out.name], [NextPacket EXCEPT !.harm = "cut"]))
  /\ UNCHANGED <<source, blurred, creations, planVars, read, splitVars, writing>>

\* Somebody replaces the bytes of an input file, each file once.  The sets of before and
\* after can be told apart unless the id stays, or a call has hashed the file already and
\* is still to read it.
Edit(f) ==
  /\ source[f] = Originals[f]
  /\ \E c \in Edits[f] :
       /\ source' = [source EXCEPT ![f] = c]
       /\ blurred' = (blurred \/ c.id = source[f].id
                               \/ (creating \in {"hash", "encode"} /\ f \in DOMAIN hashed))
  /\ UNCHANGED <<creations, creating, created, planVars, read, splitVars, writing, opened, dir,
                 mishaps>>

CreatorNext ==
  \/ Begin \/ Plan \/ ReadBlock \/ Finalize
  \/ PlaceBlock \/ FinishExponential \/ FinishSingle
  \/ OpenFile \/ WritePacket \/ CloseFile
  \/ \E f \in Files : HashFile(f)
=============================================================================
