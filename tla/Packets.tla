------------------------------ MODULE Packets ------------------------------
(***************************************************************************)
(* A recovery set on disk: the input files, the packets that src/writer.rs *)
(* makes of them, and the damage a packet can have.                        *)
(*                                                                         *)
(* A content of a file is [id, len, text]: text stands for the bytes, len  *)
(* is their number and id the File ID, a hash of the first 16 KiB, the     *)
(* length and the name; two contents of one file that differ only further  *)
(* on share their id.  Ids are numbers, in the order of cmp_file_id_par2.  *)
(* A hash is what it is taken of.                                          *)
(***************************************************************************)
EXTENDS Orders, SequencesExt, TLC

CONSTANTS
  Inputs,     \* the input files, all of one directory, in the order in which they are given
  Originals,  \* [Files -> contents]: their bytes to begin with
  Edits,      \* [Files -> sets of contents]: what others may replace them by
  MaxMishaps  \* bound: I/O failures, kills and damages in all

Files == ToSet(Inputs)

ContentsOf(f) == {Originals[f]} \cup Edits[f]
AllContents   == UNION {ContentsOf(f) : f \in Files}

ASSUME ContentAssumption ==
  /\ MaxMishaps \in Nat /\ Inputs \in Seq(Files) /\ IsInjective(Inputs)
  /\ Originals \in [Files -> AllContents]
  /\ \A c \in AllContents : c.id \in Nat /\ c.len \in Nat
  /\ \A c, d \in AllContents : c.id = d.id => c.len = d.len
  /\ \A f, g \in Files : \A c \in ContentsOf(f), d \in ContentsOf(g) :
       f # g => c.id # d.id

VARIABLES
  dir,     \* the .par2 files of the directory: [names -> sequences of packets]
  mishaps  \* the number of failures, kills and damages so far

CeilDiv(a, b) == (a + b - 1) \div b

BlocksOf(c, size) == CeilDiv(c.len, size)

SumOf(counts) == FoldSeq(LAMBDA n, sum : n + sum, 0, counts)

\* Block j of a content, zeros past its end included.
Block(c, size, j) == [text |-> c.text, size |-> size, at |-> j]

BlockSeq(c, size) == [j \in 1 .. BlocksOf(c, size) |-> Block(c, size, j - 1)]

-----------------------------------------------------------------------------
(***************************************************************************)
(* Packets.  The Main packet's body is the block size and the file ids,    *)
(* and the set id in every header is the hash of that body.                *)
(***************************************************************************)
SetIdOf(size, ids) == [size |-> size, ids |-> ids]

NoSet   == SetIdOf(0, <<>>)        \* sixteen zeros: no header seen yet
Garbled == SetIdOf(0, <<0>>)       \* what a damaged header says: no set's id

Packet(kind, set, body) == [kind |-> kind, set |-> set, body |-> body, harm |-> "none"]

CreatorPacket(set)           == Packet("Creator", set, <<>>)
MainPacket(set)              == Packet("Main", set, set)
FileDescPacket(set, c)       == Packet("FileDesc", set, c)
IfscPacket(set, id, sums)    == Packet("IFSC", set, [id |-> id, sums |-> sums])
RecoverySlice(set, exp, of)  == Packet("RecoverySlice", set, [exp |-> exp, of |-> of])

\* What damage can do to a packet that is there.
\*   magic    : the magic is gone, and with it the packet
\*   length   : the length field is implausible
\*   overlong : the length field takes in the next packet
\*   set      : the set id in the header is another
\*   body     : the body or the hash in the header is wrong
Harms == {"magic", "length", "overlong", "set", "body"}

\* An interrupted write leaves a header and part of the body at the end of the file:
\* harm "cut".
HasMagic(p)  == p.harm # "magic"
HeaderSet(p) == IF p.harm = "set" THEN Garbled ELSE p.set

\* The length in the header of slot i is at least a header and within the file.
PlausibleLength(packets, i) ==
  /\ packets[i].harm \notin {"length", "cut"}
  /\ packets[i].harm = "overlong" => i < Len(packets)

\* The slot the scan goes to from slot i when it believes the length it finds there.
After(packets, i) == IF packets[i].harm = "overlong" THEN i + 2 ELSE i + 1

\* The recovery data read from a recovery slice.
DataOf(p) == IF p.harm = "body" THEN <<>> ELSE p.body.of

-----------------------------------------------------------------------------
(***************************************************************************)
(* Names: base.par2, and base.volSTART+COUNT.par2 with numbers of a width. *)
(***************************************************************************)
Index      == [width |-> 0, start |-> 0, count |-> 0]
Obfuscated == [width |-> 0, start |-> 0, count |-> 1]   \* a name given by somebody else

\* A map with an entry put in, over one that was there.
With(map, key, value) ==
  [k \in DOMAIN map \cup {key} |-> IF k = key THEN value ELSE map[k]]

Put(name, packets) == dir' = With(dir, name, packets)
=============================================================================
