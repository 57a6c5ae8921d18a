----------------------------- MODULE RecordCodec ----------------------------
(***************************************************************************)
(* The bytes of a record (crate frame-session): its header of ULEB128      *)
(* numbers and the reader that takes only the shortest form of a number.   *)
(*                                                                         *)
(* A byte is a number below 2 * Group: Group, 128 in the code, is its      *)
(* continuation bit.  U64 and U32 are the ranges of the two widths; as in  *)
(* the code, the last group of the longest U64 has fewer bits than a       *)
(* group.                                                                  *)
(***************************************************************************)
EXTENDS Naturals, Sequences, SequencesExt, FiniteSetsExt

CONSTANTS
  Group,      \* values of one group of a varint: 2^7
  U64, U32,   \* number of values of the two widths
  Types,      \* number of record types: 8
  Bad         \* the answer of a decoder that refuses

\* Half a group is the quarter of a byte that is left for each length of a QUIC varint.
ASSUME CodecAssumption ==
  /\ Group \in Nat /\ Group > 1 /\ Group = 2 * (Group \div 2)
  /\ U64 \in Nat /\ U32 \in 1 .. U64
  /\ Types \in Nat /\ Types < 2 * Group

Radix == 2 * Group
Byte == 0 .. Radix - 1

WireRecords ==
  [kind : 1 .. Types, seq : 0 .. U64 - 1, stream_id : 0 .. U32 - 1, flags : Byte,
   ciphertext : Seq(Byte)]

\* A refusal is nothing a decoder could return otherwise.
ASSUME BadAssumption ==
  /\ Bad \notin [val : Nat, next : Nat] /\ Bad \notin WireRecords
  /\ Bad \notin [val : Nat, used : Nat] /\ Bad \notin Seq(Byte)

\* write_varint: the lowest group, marked while there are more, then the others.
Groups[v \in 0 .. U64 - 1] ==
  IF v < Group THEN <<v>> ELSE <<Group + (v % Group)>> \o Groups[v \div Group]

WriteVarint(v) == Groups[v]
VarintLen(v) == Len(WriteVarint(v))

\* Groups a U64 takes at most; the reader refuses one more (shift >= 64).
MaxGroups == VarintLen(U64 - 1)

\* top[n] is the number the n + 1 highest of the groups up to last stand for.
GroupsTop(bytes, last) ==
  LET top[n \in 0 .. last - 1] ==
        (bytes[last - n] % Group) + (IF n = 0 THEN 0 ELSE Group * top[n - 1]) IN
  top

\* The number of the groups from pos to last; what is above the width is shifted out.
GroupsValue(bytes, pos, last) == GroupsTop(bytes, last)[last - pos] % U64

\* A form with a last group of no significant bit.
Overlong(bytes, pos, last) == last > pos /\ bytes[last] = 0

\* read_varint at pos: the value, and where the next field starts.
ReadVarint(bytes, pos) ==
  LET ends == {i \in pos .. Len(bytes) : bytes[i] < Group}
      last == Min(ends) IN
  IF ends = {} \/ last - pos >= MaxGroups \/ Overlong(bytes, pos, last) THEN Bad
  ELSE [val |-> GroupsValue(bytes, pos, last), next |-> last + 1]

-----------------------------------------------------------------------------
\* Mutated form of HeaderBytes: the stream comes before the seq.
HeaderSwapped(rec) ==
  <<rec.kind>> \o WriteVarint(rec.stream_id) \o WriteVarint(rec.seq) \o <<rec.flags>>
    \o WriteVarint(Len(rec.ciphertext))

HeaderBytes(rec) ==
  <<rec.kind>> \o WriteVarint(rec.seq) \o WriteVarint(rec.stream_id) \o <<rec.flags>>
    \o WriteVarint(Len(rec.ciphertext))

\* The header without its last field.
AadBytes(rec) ==
  SubSeq(HeaderBytes(rec), 1, Len(HeaderBytes(rec)) - VarintLen(Len(rec.ciphertext)))

Encode(rec) == HeaderBytes(rec) \o rec.ciphertext

\* The ciphertext ends where the bytes end.
EndsThere(bytes, len) == len.next + len.val - 1 = Len(bytes)

\* Record::decode.
Decode(bytes) ==
  LET seq == ReadVarint(bytes, 2)
      stream == ReadVarint(bytes, seq.next)
      len == ReadVarint(bytes, stream.next + 1)
      wellFormed ==
        /\ bytes # <<>> /\ bytes[1] \in 1 .. Types
        /\ seq # Bad /\ stream # Bad /\ stream.val < U32
        /\ len # Bad /\ EndsThere(bytes, len) IN
  IF wellFormed
  THEN [kind |-> bytes[1], seq |-> seq.val, stream_id |-> stream.val,
        flags |-> bytes[stream.next], ciphertext |-> SubSeq(bytes, len.next, Len(bytes))]
  ELSE Bad
=============================================================================
