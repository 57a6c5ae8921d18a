----------------------------- MODULE CoverFrames ----------------------------
(***************************************************************************)
(* The frames the covers put around the bytes of a record: the length      *)
(* prefix of transport-mux, the DATAGRAM capsule of cover-masque, and the  *)
(* AEAD frames of cover-ss2022 and cover-reality.                          *)
(*                                                                         *)
(* The four-byte length and the sealed part of a frame are fields of a     *)
(* record: the AEAD opens under the key and the associated data it was     *)
(* sealed with, and its nonce and tag take Envelope bytes.  The numbers of *)
(* a capsule are QUIC varints over the same bytes as in RecordCodec: a     *)
(* quarter of the values of the first byte is left for each length.        *)
(***************************************************************************)
EXTENDS RecordCodec

CONSTANTS
  MaxUdp,     \* MAX_UDP_PAYLOAD
  Envelope    \* NONCE_LEN + TAG_LEN

\* decode_frame and encode_frame of transport-mux.
EncodeFrame(rec) == [len |-> Len(Encode(rec)), body |-> Encode(rec)]
DecodeFrame(f) == IF f.len # Len(f.body) THEN Bad ELSE Decode(f.body)

-----------------------------------------------------------------------------
\* The four lengths of a QUIC varint, by the two top bits of its first byte.
Form == <<1, 2, 4, 8>>
Quarter == Group \div 2

\* How many numbers n bytes hold.
Range62[n \in 1 .. 8] == IF n = 1 THEN Quarter ELSE Radix * Range62[n - 1]

\* A datagram fits into a capsule.
ASSUME FrameAssumption == MaxUdp \in Nat /\ Envelope \in Nat /\ MaxUdp + 1 < Range62[8]

\* What is left of a number when its n lowest bytes are gone, of at most eight.
Drop(v, n) ==
  LET left[i \in 0 .. 7] == IF i = 0 THEN v ELSE left[i - 1] \div Radix IN left[n]

\* The numbers in the first 1, 2, .. n bytes, the highest first and without its two top bits.
Values(bytes, n) ==
  LET read[i \in 0 .. n - 1] ==
        IF i = 0 THEN bytes[1] % Quarter ELSE Radix * read[i - 1] + bytes[i + 1] IN
  read

Value(bytes, n) == Values(bytes, n)[n - 1]

EncodeQuicVarint(v) ==
  LET k == CHOOSE i \in 1 .. 4 : v < Range62[Form[i]] /\ \A j \in 1 .. i - 1 : v >= Range62[Form[j]]
      n == Form[k] IN
  [i \in 1 .. n |-> IF i = 1 THEN (k - 1) * Quarter + Drop(v, n - 1) ELSE Drop(v, n - i) % Radix]

\* Mutated form of Shortest: any length will do.
AnyLength(k, v) == k \in 1 .. 4

\* A form longer than one byte is only for a value the next shorter one does not hold.
Shortest(k, v) == k = 1 \/ v >= Range62[Form[k - 1]]

\* decode_varint.
DecodeQuicVarint(bytes) ==
  LET k == (bytes[1] \div Quarter) + 1
      n == Form[k] IN
  IF bytes = <<>> \/ Len(bytes) < n THEN Bad
  ELSE IF Shortest(k, Value(bytes, n)) THEN [val |-> Value(bytes, n), used |-> n]
  ELSE Bad

From(bytes, n) == SubSeq(bytes, n + 1, Len(bytes))

\* Mutated form of EncodeUdp: no Context ID.
EncodeUdpBare(udp) == udp

\* Context ID 0, then the UDP payload.
EncodeUdp(udp) == EncodeQuicVarint(0) \o udp

DecodeUdp(payload) ==
  LET ctx == DecodeQuicVarint(payload) IN
  IF ctx = Bad \/ ctx.val # 0 \/ Len(payload) - ctx.used > MaxUdp THEN Bad
  ELSE From(payload, ctx.used)

\* DATAGRAM capsule: type 0, the length of the value, the value.
EncodeCapsule(udp) ==
  EncodeQuicVarint(0) \o EncodeQuicVarint(Len(EncodeUdp(udp))) \o EncodeUdp(udp)

DecodeCapsule(bytes) ==
  LET type == DecodeQuicVarint(bytes)
      len == DecodeQuicVarint(From(bytes, type.used))
      value == From(bytes, type.used + len.used) IN
  IF type = Bad \/ type.val # 0 \/ len = Bad \/ len.val # Len(value) THEN Bad
  ELSE DecodeUdp(value)

DecodeMasqueFrame(bytes) ==
  IF DecodeCapsule(bytes) = Bad THEN Bad ELSE Decode(DecodeCapsule(bytes))

-----------------------------------------------------------------------------
\* The AEAD frame both covers send; its associated data is the declared length.
SealFrame(key, plain) ==
  LET declared == Envelope + Len(plain) IN
  [declared |-> declared, key |-> key, aad |-> declared, plain |-> plain]

\* What the AEAD gives back under a key; nothing of a frame with another length.
OpenFrame(key, f) ==
  IF f.declared = Envelope + Len(f.plain) /\ f.key = key /\ f.aad = f.declared THEN f.plain ELSE Bad

EncodeRealityFrame(key, rec) == SealFrame(key, Encode(rec))
DecodeRealityFrame(key, f) == IF OpenFrame(key, f) = Bad THEN Bad ELSE Decode(OpenFrame(key, f))

\* encode_cover_frame: the record, then the padding.
EncodeCoverFrame(key, rec, padding) == SealFrame(key, Encode(rec) \o padding)

\* Where the plaintext can be cut so that a record is left.
Cuts(plain) == {n \in 0 .. Len(plain) : Decode(SubSeq(plain, 1, n)) # Bad}

\* decode_cover_frame: the longest cut.
DecodeCoverFrame(key, f) ==
  LET plain == OpenFrame(key, f) IN
  IF plain = Bad \/ Cuts(plain) = {} THEN Bad ELSE Decode(SubSeq(plain, 1, Max(Cuts(plain))))
=============================================================================
