--------------------------- MODULE RotationProofs --------------------------
(***************************************************************************)
(* Proofs about Rotation, for every window, any number of records and any  *)
(* set of client keys, with a budget of at most two attempts.  What N2     *)
(* delivers rests on one fact: its mirror opens a record only if both have *)
(* the key of the same attempt, the last one.  A mirror may be replaced,   *)
(* and the new one has an empty window; the budget sees to it that what    *)
(* replaces a mirror the client continued with has the key of the other    *)
(* attempt, so that nothing opens there a second time.                     *)
(***************************************************************************)
EXTENDS Rotation, DedupWindowProofs, TLAPS

Fields == {"chain_base", "next_seq", "gen_bases", "streams", "dedup", "overlap", "ack", "nak"}

\* The base of a session after a rotation, and the bases from before all of them.
NewBase(eph) == <<Rotated(eph)>>
IsOld(base) == \A eph \in Ephs : base # NewBase(eph)

\* N2 accepted the k-th request.
AcceptedTo(k) == \E a \in replies : a.to = k /\ a.kind = "Accept"

\* The client seals under old bases until it takes the key of its last attempt.
ClientInv ==
  /\ DOMAIN client = Fields /\ client.next_seq \in 0 .. MaxSeq
  /\ phase \in {"Old", "Overlap", "New"}
  /\ phase # "New" =>
       /\ client.chain_base = <<K>>
       /\ \/ client.gen_bases = <<>>
          \/ client.gen_bases = <<client.gen_bases[1]>> /\ IsOld(client.gen_bases[1].base)
  /\ phase = "New" =>
       /\ client.chain_base = NewBase(resume.eph) /\ client.gen_bases = <<>>
       /\ rotatedAt \in Nat /\ rotatedAt <= client.next_seq

\* What was sent is below the client's counter; on the channel to N2 the seq tells
\* the copies of the overlap from the records of the rotated session.
WireInv ==
  /\ \A r \in net1 :
       r.seq \in Seqs /\ r.seq < client.next_seq /\ (phase = "New" => r.seq < rotatedAt)
  /\ \A r \in net2 :
       /\ r.seq \in Seqs /\ r.seq < client.next_seq /\ r.kind = "Data" /\ r.stream = 0
       /\ IF phase = "New" /\ r.seq >= rotatedAt
          THEN r.base = NewBase(resume.eph) ELSE IsOld(r.base)

RequestSet == [nonce : Nat, eph : Ephs, last_seq : Seqs]

\* Every attempt has a request and a key of its own, and all sign one last_seq.
RequestsInv ==
  /\ resume.attempts \in 0 .. MaxAttempts /\ resume.last_seq \in Seqs
  /\ DOMAIN resume = {"attempts", "eph", "last_seq"}
  /\ requests \in Seq(RequestSet)
  /\ Len(requests) = resume.attempts
  /\ \A i \in DOMAIN requests : requests[i].nonce = i /\ requests[i].last_seq = resume.last_seq
  /\ \A i, j \in DOMAIN requests : requests[i].eph = requests[j].eph => i = j
  /\ resume.attempts > 0 => resume.eph = requests[resume.attempts].eph
  /\ waiting => phase = "Overlap"
  /\ waiting \/ phase = "New" => resume.attempts > 0

\* What N2 accepted it will not accept again: it is the transcript the entry keeps,
\* or the budget is spent.
EntryInv ==
  /\ arrived \in 0 .. Len(requests)
  /\ entry.attempts \in Nat
  /\ entry.attempts = 0 => entry = Consumed!NoEntry /\ node2 = None
  /\ \A a \in replies :
       /\ a.to \in 1 .. arrived
       /\ a.kind = "Accept" =>
            /\ entry.attempts > 0
            /\ entry.last_transcript = requests[a.to] \/ entry.attempts >= MaxAttempts
  /\ phase = "New" => AcceptedTo(resume.attempts)

\* A window rebuilt from a signed last_seq.
Rebuilt(w) ==
  /\ w \in Window /\ w.restored
  /\ w.lo = SlideLo(w.floor, w.hi) /\ w.floor <= w.hi /\ w.hi <= Limit

\* N2's mirror has the key of an attempt, of the last one if N2 heard in order.
MirrorInv ==
  /\ entry.attempts > 0 =>
       /\ DOMAIN node2 = Fields /\ node2.gen_bases = <<>> /\ node2.streams = <<Flow>>
       /\ Rebuilt(node2.dedup)
       /\ \E eph \in Ephs : node2.chain_base = NewBase(eph)
  /\ ~overtaken /\ resume.attempts > 0 /\ AcceptedTo(resume.attempts)
       => node2.chain_base = NewBase(requests[resume.attempts].eph)

\* N1's window was never rebuilt and marks what N1 delivered.
OldNodeInv ==
  /\ DOMAIN node1 = Fields
  /\ node1.dedup \in Window /\ ~node1.dedup.restored
  /\ node1.dedup.lo = SlideLo(node1.dedup.floor, node1.dedup.hi)
  /\ node1.dedup.hi <= Limit
  /\ \A q \in Seqs : delivered["N1"][q] > 0 => q <= node1.dedup.hi
  /\ \A q \in Seqs : q >= node1.dedup.lo =>
       (delivered["N1"][q] > 0 <=> q - node1.dedup.lo \in node1.dedup.seen)

\* What N1 delivered came before the rotation, what N2 delivered after it; and a
\* mirror with the client's key has its window above all of that.
DeliveredInv ==
  /\ delivered \in [Nodes -> [Seqs -> Nat]]
  /\ \A n \in Nodes, q \in Seqs : delivered[n][q] <= 1
  /\ \A q \in Seqs : delivered["N1"][q] > 0 =>
       q < client.next_seq /\ (phase = "New" => q < rotatedAt)
  /\ \A q \in Seqs : delivered["N2"][q] > 0 =>
       /\ phase = "New" /\ q >= rotatedAt
       /\ node2.chain_base = NewBase(resume.eph) => q <= node2.dedup.hi

RotationInv ==
  /\ ClientInv
  /\ WireInv
  /\ RequestsInv
  /\ EntryInv
  /\ MirrorInv
  /\ OldNodeInv
  /\ DeliveredInv

-----------------------------------------------------------------------------
\* The bound keeps every seq below the limit.
LEMMA SeqsAreNear ==
  /\ MaxSeq \in Nat /\ MaxSeq > 0 /\ Limit \in Nat /\ U64Max \in Nat /\ Limit < U64Max
  /\ \A q \in Seqs : q \in Nat /\ q <= Limit /\ q < U64Max /\ q < MaxSeq
  BY RotationAssumption, LimitAssumption, WindowAssumption DEF Seqs

\* Keys of two attempts differ, and both from what K_session derives.
LEMMA BasesDiffer ==
  /\ \A e, f \in Ephs : NewBase(e) = NewBase(f) => e = f
  /\ IsOld(<<K>>)
  /\ \A nonce : IsOld(Generation(<<K>>, nonce))
<1>1. ASSUME NEW e, NEW f, NewBase(e) = NewBase(f) PROVE e = f
  <2>1. Rotated(e) = Rotated(f)
    BY <1>1 DEF NewBase
  <2> QED BY <2>1 DEF Rotated
<1>2. IsOld(<<K>>)
  BY RotationAssumption DEF IsOld, NewBase, Rotated
<1>3. ASSUME NEW nonce PROVE IsOld(Generation(<<K>>, nonce))
  <2>1. <<K>> \in Seq({K, nonce})
    OBVIOUS
  <2>2. Len(Generation(<<K>>, nonce)) = 2
    BY <2>1 DEF Generation
  <2>3. ASSUME NEW eph \in Ephs PROVE Generation(<<K>>, nonce) # NewBase(eph)
    <3>1. Len(NewBase(eph)) = 1
      BY DEF NewBase
    <3> QED BY <2>2, <3>1
  <2> QED BY <2>3 DEF IsOld
<1> QED BY <1>1, <1>2, <1>3

\* The larger of two numbers, without CHOOSE.
LEMMA MaxOfTwo ==
  ASSUME NEW a \in Nat, NEW b \in Nat
  PROVE  Max({a, b}) \in {a, b} /\ Max({a, b}) >= a /\ Max({a, b}) >= b
<1>1. \E x \in {a, b} : \A y \in {a, b} : x >= y
  <2>1. CASE a >= b
    BY <2>1
  <2>2. CASE b >= a
    BY <2>2
  <2> QED BY <2>1, <2>2
<1>2. Max({a, b}) \in {a, b} /\ \A y \in {a, b} : Max({a, b}) >= y
  BY <1>1 DEF Max
<1> QED BY <1>2

\* Without generations every seq has the session's base.
LEMMA BaseWithoutGenerations ==
  ASSUME NEW s, s.gen_bases = <<>>, NEW seq
  PROVE  BaseFor(s, seq) = s.chain_base
<1>1. DOMAIN s.gen_bases = {}
  OBVIOUS
<1> QED BY <1>1 DEF BaseFor

\* Before the rotation the client seals under an old base.
LEMMA SealsUnderOldBase ==
  ASSUME ClientInv, phase # "New", NEW seq
  PROVE  IsOld(BaseFor(client, seq))
<1>1. CASE client.gen_bases = <<>>
  BY <1>1, BaseWithoutGenerations, BasesDiffer DEF ClientInv
<1>2. CASE client.gen_bases # <<>>
  <2> DEFINE g == client.gen_bases[1]
             older == {i \in DOMAIN client.gen_bases : seq > client.gen_bases[i].at}
  <2>1. client.gen_bases = <<g>> /\ IsOld(g.base) /\ client.chain_base = <<K>>
    BY <1>2 DEF ClientInv
  <2>2. DOMAIN client.gen_bases = {1}
    <3> HIDE DEF g
    <3> QED BY <2>1
  <2>3. older = {} \/ older = {1}
    BY <2>2
  <2>4. Max({1}) = 1
    BY MaxOfTwo
  <2>5. BaseFor(client, seq) \in {client.chain_base, g.base}
    BY <2>3, <2>4 DEF BaseFor
  <2> QED BY <2>1, <2>5, BasesDiffer
<1> QED BY <1>1, <1>2

\* The first state.
LEMMA InitRotationInv == Init => RotationInv
<1> SUFFICES ASSUME Init PROVE RotationInv
  OBVIOUS
<1>1. /\ DOMAIN client = Fields /\ client.next_seq = 0 /\ client.chain_base = <<K>>
      /\ client.gen_bases = <<>> /\ phase = "Old"
  BY DEF Init, OpenStream, NewSession, Fields
<1>2. SlideLo(0, 0) = 0
  BY WindowAssumption DEF SlideLo, SatInc, SatSub
<1>3. /\ DOMAIN node1 = Fields
      /\ node1.dedup = [floor |-> 0, lo |-> 0, hi |-> 0, seen |-> {}, anomalies |-> 0,
                        restored |-> FALSE]
  BY <1>2 DEF Init, OpenStream, NewSession, NewWindow, Fields
<1>4. /\ node1.dedup \in Window /\ node1.dedup.restored = FALSE
      /\ node1.dedup.floor = 0 /\ node1.dedup.lo = 0 /\ node1.dedup.hi = 0
      /\ node1.dedup.seen = {}
  BY <1>3 DEF Window
<1>5. /\ delivered \in [Nodes -> [Seqs -> Nat]]
      /\ \A n \in Nodes, q \in Seqs : delivered[n][q] = 0
  BY DEF Init
<1>6. /\ resume = [attempts |-> 0, eph |-> None, last_seq |-> 0] /\ requests = <<>>
      /\ waiting = FALSE /\ arrived = 0 /\ replies = {} /\ net1 = {} /\ net2 = {} /\ node2 = None
      /\ entry = Consumed!NoEntry
  BY DEF Init, NewRotation
<1>7. ClientInv
  BY <1>1, SeqsAreNear DEF ClientInv
<1>8. WireInv
  BY <1>6 DEF WireInv
<1>9. RequestsInv
  BY <1>1, <1>6, SeqsAreNear, RotationAssumption DEF RequestsInv, Seqs
<1>10. EntryInv
  BY <1>1, <1>6 DEF EntryInv, Consumed!NoEntry
<1>11. MirrorInv
  BY <1>6 DEF MirrorInv, Consumed!NoEntry
<1>12. OldNodeInv
  BY <1>2, <1>3, <1>4, <1>5, SeqsAreNear DEF OldNodeInv, Nodes
<1>13. DeliveredInv
  BY <1>5, SeqsAreNear DEF DeliveredInv, Nodes
<1> QED BY <1>7, <1>8, <1>9, <1>10, <1>11, <1>12, <1>13 DEF RotationInv

\* A step that takes one seq of the client disturbs nothing but client and wire.
LEMMA SendingLeavesTheRest ==
  ASSUME RotationInv, client'.next_seq >= client.next_seq,
         UNCHANGED <<phase, resume, waiting, requests, arrived, replies, entry, node1, node2,
                     delivered, rotatedAt, overtaken>>,
         client'.next_seq \in Nat
  PROVE  RequestsInv' /\ EntryInv' /\ MirrorInv' /\ OldNodeInv' /\ DeliveredInv'
<1>1. RequestsInv' /\ MirrorInv' /\ OldNodeInv'
  BY DEF RotationInv, RequestsInv, MirrorInv, OldNodeInv, AcceptedTo
<1>2. EntryInv'
  BY DEF RotationInv, EntryInv, AcceptedTo
<1>3. DeliveredInv'
  BY SeqsAreNear DEF RotationInv, ClientInv, DeliveredInv
<1> QED BY <1>1, <1>2, <1>3

\* Taking a seq below the bound.
LEMMA SeqTaken ==
  ASSUME ClientInv, client.next_seq < MaxSeq
  PROVE  /\ client.next_seq \in Seqs
         /\ DOMAIN TakeSeq(client) = Fields
         /\ TakeSeq(client).next_seq = client.next_seq + 1
         /\ TakeSeq(client).next_seq \in 0 .. MaxSeq
         /\ TakeSeq(client).chain_base = client.chain_base
         /\ TakeSeq(client).gen_bases = client.gen_bases
<1>1. client.next_seq \in Nat /\ client.next_seq < U64Max /\ client.next_seq \in Seqs
  BY SeqsAreNear DEF ClientInv, Seqs
<1>2. SatInc(client.next_seq) = client.next_seq + 1
  BY <1>1 DEF SatInc
<1>3. /\ DOMAIN TakeSeq(client) = Fields /\ TakeSeq(client).next_seq = SatInc(client.next_seq)
      /\ TakeSeq(client).chain_base = client.chain_base
      /\ TakeSeq(client).gen_bases = client.gen_bases
  BY DEF ClientInv, TakeSeq, Fields
<1> QED BY <1>1, <1>2, <1>3, SeqsAreNear DEF ClientInv

\* A record on a channel, sealed with the counter before it moved.
LEMMA WireGrows ==
  ASSUME RotationInv, NEW r, r.seq = client.next_seq, r.seq \in Seqs,
         client'.next_seq = client.next_seq + 1,
         UNCHANGED <<phase, resume, rotatedAt>>,
         \/ net1' = net1 \union {r} /\ phase # "New"
         \/ net1' = net1,
         \/ /\ net2' = net2 \union {r} /\ r.kind = "Data" /\ r.stream = 0
            /\ IF phase = "New" THEN r.base = NewBase(resume.eph) ELSE IsOld(r.base)
         \/ net2' = net2
  PROVE  WireInv'
<1>1. /\ client.next_seq \in Nat /\ client'.next_seq \in Nat /\ r.seq \in Nat
      /\ phase = "New" => rotatedAt \in Nat /\ rotatedAt <= client.next_seq
  BY SeqsAreNear DEF RotationInv, ClientInv
<1>2. \A x \in net1' :
        x.seq \in Seqs /\ x.seq < client'.next_seq /\ (phase = "New" => x.seq < rotatedAt)
  BY <1>1, SeqsAreNear DEF RotationInv, WireInv
<1>3. ASSUME NEW x \in net2'
      PROVE  /\ x.seq \in Seqs /\ x.seq < client'.next_seq /\ x.kind = "Data" /\ x.stream = 0
             /\ IF phase = "New" /\ x.seq >= rotatedAt
                THEN x.base = NewBase(resume.eph) ELSE IsOld(x.base)
  <2>1. CASE x \in net2
    BY <1>1, <2>1, SeqsAreNear DEF RotationInv, WireInv
  <2>2. CASE x \notin net2
    <3>1. x = r /\ r.kind = "Data" /\ r.stream = 0
      BY <2>2
    <3>2. IF phase = "New" THEN r.base = NewBase(resume.eph) ELSE IsOld(r.base)
      BY <2>2
    <3>3. phase = "New" => r.seq >= rotatedAt
      BY <1>1
    <3>4. r.seq < client'.next_seq
      BY <1>1
    <3> QED BY <3>1, <3>2, <3>3, <3>4
  <2> QED BY <2>1, <2>2
<1>4. UNCHANGED <<phase, resume, rotatedAt>>
  OBVIOUS
<1> QED BY <1>2, <1>3, <1>4 DEF WireInv, IsOld, NewBase

\* emit on the old channel.
LEMMA EmitOldKeeps == RotationInv /\ EmitOld => RotationInv'
<1> SUFFICES ASSUME RotationInv, EmitOld PROVE RotationInv'
  OBVIOUS
<1> DEFINE r == Sealed(client, "Data", 0, None)
<1>1. /\ ClientInv /\ phase = "Old" /\ client.next_seq < MaxSeq /\ client' = TakeSeq(client)
      /\ net1' = net1 \union {r} /\ net2' = net2
      /\ UNCHANGED <<phase, resume, waiting, requests, arrived, replies, entry, node1, node2,
                     delivered, rotatedAt, overtaken>>
  BY DEF EmitOld, RotationInv, AfterSealRecord
<1>2. r.seq = client.next_seq /\ r.seq \in Seqs
  BY <1>1, SeqTaken DEF Sealed
<1> HIDE DEF r
<1>3. client'.next_seq = client.next_seq + 1 /\ client'.next_seq \in Nat /\ client.next_seq \in Nat
  BY <1>1, SeqTaken, SeqsAreNear DEF ClientInv
<1>4. WireInv'
  BY <1>1, <1>2, <1>3, WireGrows
<1>5. ClientInv'
  BY <1>1, SeqTaken DEF ClientInv, IsOld, NewBase
<1> QED BY <1>1, <1>3, <1>4, <1>5, SendingLeavesTheRest DEF RotationInv

\* emit in the overlap: the copy has the record's seq and its base.
LEMMA EmitBothKeeps ==
  ASSUME RotationInv, NEW late \in BOOLEAN, EmitBoth(late)
  PROVE  RotationInv'
<1> DEFINE r == Sealed(client, "Data", 0, None)
           sent == TakeSeq(client)
<1>1. /\ ClientInv /\ phase = "Overlap" /\ client.next_seq < MaxSeq
      /\ client' = AfterDuplicate(sent, late)
      /\ net1' = net1 \union {r} /\ net2' \in {net2 \union {r}, net2}
      /\ UNCHANGED <<phase, resume, waiting, requests, arrived, replies, entry, node1, node2,
                     delivered, rotatedAt, overtaken>>
  BY DEF EmitBoth, RotationInv, AfterSealRecord
<1>2. /\ r.seq = client.next_seq /\ r.kind = "Data" /\ r.stream = 0
      /\ r.base = BaseFor(client, client.next_seq)
  BY DEF Sealed
<1>3. r.seq \in Seqs /\ IsOld(r.base)
  BY <1>1, <1>2, SeqTaken, SealsUnderOldBase
<1>4. /\ DOMAIN sent = Fields /\ sent.next_seq = client.next_seq + 1
      /\ sent.next_seq \in 0 .. MaxSeq /\ sent.chain_base = client.chain_base
      /\ sent.gen_bases = client.gen_bases
  BY <1>1, SeqTaken
<1> HIDE DEF r, sent
<1>5. /\ DOMAIN client' = Fields /\ client'.next_seq = sent.next_seq
      /\ client'.chain_base = sent.chain_base /\ client'.gen_bases = sent.gen_bases
  BY <1>1, <1>4 DEF AfterDuplicate, Fields
<1>6. client'.next_seq = client.next_seq + 1 /\ client'.next_seq \in Nat /\ client.next_seq \in Nat
  BY <1>1, <1>4, <1>5, SeqsAreNear DEF ClientInv
<1>7. WireInv'
  BY <1>1, <1>2, <1>3, <1>6, WireGrows
<1>8. ClientInv'
  BY <1>1, <1>4, <1>5 DEF ClientInv, IsOld, NewBase
<1> QED BY <1>1, <1>6, <1>7, <1>8, SendingLeavesTheRest DEF RotationInv

\* emit_after_rotation: under K_session', above everything sent before.
LEMMA EmitNewKeeps == RotationInv /\ EmitNew => RotationInv'
<1> SUFFICES ASSUME RotationInv, EmitNew PROVE RotationInv'
  OBVIOUS
<1> DEFINE r == Sealed(client, "Data", 0, None)
<1>1. /\ ClientInv /\ phase = "New" /\ client.next_seq < MaxSeq /\ client' = TakeSeq(client)
      /\ net2' = net2 \union {r} /\ net1' = net1
      /\ UNCHANGED <<phase, resume, waiting, requests, arrived, replies, entry, node1, node2,
                     delivered, rotatedAt, overtaken>>
  BY DEF EmitNew, RotationInv, AfterSealRecord
<1>2. /\ r.seq = client.next_seq /\ r.kind = "Data" /\ r.stream = 0
      /\ r.base = BaseFor(client, client.next_seq)
  BY DEF Sealed
<1>3. r.seq \in Seqs /\ r.base = NewBase(resume.eph)
  BY <1>1, <1>2, SeqTaken, BaseWithoutGenerations DEF ClientInv
<1> HIDE DEF r
<1>4. client'.next_seq = client.next_seq + 1 /\ client'.next_seq \in Nat /\ client.next_seq \in Nat
  BY <1>1, SeqTaken, SeqsAreNear DEF ClientInv
<1>5. WireInv'
  BY <1>1, <1>2, <1>3, <1>4, WireGrows
<1>6. ClientInv'
  <2>1. /\ client'.chain_base = NewBase(resume.eph) /\ client'.gen_bases = <<>>
        /\ DOMAIN client' = Fields /\ client'.next_seq \in 0 .. MaxSeq
        /\ rotatedAt \in Nat /\ rotatedAt <= client'.next_seq
    BY <1>1, <1>4, SeqTaken DEF ClientInv
  <2> QED BY <1>1, <2>1 DEF ClientInv, NewBase
<1> QED BY <1>1, <1>4, <1>5, <1>6, SendingLeavesTheRest DEF RotationInv

\* The one generation a session has is older than every rotation.
LEMMA RekeyOldKeeps == RotationInv /\ RekeyOld => RotationInv'
<1> SUFFICES ASSUME RotationInv, RekeyOld PROVE RotationInv'
  OBVIOUS
<1> DEFINE n == client.next_seq
           r == Sealed(client, "Rekey", 0, n)
           g == [at |-> n, base |-> Generation(BaseFor(client, n), n)]
<1>1. /\ ClientInv /\ phase = "Old" /\ n < MaxSeq /\ client.gen_bases = <<>>
      /\ client' = AfterRekey(client, n)
      /\ net1' = net1 \union {r} /\ net2' = net2
      /\ UNCHANGED <<phase, resume, waiting, requests, arrived, replies, entry, node1, node2,
                     delivered, rotatedAt, overtaken>>
  BY DEF RekeyOld, RotationInv
<1>2. r.seq = n /\ r.seq \in Seqs
  BY <1>1, SeqTaken DEF Sealed
<1>3. /\ DOMAIN TakeSeq(client) = Fields /\ TakeSeq(client).next_seq = n + 1
      /\ TakeSeq(client).next_seq \in 0 .. MaxSeq
      /\ TakeSeq(client).chain_base = <<K>> /\ TakeSeq(client).gen_bases = <<>>
  BY <1>1, SeqTaken DEF ClientInv
<1>4. client' = [TakeSeq(client) EXCEPT !.gen_bases = Append(@, g)]
  BY <1>1 DEF AfterRekey, PushGeneration
<1>5. /\ DOMAIN client' = Fields /\ client'.next_seq = n + 1 /\ client'.next_seq \in 0 .. MaxSeq
      /\ client'.chain_base = <<K>> /\ client'.gen_bases = <<g>>
  <2> HIDE DEF g, n
  <2>1. Append(<<>>, g) = <<g>>
    OBVIOUS
  <2> QED BY <1>3, <1>4, <2>1 DEF Fields
<1>6. IsOld(g.base)
  BY <1>1, BaseWithoutGenerations, BasesDiffer DEF ClientInv
<1>7. n \in Nat /\ n + 1 \in Nat
  BY <1>1, SeqsAreNear DEF ClientInv
<1> HIDE DEF r, g
<1>8. WireInv'
  BY <1>1, <1>2, <1>5, WireGrows
<1>9. ClientInv'
  BY <1>1, <1>5, <1>6 DEF ClientInv, IsOld, NewBase
<1> QED BY <1>1, <1>5, <1>7, <1>8, <1>9, SendingLeavesTheRest DEF RotationInv

\* start_overlap, with a coordinator whose client made no request yet.
LEMMA StartOverlapKeeps == RotationInv /\ StartOverlap => RotationInv'
<1> SUFFICES ASSUME RotationInv, StartOverlap PROVE RotationInv'
  OBVIOUS
<1>1. /\ phase = "Old" /\ phase' = "Overlap" /\ resume.attempts = 0
      /\ client' = BeginOverlap(client) /\ resume' = Coordinator(LastSeq(client))
      /\ UNCHANGED <<waiting, requests, arrived, replies, entry, node1, node2, net1, net2,
                     delivered, rotatedAt, overtaken>>
  BY DEF StartOverlap
<1>2. /\ DOMAIN client' = Fields /\ client'.next_seq = client.next_seq
      /\ client'.chain_base = client.chain_base /\ client'.gen_bases = client.gen_bases
  BY <1>1 DEF RotationInv, ClientInv, BeginOverlap, Fields
<1>3. LastSeq(client) \in Seqs
  BY SeqsAreNear DEF RotationInv, ClientInv, LastSeq, SatSub, Seqs
<1>4. resume' = [attempts |-> 0, eph |-> None, last_seq |-> LastSeq(client)]
  BY <1>1 DEF Coordinator, NewRotation
<1>5. ClientInv'
  BY <1>1, <1>2 DEF RotationInv, ClientInv, IsOld, NewBase
<1>6. WireInv'
  BY <1>1, <1>2 DEF RotationInv, WireInv, IsOld, NewBase
<1>7. RequestsInv'
  <2>1. requests = <<>> /\ ~waiting
    BY <1>1 DEF RotationInv, RequestsInv
  <2> QED BY <1>1, <1>3, <1>4, <2>1, RotationAssumption DEF RotationInv, RequestsInv
<1>8. EntryInv'
  BY <1>1, <1>4 DEF RotationInv, RequestsInv, EntryInv
<1>9. MirrorInv'
  BY <1>1, <1>4 DEF RotationInv, MirrorInv
<1>10. OldNodeInv'
  BY <1>1 DEF RotationInv, OldNodeInv
<1>11. DeliveredInv'
  BY <1>1, <1>2 DEF RotationInv, DeliveredInv
<1> QED BY <1>5, <1>6, <1>7, <1>8, <1>9, <1>10, <1>11 DEF RotationInv

\* The next request has a number and a key no other request has.
LEMMA ResumeKeeps ==
  ASSUME RotationInv, NEW eph \in Ephs, Resume(eph)
  PROVE  RotationInv'
<1> DEFINE q == ResumeRequest(eph)
           n == Len(requests)
<1>1. /\ phase = "Overlap" /\ ~waiting /\ resume.attempts < MaxAttempts
      /\ \A i \in DOMAIN requests : requests[i].eph # eph
      /\ resume' = [resume EXCEPT !.attempts = @ + 1, !.eph = eph]
      /\ requests' = Append(requests, q) /\ waiting' = TRUE
      /\ UNCHANGED <<client, phase, arrived, replies, entry, node1, node2, net1, net2,
                     delivered, rotatedAt, overtaken>>
  BY DEF Resume
<1>2. /\ requests \in Seq(RequestSet)
      /\ n = resume.attempts /\ n \in Nat /\ n < MaxAttempts /\ resume.last_seq \in Seqs
      /\ DOMAIN resume = {"attempts", "eph", "last_seq"} /\ DOMAIN requests = 1 .. n
  BY <1>1 DEF RotationInv, RequestsInv
<1>3. /\ resume'.attempts = n + 1 /\ resume'.eph = eph /\ resume'.last_seq = resume.last_seq
      /\ DOMAIN resume' = {"attempts", "eph", "last_seq"}
  BY <1>1, <1>2
<1>4. q = [nonce |-> n + 1, eph |-> eph, last_seq |-> resume.last_seq]
  BY DEF ResumeRequest
<1>5. q \in RequestSet
  BY <1>2, <1>4 DEF RequestSet
<1>6. q.nonce = n + 1 /\ q.eph = eph /\ q.last_seq = resume.last_seq
  BY <1>4
<1> HIDE DEF q
<1>7. /\ requests' \in Seq(RequestSet)
      /\ Len(requests') = n + 1 /\ DOMAIN requests' = 1 .. n + 1
      /\ requests'[n + 1] = q /\ \A i \in 1 .. n : requests'[i] = requests[i]
  BY <1>1, <1>2, <1>5
<1> HIDE DEF n
<1>8. RequestsInv'
  <2>1. \A i \in 1 .. n + 1 : i \in 1 .. n \/ i = n + 1
    BY <1>2
  <2>2. \A i \in 1 .. n + 1 : requests'[i].nonce = i /\ requests'[i].last_seq = resume'.last_seq
    BY <1>2, <1>3, <1>6, <1>7, <2>1 DEF RotationInv, RequestsInv
  <2>3. \A i, j \in 1 .. n + 1 : requests'[i].eph = requests'[j].eph => i = j
    BY <1>1, <1>2, <1>6, <1>7, <2>1 DEF RotationInv, RequestsInv
  <2>4. n + 1 \in 0 .. MaxAttempts /\ n + 1 > 0
    BY <1>2, RotationAssumption
  <2>5. resume'.eph = requests'[n + 1].eph
    BY <1>3, <1>6, <1>7
  <2> QED BY <1>1, <1>2, <1>3, <1>7, <2>2, <2>3, <2>4, <2>5 DEF RequestsInv
<1>9. ClientInv'
  BY <1>1 DEF RotationInv, ClientInv, IsOld, NewBase
<1>10. WireInv'
  BY <1>1 DEF RotationInv, WireInv, IsOld, NewBase
<1>11. EntryInv'
  <2>1. \A a \in replies : a.to \in 1 .. n
    BY <1>2 DEF RotationInv, EntryInv, n
  <2>2. arrived \in 0 .. n /\ arrived' = arrived
    BY <1>1 DEF RotationInv, EntryInv, n
  <2>3. arrived' \in 0 .. Len(requests')
    BY <1>2, <1>7, <2>2
  <2>4. \A a \in replies' : requests'[a.to] = requests[a.to]
    BY <1>1, <1>7, <2>1
  <2> QED BY <1>1, <2>3, <2>4 DEF RotationInv, EntryInv
<1>12. MirrorInv'
  <2>1. \A a \in replies : a.to # n + 1
    BY <1>2 DEF RotationInv, EntryInv, n
  <2>2. ~AcceptedTo(resume.attempts)'
    BY <1>1, <1>3, <2>1 DEF AcceptedTo
  <2> QED BY <1>1, <2>2 DEF RotationInv, MirrorInv, Rebuilt, NewBase
<1>13. OldNodeInv' /\ DeliveredInv'
  BY <1>1 DEF RotationInv, OldNodeInv, DeliveredInv
<1> QED BY <1>8, <1>9, <1>10, <1>11, <1>12, <1>13 DEF RotationInv

\* T_ack ends, or a NAK comes: the client is told, and nothing else changes.
LEMMA NoAckKeeps ==
  ASSUME RotationInv, AckTimeout \/ NakArrives
  PROVE  RotationInv'
<1>1. /\ waiting' = FALSE
      /\ UNCHANGED <<phase, resume, requests, arrived, replies, entry, node1, node2, net1, net2,
                     delivered, rotatedAt, overtaken>>
      /\ client' = client \/ \E nak : client' = [client EXCEPT !.nak = nak]
  BY DEF AckTimeout, NakArrives, OnResumeNak
<1>2. /\ DOMAIN client' = Fields /\ client'.next_seq = client.next_seq
      /\ client'.chain_base = client.chain_base /\ client'.gen_bases = client.gen_bases
  BY <1>1 DEF RotationInv, ClientInv, Fields
<1>3. ClientInv'
  BY <1>1, <1>2 DEF RotationInv, ClientInv, IsOld, NewBase
<1>4. WireInv'
  BY <1>1, <1>2 DEF RotationInv, WireInv, IsOld, NewBase
<1>5. RequestsInv'
  BY <1>1 DEF RotationInv, RequestsInv
<1>6. EntryInv'
  BY <1>1 DEF RotationInv, EntryInv, AcceptedTo
<1>7. MirrorInv'
  BY <1>1 DEF RotationInv, MirrorInv, AcceptedTo, Rebuilt, NewBase
<1>8. OldNodeInv' /\ DeliveredInv'
  BY <1>1, <1>2 DEF RotationInv, OldNodeInv, DeliveredInv
<1> QED BY <1>3, <1>4, <1>5, <1>6, <1>7, <1>8 DEF RotationInv

\* The attempts are spent, and the client goes back to the old channel.
LEMMA RollBackKeeps == RotationInv /\ RollBack => RotationInv'
<1> SUFFICES ASSUME RotationInv, RollBack PROVE RotationInv'
  OBVIOUS
<1>1. /\ phase = "Overlap" /\ phase' = "Old" /\ ~waiting
      /\ UNCHANGED <<client, resume, waiting, requests, arrived, replies, entry, node1, node2,
                     net1, net2, delivered, rotatedAt, overtaken>>
  BY DEF RollBack
<1>2. ClientInv'
  BY <1>1 DEF RotationInv, ClientInv, IsOld, NewBase
<1>3. WireInv'
  BY <1>1 DEF RotationInv, WireInv, IsOld, NewBase
<1>4. RequestsInv'
  BY <1>1 DEF RotationInv, RequestsInv
<1>5. EntryInv'
  BY <1>1 DEF RotationInv, EntryInv, AcceptedTo
<1>6. MirrorInv'
  BY <1>1 DEF RotationInv, MirrorInv, AcceptedTo, Rebuilt, NewBase
<1>7. OldNodeInv' /\ DeliveredInv'
  BY <1>1 DEF RotationInv, OldNodeInv, DeliveredInv
<1> QED BY <1>2, <1>3, <1>4, <1>5, <1>6, <1>7 DEF RotationInv

\* The ACK of the last request makes the rotation: from here on the seq tells which
\* channel and which key a record belongs to.
LEMMA AckKeeps == RotationInv /\ AckArrives => RotationInv'
<1> SUFFICES ASSUME RotationInv, AckArrives PROVE RotationInv'
  OBVIOUS
<1>1. /\ waiting /\ waiting' = FALSE /\ phase' = "New" /\ rotatedAt' = client.next_seq
      /\ UNCHANGED <<resume, requests, arrived, replies, entry, node1, node2, net1, net2,
                     delivered, overtaken>>
  BY DEF AckArrives
<1>2. PICK a \in replies :
        /\ a.to = Len(requests) /\ a.kind = "Accept"
        /\ client' = RatchetFrom(OnResumeAck(client, a.ack.point, a.ack.window_lo),
                                 Rotated(resume.eph))
  BY DEF AckArrives, Verifies
<1> DEFINE acked == OnResumeAck(client, a.ack.point, a.ack.window_lo)
<1>3. DOMAIN acked = Fields /\ acked.next_seq = client.next_seq
  <2> DEFINE confirmed == Max({a.ack.point, client.dedup.hi})
             t == [client EXCEPT !.dedup = NewWindow(a.ack.window_lo, confirmed),
                                 !.ack = confirmed, !.nak = None]
  <2>1. acked = IF client.overlap = None THEN t ELSE [t EXCEPT !.overlap.closed = TRUE]
    BY DEF OnResumeAck
  <2>2. DOMAIN t = Fields /\ t.next_seq = client.next_seq
    BY DEF RotationInv, ClientInv, Fields
  <2> HIDE DEF t, acked
  <2> QED BY <2>1, <2>2 DEF Fields
<1>4. client' = [acked EXCEPT !.chain_base = NewBase(resume.eph), !.gen_bases = <<>>]
  BY <1>2 DEF RatchetFrom, NewBase
<1> HIDE DEF acked
<1>5. /\ DOMAIN client' = Fields /\ client'.next_seq = client.next_seq
      /\ client'.chain_base = NewBase(resume.eph) /\ client'.gen_bases = <<>>
  BY <1>3, <1>4 DEF Fields
<1>6. /\ phase = "Overlap" /\ resume.attempts > 0 /\ Len(requests) = resume.attempts
      /\ client.next_seq \in 0 .. MaxSeq /\ client.next_seq \in Nat
  BY <1>1, SeqsAreNear DEF RotationInv, RequestsInv, ClientInv
<1>7. ClientInv'
  BY <1>1, <1>5, <1>6 DEF ClientInv, NewBase
<1>8. WireInv'
  <2>1. \A r \in net1 : r.seq \in Seqs /\ r.seq < client.next_seq
    BY DEF RotationInv, WireInv
  <2>2. ASSUME NEW r \in net2
        PROVE  /\ r.seq \in Seqs /\ r.seq < client.next_seq /\ r.kind = "Data" /\ r.stream = 0
               /\ IsOld(r.base) /\ ~(r.seq >= client.next_seq)
    <3>1. /\ r.seq \in Seqs /\ r.seq < client.next_seq /\ r.kind = "Data" /\ r.stream = 0
          /\ IsOld(r.base)
      BY <1>6 DEF RotationInv, WireInv
    <3> QED BY <1>6, <3>1, SeqsAreNear
  <2> QED BY <1>1, <1>5, <2>1, <2>2 DEF WireInv, IsOld, NewBase
<1>9. RequestsInv'
  BY <1>1, <1>6 DEF RotationInv, RequestsInv
<1>10. EntryInv'
  <2>1. AcceptedTo(resume.attempts)'
    BY <1>1, <1>2, <1>6 DEF AcceptedTo
  <2> QED BY <1>1, <2>1 DEF RotationInv, EntryInv
<1>11. MirrorInv'
  BY <1>1 DEF RotationInv, MirrorInv, AcceptedTo, Rebuilt, NewBase
<1>12. OldNodeInv'
  BY <1>1 DEF RotationInv, OldNodeInv
<1>13. DeliveredInv'
  BY <1>1, <1>5, <1>6 DEF RotationInv, DeliveredInv
<1> QED BY <1>7, <1>8, <1>9, <1>10, <1>11, <1>12, <1>13 DEF RotationInv

\* A window restored at or above its floor.
LEMMA RestoredIsRebuilt ==
  ASSUME NEW floor \in Nat, NEW last_seq \in Nat, floor <= last_seq, last_seq <= Limit
  PROVE  Rebuilt(RestoreFromSignedLastSeq(floor, last_seq))
<1> DEFINE lo == SlideLo(floor, last_seq)
           w == RestoreFromSignedLastSeq(floor, last_seq)
<1>1. lo \in Nat
  BY SlideLoBounds, LimitAssumption, WindowAssumption
<1> HIDE DEF lo
<1>2. NewWindow(floor, last_seq) \in Window
  BY <1>1 DEF NewWindow, Window, lo
<1>3. /\ NewWindow(floor, last_seq).floor = floor /\ NewWindow(floor, last_seq).lo = lo
      /\ NewWindow(floor, last_seq).hi = last_seq
  BY DEF NewWindow, lo
<1>4. w = [NewWindow(floor, last_seq) EXCEPT !.restored = TRUE]
  BY DEF RestoreFromSignedLastSeq
<1> HIDE DEF w
<1>5. w \in Window /\ w.restored /\ w.floor = floor /\ w.lo = lo /\ w.hi = last_seq
  BY <1>2, <1>3, <1>4 DEF Window
<1> QED BY <1>5 DEF Rebuilt, lo, w

\* A new mirror: the key of its request, one stream, a window rebuilt from last_seq.
LEMMA MirrorShape ==
  ASSUME RequestsInv, NEW q \in RequestSet,
         q.last_seq = resume.last_seq
  PROVE  /\ DOMAIN Mirror(q) = Fields /\ Mirror(q).gen_bases = <<>>
         /\ Mirror(q).streams = <<Flow>> /\ Mirror(q).chain_base = NewBase(q.eph)
         /\ Rebuilt(Mirror(q).dedup)
<1> DEFINE s == RestoreDedup(NewSession(Rotated(q.eph)), Floor, q.last_seq)
           w == RestoreFromSignedLastSeq(Floor, q.last_seq)
<1>1. q.last_seq \in Nat /\ q.last_seq <= Limit
  BY SeqsAreNear DEF RequestSet
<1>2. Floor \in Nat /\ Floor <= q.last_seq
  BY <1>1, WindowAssumption DEF Floor, SatSub
<1>3. /\ DOMAIN s = Fields /\ s.gen_bases = <<>> /\ s.streams = <<>> /\ s.dedup = w
      /\ s.chain_base = NewBase(q.eph)
  BY DEF RestoreDedup, NewSession, Fields, NewBase
<1>4. Rebuilt(w)
  BY <1>1, <1>2, RestoredIsRebuilt
<1> HIDE DEF w
<1>5. Mirror(q) = [s EXCEPT !.streams = Append(@, Flow)]
  BY <1>3 DEF Mirror, OpenStream
<1> HIDE DEF s
<1>6. Append(<<>>, Flow) = <<Flow>>
  OBVIOUS
<1>7. /\ DOMAIN Mirror(q) = Fields /\ Mirror(q).gen_bases = <<>>
      /\ Mirror(q).streams = <<Flow>> /\ Mirror(q).chain_base = NewBase(q.eph)
      /\ Mirror(q).dedup = w
  BY <1>3, <1>5, <1>6 DEF Fields
<1> QED BY <1>4, <1>7

\* A request N2 accepts is one it did not accept before, and there is budget for it.
LEMMA AcceptedIsNew ==
  ASSUME EntryInv, NEW i \in DOMAIN requests,
         Consumed!EntryVerdict(entry, requests[i]) = "Accept"
  PROVE  ~AcceptedTo(i)
<1> SUFFICES ASSUME NEW a \in replies, a.to = i, a.kind = "Accept" PROVE FALSE
  BY DEF AcceptedTo
<1>1. /\ entry.attempts > 0 /\ entry.attempts \in Nat
      /\ entry.last_transcript = requests[i] \/ entry.attempts >= MaxAttempts
  BY DEF EntryInv
<1>2. entry # Consumed!NoEntry
  BY <1>1 DEF Consumed!NoEntry
<1>3. ~(entry.last_transcript = requests[i]) /\ entry.attempts < MaxAttempts
  BY <1>2 DEF Consumed!EntryVerdict, Consumed!Repeated, Consumed!AllowsRetry
<1> QED BY <1>1, <1>3, RotationAssumption

\* handle_resume of N2: what it accepts leaves no mirror with the client's key and an
\* emptier window.
LEMMA HandleKeeps ==
  ASSUME MaxAttempts <= 2, RotationInv, NEW i \in DOMAIN requests, NodeHandlesResume(i)
  PROVE  RotationInv'
<1> DEFINE q == requests[i]
           verdict == Consumed!EntryVerdict(entry, q)
           answer == ReplyTo(q, verdict)
           n == Len(requests)
<1>1. /\ arrived' = Max({i, arrived})
      /\ entry' = Consumed!EntryAfter(entry, q, verdict)
      /\ node2' = IF verdict = "Accept" THEN Mirror(q) ELSE node2
      /\ replies' = replies \union {answer}
      /\ overtaken' = (overtaken \/ (verdict = "Accept" /\ i < arrived))
      /\ UNCHANGED <<client, phase, resume, waiting, requests, node1, net1, net2, delivered,
                     rotatedAt>>
  BY DEF NodeHandlesResume
<1>2. /\ requests \in Seq(RequestSet) /\ n \in Nat
      /\ i \in 1 .. n /\ n = resume.attempts /\ i \in Nat
      /\ q \in RequestSet
      /\ q.nonce = i /\ q.last_seq = resume.last_seq /\ RequestsInv
  <2>1. /\ requests \in Seq(RequestSet)
        /\ n = resume.attempts /\ RequestsInv
    BY DEF RotationInv, RequestsInv
  <2>2. n \in Nat /\ i \in 1 .. n /\ i \in Nat
    BY <2>1
  <2>3. q \in RequestSet
    BY <2>1
  <2>4. q.nonce = i /\ q.last_seq = resume.last_seq
    BY <2>1 DEF RequestsInv
  <2> QED BY <2>1, <2>2, <2>3, <2>4
<1>3. answer.to = i /\ answer.kind = verdict
  BY <1>2 DEF ReplyTo
<1>4. /\ arrived \in 0 .. n /\ arrived \in Nat /\ entry.attempts \in Nat /\ EntryInv
      /\ \A a \in replies : a.to \in 1 .. arrived
  BY <1>2 DEF RotationInv, EntryInv
<1>5. arrived' \in 0 .. n /\ arrived' >= arrived /\ arrived' >= i
  BY <1>1, <1>2, <1>4, MaxOfTwo
<1> HIDE DEF answer
<1>6. ClientInv' /\ WireInv' /\ RequestsInv' /\ OldNodeInv'
  <2>1. ClientInv' /\ WireInv'
    BY <1>1 DEF RotationInv, ClientInv, WireInv, IsOld, NewBase
  <2>2. RequestsInv' /\ OldNodeInv'
    BY <1>1 DEF RotationInv, RequestsInv, OldNodeInv
  <2> QED BY <2>1, <2>2
<1>7. \A a \in replies' : a.to \in 1 .. arrived'
  BY <1>1, <1>2, <1>3, <1>4, <1>5
<1>8. phase' = "New" => AcceptedTo(resume.attempts)'
  BY <1>1 DEF RotationInv, EntryInv, AcceptedTo
<1>9. CASE verdict # "Accept"
  <2>1. entry' = entry /\ node2' = node2 /\ (overtaken' <=> overtaken)
    <3> HIDE DEF verdict, q
    <3> QED BY <1>1, <1>9 DEF Consumed!EntryAfter
  <2>2. \A k : AcceptedTo(k)' <=> AcceptedTo(k)
    BY <1>1, <1>3, <1>9 DEF AcceptedTo
  <2>3. EntryInv'
    <3>1. \A a \in replies' : a.kind = "Accept" => a \in replies
      BY <1>1, <1>3, <1>9
    <3> HIDE DEF q, verdict
    <3> QED BY <1>1, <1>2, <1>5, <1>7, <1>8, <2>1, <3>1 DEF EntryInv, RotationInv
  <2>4. MirrorInv'
    BY <1>1, <2>1, <2>2 DEF RotationInv, MirrorInv, Rebuilt, NewBase
  <2>5. DeliveredInv'
    BY <1>1, <2>1 DEF RotationInv, DeliveredInv, NewBase
  <2> QED BY <1>6, <2>3, <2>4, <2>5 DEF RotationInv
<1>10. CASE verdict = "Accept"
  <2>1. /\ entry' = [attempts |-> entry.attempts + 1, last_transcript |-> q]
        /\ node2' = Mirror(q) /\ (i < arrived => overtaken') /\ (overtaken => overtaken')
    BY <1>1, <1>10 DEF Consumed!EntryAfter
  <2>2. /\ DOMAIN node2' = Fields /\ node2'.gen_bases = <<>> /\ node2'.streams = <<Flow>>
        /\ node2'.chain_base = NewBase(q.eph) /\ Rebuilt(node2'.dedup)
    BY <1>2, <2>1, MirrorShape
  <2>3. ~AcceptedTo(i)
    BY <1>4, <1>10, AcceptedIsNew
  <2>4. q.eph \in Ephs /\ requests' = requests /\ requests'[i] = q
    BY <1>1, <1>2 DEF RequestSet
  <2> HIDE DEF verdict
  <2>5. entry'.attempts = entry.attempts + 1 /\ entry'.last_transcript = q
    BY <2>1
  <2>6. EntryInv'
    <3>1. ASSUME NEW a \in replies', a.kind = "Accept"
          PROVE  entry'.last_transcript = requests'[a.to] \/ entry'.attempts >= MaxAttempts
      <4>1. CASE a = answer
        BY <1>3, <2>4, <2>5, <4>1
      <4>2. CASE a # answer
        <5>1. a \in replies
          BY <1>1, <4>2
        <5>2. entry.attempts > 0
          BY <1>4, <3>1, <5>1 DEF EntryInv
        <5>3. entry'.attempts >= MaxAttempts
          BY <1>4, <2>5, <5>2, RotationAssumption
        <5> QED BY <5>3
      <4> QED BY <4>1, <4>2
    <3>2. entry'.attempts \in Nat /\ entry'.attempts > 0
      BY <1>4, <2>5
    <3>3. Len(requests') = n
      BY <2>4
    <3> HIDE DEF q, n
    <3> QED BY <1>5, <1>7, <1>8, <3>1, <3>2, <3>3 DEF EntryInv
  <2>7. MirrorInv'
    <3>1. ASSUME ~overtaken', AcceptedTo(resume.attempts)'
          PROVE  i = n
      <4>1. PICK a \in replies' : a.to = n /\ a.kind = "Accept"
        BY <1>1, <1>2, <3>1 DEF AcceptedTo
      <4>2. CASE a = answer
        BY <1>3, <4>1, <4>2
      <4>3. CASE a # answer
        <5>1. a \in replies
          BY <1>1, <4>3
        <5>2. arrived >= n
          BY <1>2, <1>4, <4>1, <5>1
        <5> QED BY <1>2, <1>4, <2>1, <3>1, <5>2
      <4> QED BY <4>2, <4>3
    <3>2. ~overtaken' /\ AcceptedTo(resume.attempts)' => q = requests'[resume'.attempts]
      BY <1>1, <1>2, <2>4, <3>1
    <3> HIDE DEF q, n
    <3>3. ~overtaken' /\ AcceptedTo(resume.attempts)'
            => node2'.chain_base = NewBase(requests'[resume'.attempts].eph)
      BY <2>2, <3>2
    <3>4. \E eph \in Ephs : node2'.chain_base = NewBase(eph)
      BY <2>2, <2>4
    <3> QED BY <2>2, <3>3, <3>4 DEF MirrorInv, Rebuilt, NewBase
  <2>8. DeliveredInv'
    <3>1. phase = "New" => i # n
      BY <1>2, <2>3 DEF RotationInv, EntryInv
    <3>2. phase = "New" => node2'.chain_base # NewBase(resume.eph)
      <4> SUFFICES ASSUME phase = "New" PROVE q.eph # resume.eph
        <5>1. phase = "New" => resume.eph \in Ephs
          <6>1. phase = "New" => n > 0 /\ resume.eph = requests[n].eph
            BY <1>2 DEF RequestsInv
          <6>2. n > 0 => n \in DOMAIN requests
            BY <1>2
          <6>3. n > 0 => requests[n] \in RequestSet
            <7> HIDE DEF n
            <7> QED BY <1>2, <6>2
          <6> HIDE DEF n
          <6> QED BY <6>1, <6>3 DEF RequestSet
        <5> QED BY <2>2, <2>4, <5>1, BasesDiffer
      <4>1. resume.attempts > 0 /\ resume.eph = requests[n].eph
        BY <1>2 DEF RequestsInv
      <4>2. n \in DOMAIN requests
        BY <1>2, <4>1
      <4> QED BY <1>2, <3>1, <4>1, <4>2 DEF RequestsInv
    <3> QED BY <1>1, <3>2 DEF RotationInv, DeliveredInv, NewBase
  <2> QED BY <1>6, <2>6, <2>7, <2>8 DEF RotationInv
<1> QED BY <1>9, <1>10

\* What recv_record of a session does to all that a proof about Rotation looks at.
LEMMA RecvIsAccept ==
  ASSUME NEW s, DOMAIN s = Fields, NEW r
  PROVE  LET t == AfterRecv(s, r) IN
         /\ DOMAIN t = Fields /\ t.chain_base = s.chain_base /\ t.streams = s.streams
         /\ r.kind = "Data" => t.gen_bases = s.gen_bases
         /\ t.dedup = IF Verdict(s, r) = "Opened" THEN Accept(s.dedup, r.seq) ELSE s.dedup
         /\ Verdict(s, r) = "Opened" => IsNew(s.dedup, r.seq) /\ r.base = BaseFor(s, r.seq)
<1> DEFINE t == [s EXCEPT !.dedup = Accept(@, r.seq)]
           g == PushGeneration(t, r.seq, Generation(r.base, r.data))
           u == AfterRecv(s, r)
<1>1. /\ DOMAIN t = Fields /\ t.dedup = Accept(s.dedup, r.seq) /\ t.chain_base = s.chain_base
      /\ t.streams = s.streams /\ t.gen_bases = s.gen_bases
  BY DEF Fields
<1>2. \/ u = s /\ Verdict(s, r) # "Opened"
      \/ Verdict(s, r) = "Opened" /\ u = t
      \/ Verdict(s, r) = "Opened" /\ u = g /\ r.kind = "Rekey"
  BY DEF AfterRecv
<1>3. Verdict(s, r) = "Opened" => IsNew(s.dedup, r.seq) /\ r.base = BaseFor(s, r.seq)
  BY DEF Verdict, Opens
<1> HIDE DEF t
<1>4. /\ DOMAIN g = Fields /\ g.dedup = t.dedup /\ g.chain_base = t.chain_base
      /\ g.streams = t.streams
  BY <1>1 DEF PushGeneration, Fields
<1> HIDE DEF g, u
<1> QED BY <1>1, <1>2, <1>3, <1>4 DEF u

\* A step at one of the nodes that receives, seen from everywhere else.
LEMMA RecvLeavesTheRest ==
  ASSUME RotationInv,
         UNCHANGED <<client, phase, resume, waiting, requests, arrived, replies, entry, net1, net2,
                     rotatedAt>>
  PROVE  ClientInv' /\ WireInv' /\ RequestsInv'
<1>1. ClientInv' /\ WireInv'
  BY DEF RotationInv, ClientInv, WireInv, IsOld, NewBase
<1>2. RequestsInv'
  BY DEF RotationInv, RequestsInv
<1> QED BY <1>1, <1>2

\* N1: what it delivers it marks, and what is marked it does not deliver again.
LEMMA RecvOldKeeps ==
  ASSUME RotationInv, NEW r \in net1, RecvOld(r)
  PROVE  RotationInv'
<1> DEFINE w == node1.dedup
           v == node1'.dedup
<1>1. /\ node1' = AfterRecv(node1, r) /\ delivered' = Deliver("N1", node1, r)
      /\ UNCHANGED <<client, phase, resume, waiting, requests, arrived, replies, entry, node2, net1,
                     net2, rotatedAt, overtaken>>
  BY DEF RecvOld
<1>2. /\ r.seq \in Seqs /\ r.seq \in Nat /\ r.seq <= Limit /\ r.seq < U64Max
      /\ Limit \in Nat /\ Limit < U64Max /\ U64Max \in Nat
      /\ r.seq < client.next_seq /\ (phase = "New" => r.seq < rotatedAt)
  BY SeqsAreNear DEF RotationInv, WireInv
<1>3. /\ w \in Window /\ ~w.restored /\ w.lo = SlideLo(w.floor, w.hi) /\ w.hi <= Limit
      /\ w.hi \in Nat /\ w.floor \in Nat /\ w.lo \in Nat /\ w.hi < U64Max /\ DOMAIN node1 = Fields
  BY <1>2 DEF RotationInv, OldNodeInv, Window
<1>4. /\ DOMAIN node1' = Fields
      /\ v = IF Verdict(node1, r) = "Opened" THEN Accept(w, r.seq) ELSE w
      /\ Verdict(node1, r) = "Opened" => IsNew(w, r.seq)
  BY <1>1, <1>3, RecvIsAccept
<1>5. ClientInv' /\ WireInv' /\ RequestsInv'
  BY <1>1, RecvLeavesTheRest
<1>6. EntryInv' /\ MirrorInv'
  BY <1>1 DEF RotationInv, EntryInv, MirrorInv, AcceptedTo, Rebuilt, NewBase
<1>7. delivered \in [Nodes -> [Seqs -> Nat]] /\ "N1" \in Nodes /\ "N2" \in Nodes
  BY DEF RotationInv, DeliveredInv, Nodes
<1>8. CASE Verdict(node1, r) # "Opened"
  <2>1. delivered' = delivered /\ v = w
    BY <1>1, <1>4, <1>8 DEF Deliver
  <2>2. OldNodeInv' /\ DeliveredInv'
    BY <1>1, <1>4, <2>1 DEF RotationInv, OldNodeInv, DeliveredInv, NewBase
  <2> QED BY <1>5, <1>6, <2>2 DEF RotationInv
<1>9. CASE Verdict(node1, r) = "Opened"
  <2>1. IsNew(w, r.seq) /\ v = Accept(w, r.seq)
    BY <1>4, <1>9
  <2>2. /\ v \in Window /\ v.floor = w.floor /\ v.restored = w.restored
        /\ v.lo = SlideLo(v.floor, v.hi)
        /\ v.hi = IF r.seq > w.hi THEN r.seq ELSE w.hi
        /\ v.lo <= r.seq
        /\ \A s \in Nat : s >= v.lo =>
             (s - v.lo \in v.seen <=> s = r.seq \/ s - w.lo \in w.seen)
    BY <1>2, <1>3, <2>1, AcceptCases
  <2>3. /\ v.hi \in Nat /\ v.lo \in Nat /\ w.hi <= v.hi /\ v.hi <= Limit /\ r.seq <= v.hi
    BY <1>2, <1>3, <2>2 DEF Window
  <2>4. w.lo <= v.lo
    BY <1>2, <1>3, <2>2, <2>3, SlideLoMonotone
  <2>5. delivered["N1"][r.seq] = 0
    <3>1. r.seq >= w.lo /\ (r.seq <= w.hi => r.seq - w.lo \notin w.seen)
      BY <1>2, <1>3, <2>1 DEF IsNew, Below, Bit
    <3>2. ~(delivered["N1"][r.seq] > 0)
      BY <1>2, <1>3, <3>1 DEF RotationInv, OldNodeInv
    <3>3. delivered["N1"][r.seq] \in Nat
      BY <1>2, <1>7
    <3> QED BY <3>2, <3>3
  <2>6. delivered' = [delivered EXCEPT !["N1"][r.seq] = @ + 1]
    BY <1>1, <1>9 DEF Deliver
  <2>7. /\ delivered' \in [Nodes -> [Seqs -> Nat]] /\ delivered'["N1"][r.seq] = 1
        /\ \A q \in Seqs : q # r.seq => delivered'["N1"][q] = delivered["N1"][q]
        /\ \A q \in Seqs : delivered'["N2"][q] = delivered["N2"][q]
    BY <1>2, <1>7, <2>5, <2>6
  <2>8. OldNodeInv'
    <3>1. ASSUME NEW q \in Seqs, delivered'["N1"][q] > 0
          PROVE  q <= v.hi
      <4>1. q \in Nat
        BY SeqsAreNear
      <4>2. q # r.seq => q <= w.hi
        BY <2>7, <3>1 DEF RotationInv, OldNodeInv
      <4> HIDE DEF w, v
      <4> QED BY <1>3, <2>3, <4>1, <4>2
    <3>2. ASSUME NEW q \in Seqs, q >= v.lo
          PROVE  delivered'["N1"][q] > 0 <=> q - v.lo \in v.seen
      <4>1. q \in Nat /\ q >= w.lo
        BY <1>3, <2>3, <2>4, <3>2, SeqsAreNear
      <4>2. delivered["N1"][q] > 0 <=> q - w.lo \in w.seen
        BY <4>1 DEF RotationInv, OldNodeInv
      <4>3. q - v.lo \in v.seen <=> q = r.seq \/ q - w.lo \in w.seen
        BY <2>2, <3>2, <4>1
      <4> QED BY <2>7, <4>2, <4>3
    <3> QED BY <1>3, <1>4, <2>2, <2>3, <3>1, <3>2 DEF OldNodeInv
  <2>9. DeliveredInv'
    <3>1. \A n \in Nodes : n = "N1" \/ n = "N2"
      BY DEF Nodes
    <3>2. \A n \in Nodes, q \in Seqs : delivered'[n][q] <= 1
      BY <2>7, <3>1 DEF RotationInv, DeliveredInv
    <3>3. \A q \in Seqs : delivered'["N1"][q] > 0 =>
            q < client.next_seq /\ (phase = "New" => q < rotatedAt)
      BY <1>2, <2>7 DEF RotationInv, DeliveredInv
    <3>4. \A q \in Seqs : delivered'["N2"][q] > 0 =>
            /\ phase = "New" /\ q >= rotatedAt
            /\ node2.chain_base = NewBase(resume.eph) => q <= node2.dedup.hi
      BY <2>7 DEF RotationInv, DeliveredInv
    <3> QED BY <1>1, <2>7, <3>2, <3>3, <3>4 DEF DeliveredInv, NewBase
  <2> QED BY <1>5, <1>6, <2>8, <2>9 DEF RotationInv
<1> QED BY <1>8, <1>9

\* A record opens at N2 only under the key of the last attempt, so only after the rotation.
LEMMA OpensAfterRotation ==
  ASSUME RotationInv, NEW r \in net2, entry.attempts > 0, Verdict(node2, r) = "Opened"
  PROVE  phase = "New" /\ r.seq >= rotatedAt /\ node2.chain_base = NewBase(resume.eph)
<1>1. DOMAIN node2 = Fields /\ node2.gen_bases = <<>>
  BY DEF RotationInv, MirrorInv
<1>2. r.base = node2.chain_base
  BY <1>1, RecvIsAccept, BaseWithoutGenerations
<1>3. ~IsOld(r.base)
  BY <1>2 DEF RotationInv, MirrorInv, IsOld
<1> QED BY <1>2, <1>3 DEF RotationInv, WireInv

\* N2: a mirror with the client's key delivers only above its ceiling.
LEMMA RecvNewKeeps ==
  ASSUME RotationInv, NEW r \in net2, RecvNew(r)
  PROVE  RotationInv'
<1> DEFINE w == node2.dedup
           v == node2'.dedup
<1>1. /\ node2 # None /\ node2' = AfterRecv(node2, r) /\ delivered' = Deliver("N2", node2, r)
      /\ UNCHANGED <<client, phase, resume, waiting, requests, arrived, replies, entry, node1, net1,
                     net2, rotatedAt, overtaken>>
  BY DEF RecvNew
<1>2. /\ r.seq \in Seqs /\ r.seq \in Nat /\ r.seq <= Limit /\ r.seq < U64Max /\ r.kind = "Data"
      /\ Limit \in Nat /\ Limit < U64Max /\ U64Max \in Nat
  BY SeqsAreNear DEF RotationInv, WireInv
<1>3. entry.attempts > 0
  BY <1>1 DEF RotationInv, EntryInv
<1>4. /\ DOMAIN node2 = Fields /\ node2.gen_bases = <<>> /\ node2.streams = <<Flow>> /\ Rebuilt(w)
  BY <1>3 DEF RotationInv, MirrorInv
<1>5. /\ w \in Window /\ w.restored /\ w.lo = SlideLo(w.floor, w.hi) /\ w.floor <= w.hi
      /\ w.hi <= Limit /\ w.hi \in Nat /\ w.floor \in Nat /\ w.lo \in Nat /\ w.hi < U64Max
  BY <1>2, <1>4 DEF Rebuilt, Window
<1>6. /\ DOMAIN node2' = Fields /\ node2'.gen_bases = <<>> /\ node2'.streams = <<Flow>>
      /\ node2'.chain_base = node2.chain_base
      /\ v = IF Verdict(node2, r) = "Opened" THEN Accept(w, r.seq) ELSE w
      /\ Verdict(node2, r) = "Opened" => IsNew(w, r.seq)
  BY <1>1, <1>2, <1>4, RecvIsAccept
<1>7. ClientInv' /\ WireInv' /\ RequestsInv'
  BY <1>1, RecvLeavesTheRest
<1>8. EntryInv' /\ OldNodeInv'
  <2>1. OldNodeInv'
    <3>1. delivered'["N1"] = delivered["N1"]
      BY <1>1 DEF Deliver, RotationInv, DeliveredInv, Nodes
    <3> QED BY <1>1, <3>1 DEF RotationInv, OldNodeInv
  <2>2. EntryInv'
    BY <1>1, <1>3 DEF RotationInv, EntryInv, AcceptedTo
  <2> QED BY <2>1, <2>2
<1>9. CASE Verdict(node2, r) # "Opened"
  <2>1. delivered' = delivered /\ v = w
    BY <1>1, <1>6, <1>9 DEF Deliver
  <2>2. MirrorInv'
    BY <1>1, <1>4, <1>6, <2>1 DEF RotationInv, MirrorInv, AcceptedTo, Rebuilt, NewBase
  <2>3. DeliveredInv'
    BY <1>1, <1>6, <2>1 DEF RotationInv, DeliveredInv, NewBase
  <2> QED BY <1>7, <1>8, <2>2, <2>3 DEF RotationInv
<1>10. CASE Verdict(node2, r) = "Opened"
  <2>1. IsNew(w, r.seq) /\ v = Accept(w, r.seq)
    BY <1>6, <1>10
  <2>2. r.seq > w.hi
    BY <1>2, <1>5, <2>1 DEF IsNew
  <2>3. /\ v \in Window /\ v.floor = w.floor /\ v.restored = w.restored
        /\ v.lo = SlideLo(v.floor, v.hi) /\ v.hi = r.seq
    <3>1. /\ v \in Window /\ v.floor = w.floor /\ v.restored = w.restored
          /\ v.lo = SlideLo(v.floor, v.hi)
          /\ v.hi = IF r.seq > w.hi THEN r.seq ELSE w.hi
      <4> HIDE DEF v, w
      <4> QED BY <1>2, <1>5, <2>1, AcceptCases
    <3> HIDE DEF v, w
    <3> QED BY <2>2, <3>1
  <2>4. Rebuilt(v)
    <3> HIDE DEF v, w
    <3> QED BY <1>2, <1>5, <2>2, <2>3 DEF Rebuilt
  <2>5. phase = "New" /\ r.seq >= rotatedAt /\ node2.chain_base = NewBase(resume.eph)
    BY <1>3, <1>10, OpensAfterRotation
  <2>6. delivered \in [Nodes -> [Seqs -> Nat]] /\ "N1" \in Nodes /\ "N2" \in Nodes
    BY DEF RotationInv, DeliveredInv, Nodes
  <2>7. delivered["N2"][r.seq] = 0
    <3>1. delivered["N2"][r.seq] \in Nat
      BY <1>2, <2>6
    <3>2. delivered["N2"][r.seq] > 0 => r.seq <= w.hi
      BY <1>2, <2>5 DEF RotationInv, DeliveredInv
    <3> HIDE DEF w
    <3> QED BY <1>2, <1>5, <2>2, <3>1, <3>2
  <2>8. delivered' = [delivered EXCEPT !["N2"][r.seq] = @ + 1]
    BY <1>1, <1>10 DEF Deliver
  <2>9. /\ delivered' \in [Nodes -> [Seqs -> Nat]] /\ delivered'["N2"][r.seq] = 1
        /\ \A q \in Seqs : q # r.seq => delivered'["N2"][q] = delivered["N2"][q]
        /\ \A q \in Seqs : delivered'["N1"][q] = delivered["N1"][q]
    BY <1>2, <2>6, <2>7, <2>8
  <2>10. MirrorInv'
    BY <1>1, <1>6, <2>4 DEF RotationInv, MirrorInv, AcceptedTo, Rebuilt, NewBase
  <2>11. DeliveredInv'
    <3>1. \A n \in Nodes : n = "N1" \/ n = "N2"
      BY DEF Nodes
    <3>2. \A n \in Nodes, q \in Seqs : delivered'[n][q] <= 1
      BY <2>9, <3>1 DEF RotationInv, DeliveredInv
    <3>3. \A q \in Seqs : delivered'["N1"][q] > 0 =>
            q < client.next_seq /\ (phase = "New" => q < rotatedAt)
      BY <2>9 DEF RotationInv, DeliveredInv
    <3>4. ASSUME NEW q \in Seqs, delivered'["N2"][q] > 0
          PROVE  phase = "New" /\ q >= rotatedAt /\ q <= v.hi
      <4>1. CASE q = r.seq
        BY <1>2, <2>3, <2>5, <4>1
      <4>2. CASE q # r.seq
        <5>1. q >= rotatedAt /\ q <= w.hi /\ q \in Nat
          BY <2>5, <2>9, <3>4, <4>2, SeqsAreNear DEF RotationInv, DeliveredInv
        <5> HIDE DEF v, w
        <5> QED BY <1>2, <1>5, <2>2, <2>3, <2>5, <5>1
      <4> QED BY <4>1, <4>2
    <3> QED BY <1>1, <2>9, <3>2, <3>3, <3>4 DEF DeliveredInv, NewBase
  <2> QED BY <1>7, <1>8, <2>10, <2>11 DEF RotationInv
<1> QED BY <1>9, <1>10

\* No step of the rotation leaves the invariant.
LEMMA RotationInvInductive ==
  ASSUME MaxAttempts <= 2
  PROVE  RotationInv /\ [Next]_vars => RotationInv'
<1> SUFFICES ASSUME RotationInv, [Next]_vars PROVE RotationInv'
  OBVIOUS
<1>1. CASE EmitOld
  BY <1>1, EmitOldKeeps
<1>2. ASSUME NEW late \in BOOLEAN, EmitBoth(late) PROVE RotationInv'
  BY <1>2, EmitBothKeeps
<1>3. CASE EmitNew
  BY <1>3, EmitNewKeeps
<1>4. CASE RekeyOld
  BY <1>4, RekeyOldKeeps
<1>5. CASE StartOverlap
  BY <1>5, StartOverlapKeeps
<1>6. ASSUME NEW eph \in Ephs, Resume(eph) PROVE RotationInv'
  BY <1>6, ResumeKeeps
<1>7. ASSUME NEW i \in DOMAIN requests, NodeHandlesResume(i) PROVE RotationInv'
  BY <1>7, HandleKeeps
<1>8. CASE AckTimeout \/ NakArrives
  BY <1>8, NoAckKeeps
<1>9. CASE AckArrives
  BY <1>9, AckKeeps
<1>10. CASE RollBack
  BY <1>10, RollBackKeeps
<1>11. ASSUME NEW r \in net1, RecvOld(r) PROVE RotationInv'
  BY <1>11, RecvOldKeeps
<1>12. ASSUME NEW r \in net2, RecvNew(r) PROVE RotationInv'
  BY <1>12, RecvNewKeeps
<1>13. CASE UNCHANGED vars
  <2>1. UNCHANGED <<client, phase, resume, waiting, requests, arrived, replies, entry, node1, node2,
                    net1, net2, delivered, rotatedAt, overtaken>>
    BY <1>13 DEF vars
  <2>2. ClientInv' /\ WireInv' /\ RequestsInv'
    BY <2>1, RecvLeavesTheRest
  <2>3. EntryInv' /\ OldNodeInv'
    BY <2>1 DEF RotationInv, EntryInv, OldNodeInv, AcceptedTo
  <2>4. MirrorInv' /\ DeliveredInv'
    BY <2>1 DEF RotationInv, MirrorInv, DeliveredInv, AcceptedTo, Rebuilt, NewBase
  <2> QED BY <2>2, <2>3, <2>4 DEF RotationInv
<1> QED BY <1>1, <1>2, <1>3, <1>4, <1>5, <1>6, <1>7, <1>8, <1>9, <1>10, <1>11, <1>12, <1>13
        DEF Next

\* With a budget of at most two every reachable state is in the invariant.
THEOREM RotationInvariant ==
  ASSUME MaxAttempts <= 2
  PROVE  Spec => []RotationInv
<1>1. RotationInv /\ [Next]_vars => RotationInv'
  BY RotationInvInductive
<1> QED BY <1>1, InitRotationInv, PTL DEF Spec

\* No record is delivered twice, by one node or by both together, through retries that
\* overtake one another, late copies, roll-backs and mirrors replaced under traffic.
THEOREM RecordsAreDeliveredOnce ==
  ASSUME MaxAttempts <= 2
  PROVE  Spec => []DeliveredOnce
<1>1. RotationInv => DeliveredOnce
  <2> SUFFICES ASSUME RotationInv, NEW q \in Seqs
               PROVE  delivered["N1"][q] + delivered["N2"][q] <= 1
    BY DEF DeliveredOnce
  <2>1. /\ delivered["N1"][q] \in Nat /\ delivered["N1"][q] <= 1
        /\ delivered["N2"][q] \in Nat /\ delivered["N2"][q] <= 1
    BY DEF RotationInv, DeliveredInv, Nodes
  <2>2. ~(delivered["N1"][q] > 0 /\ delivered["N2"][q] > 0)
    <3> SUFFICES ASSUME delivered["N1"][q] > 0, delivered["N2"][q] > 0 PROVE FALSE
      OBVIOUS
    <3>1. phase = "New" /\ q < rotatedAt /\ q >= rotatedAt
      BY DEF RotationInv, DeliveredInv
    <3>2. q \in Nat /\ rotatedAt \in Nat
      BY <3>1, SeqsAreNear DEF RotationInv, ClientInv
    <3> QED BY <3>1, <3>2
  <2> QED BY <2>1, <2>2
<1> QED BY <1>1, RotationInvariant, PTL

\* Whatever the client sealed after the rotation opens at N2 as long as nothing higher
\* came before it, unless a late request took the mirror away.
THEOREM RotatedSessionOpens ==
  ASSUME MaxAttempts <= 2
  PROVE  Spec => []ContinuationOpens
<1>1. RotationInv => ContinuationOpens
  <2> SUFFICES ASSUME RotationInv, NEW r \in net2, phase = "New", ~overtaken,
                      r.seq >= rotatedAt, r.seq > node2.dedup.hi
               PROVE  Verdict(node2, r) = "Opened"
    BY DEF ContinuationOpens
  <2>1. /\ r.seq \in Nat /\ r.seq <= Limit /\ r.kind = "Data" /\ r.stream = 0
        /\ r.base = NewBase(resume.eph)
    BY SeqsAreNear DEF RotationInv, WireInv
  <2>2. resume.attempts > 0 /\ AcceptedTo(resume.attempts) /\ entry.attempts > 0
    BY DEF RotationInv, RequestsInv, EntryInv, AcceptedTo
  <2>3. /\ DOMAIN node2 = Fields /\ node2.gen_bases = <<>> /\ node2.streams = <<Flow>>
        /\ Rebuilt(node2.dedup) /\ node2.chain_base = NewBase(resume.eph)
    BY <2>2 DEF RotationInv, MirrorInv, RequestsInv
  <2> DEFINE w == node2.dedup
  <2>4. /\ w.lo = SlideLo(w.floor, w.hi) /\ w.floor <= w.hi /\ w.hi <= Limit
        /\ w.hi \in Nat /\ w.floor \in Nat /\ w.lo \in Nat /\ w.hi < U64Max
    BY <2>3, SeqsAreNear DEF Rebuilt, Window
  <2>5. KnowsStream(node2, r.stream)
    BY <2>1, <2>3 DEF KnowsStream
  <2>6. IsNew(w, r.seq)
    <3>1. w.lo <= w.hi
      <4> HIDE DEF w
      <4>1. W \in Nat /\ W > 0 /\ (w.lo = w.floor \/ w.lo + W = w.hi + 1)
        BY <2>4, SlideLoBounds, WindowAssumption
      <4> QED BY <2>4, <4>1
    <3> QED BY <2>1, <2>4, <3>1 DEF IsNew, Below
  <2>7. Opens(node2, r)
    BY <2>1, <2>3, BaseWithoutGenerations, SeqsAreNear DEF Opens, TooFar
  <2> QED BY <2>5, <2>6, <2>7 DEF Verdict
<1> QED BY <1>1, RotationInvariant, PTL
=============================================================================
