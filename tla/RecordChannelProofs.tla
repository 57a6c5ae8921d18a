------------------------ MODULE RecordChannelProofs ------------------------
(***************************************************************************)
(* Proofs about RecordChannel, for every window size, every limit below    *)
(* u64::MAX and any number of re-keys and restarts.  On the sender's side  *)
(* the invariant ties three things together: what is on the wire lies      *)
(* below the saved counter, and the saved counter is the session's own as  *)
(* long as it did not panic.  On the receiver's side a bit of the window   *)
(* and an opened record are the same thing.  The re-key generations agree  *)
(* because those of the receiver are the first ones of the sender, and     *)
(* because the length of a base tells two generations apart.               *)
(***************************************************************************)
EXTENDS RecordChannel, DedupWindowProofs, TLAPS

Fields == {"chain_base", "next_seq", "gen_bases", "streams", "dedup", "overlap", "ack", "nak"}

\* Records that left are below the counter the owner saved, and no two share a seq.
WireBelowSaved ==
  /\ DOMAIN sender = Fields
  /\ sender.next_seq \in Nat /\ saved \in Nat /\ saved <= sender.next_seq
  /\ sender.next_seq <= U64Max
  /\ saved <= Limit + 1 /\ (~panicked => saved = sender.next_seq)
  /\ \A r \in net : r.seq \in Seqs /\ r.seq < saved
  /\ \A r1, r2 \in net : r1.seq = r2.seq => r1 = r2

\* The receiver's window was never rebuilt and has room for every opened record.
ReceiverTight ==
  /\ DOMAIN receiver = Fields
  /\ receiver.dedup \in Window /\ ~receiver.dedup.restored
  /\ receiver.dedup.lo = SlideLo(receiver.dedup.floor, receiver.dedup.hi)
  /\ receiver.dedup.hi <= Limit

OpenedIsMarked ==
  /\ opened \in [Seqs -> Nat]
  /\ \A q \in Seqs : opened[q] > 0 => q <= receiver.dedup.hi
  /\ \A q \in Seqs : q >= receiver.dedup.lo =>
       (opened[q] > 0 <=> q - receiver.dedup.lo \in receiver.dedup.seen)

ChannelInv == WireBelowSaved /\ ReceiverTight /\ OpenedIsMarked /\ OpenedAtMostOnce

-----------------------------------------------------------------------------
\* Two new sessions are in the invariant.
LEMMA InitChannelInv == Init => ChannelInv
<1> SUFFICES ASSUME Init PROVE ChannelInv
  OBVIOUS
<1>1. /\ DOMAIN sender = Fields /\ sender.next_seq = 0 /\ saved = 0 /\ net = {}
  BY DEF Init, OpenStream, NewSession, Fields
<1>2. SlideLo(0, 0) = 0
  BY WindowAssumption DEF SlideLo, SatInc, SatSub
<1>3. /\ DOMAIN receiver = Fields
      /\ receiver.dedup = [floor |-> 0, lo |-> 0, hi |-> 0, seen |-> {}, anomalies |-> 0,
                           restored |-> FALSE]
  BY <1>2 DEF Init, NewSession, NewWindow, Fields
<1>4. /\ receiver.dedup \in Window /\ receiver.dedup.restored = FALSE
      /\ receiver.dedup.floor = 0 /\ receiver.dedup.lo = 0 /\ receiver.dedup.hi = 0
      /\ receiver.dedup.seen = {}
  BY <1>3 DEF Window
<1>5. opened \in [Seqs -> Nat] /\ \A q \in Seqs : opened[q] = 0
  BY DEF Init
<1>6. WireBelowSaved
  BY <1>1, LimitAssumption, WindowAssumption DEF WireBelowSaved
<1>7. ReceiverTight
  BY <1>2, <1>3, <1>4, LimitAssumption DEF ReceiverTight
<1>8. OpenedIsMarked /\ OpenedAtMostOnce
  BY <1>4, <1>5 DEF OpenedIsMarked, OpenedAtMostOnce
<1> QED BY <1>6, <1>7, <1>8 DEF ChannelInv

\* Taking a seq moves the counter past it, below the limit and at it.
LEMMA SeqTaken ==
  ASSUME WireBelowSaved, ~panicked
  PROVE  /\ DOMAIN TakeSeq(sender) = Fields
         /\ sender.next_seq <= Limit => TakeSeq(sender).next_seq = sender.next_seq + 1
         /\ TakeSeq(sender).next_seq \in Nat /\ sender.next_seq <= TakeSeq(sender).next_seq
         /\ TakeSeq(sender).next_seq <= U64Max
<1>1. /\ DOMAIN sender = Fields /\ sender.next_seq \in Nat /\ sender.next_seq <= U64Max
  BY DEF WireBelowSaved
<1>2. TakeSeq(sender).next_seq = SatInc(sender.next_seq) /\ DOMAIN TakeSeq(sender) = Fields
  BY <1>1 DEF TakeSeq, Fields
<1>3. /\ SatInc(sender.next_seq) \in Nat /\ sender.next_seq <= SatInc(sender.next_seq)
      /\ SatInc(sender.next_seq) <= U64Max
      /\ sender.next_seq <= Limit => SatInc(sender.next_seq) = sender.next_seq + 1
  BY <1>1, LimitAssumption, WindowAssumption DEF SatInc
<1> QED BY <1>2, <1>3

\* A record on the wire, sealed with the counter before it moved, is new there.
LEMMA SealKeepsWire ==
  ASSUME WireBelowSaved, NEW r, r.seq = sender.next_seq, sender.next_seq <= Limit, ~panicked,
         net' = net \union {r}, DOMAIN sender' = Fields,
         sender'.next_seq = sender.next_seq + 1, saved' = sender'.next_seq
  PROVE  WireBelowSaved'
<1>1. /\ sender.next_seq \in Nat /\ saved = sender.next_seq
      /\ \A x \in net : x.seq \in Seqs /\ x.seq < saved
      /\ \A r1, r2 \in net : r1.seq = r2.seq => r1 = r2
  BY DEF WireBelowSaved
<1>2. Limit \in Nat /\ U64Max \in Nat /\ Limit < U64Max
  BY LimitAssumption, WindowAssumption
<1>3. r.seq \in Seqs /\ \A x \in net : x.seq # r.seq /\ x.seq < saved'
  BY <1>1, <1>2 DEF Seqs
<1>4. \A x \in net' : x.seq \in Seqs /\ x.seq < saved'
  BY <1>1, <1>3
<1>5. \A r1, r2 \in net' : r1.seq = r2.seq => r1 = r2
  BY <1>1, <1>3
<1> QED BY <1>1, <1>2, <1>4, <1>5 DEF WireBelowSaved

\* The steps of the sender leave the receiver, those of the receiver the sender.
LEMMA ReceiverUntouched ==
  ASSUME ChannelInv, UNCHANGED <<receiver, opened>>
  PROVE  ReceiverTight' /\ OpenedIsMarked' /\ OpenedAtMostOnce'
  BY DEF ChannelInv, ReceiverTight, OpenedIsMarked, OpenedAtMostOnce

\* seal_record, also when it panics after the seq is taken.
LEMMA SealKeepsInv == ChannelInv /\ SealRecord => ChannelInv'
<1> SUFFICES ASSUME ChannelInv, SealRecord PROVE ChannelInv'
  OBVIOUS
<1>1. WireBelowSaved /\ ~panicked /\ sender' = TakeSeq(sender) /\ UNCHANGED <<receiver, opened>>
  BY DEF ChannelInv, SealRecord, AfterSealRecord
<1>2. WireBelowSaved'
  <2>1. CASE SealPanics(sender)
    <3>1. panicked' /\ net' = net /\ saved' = saved
      BY <2>1 DEF SealRecord
    <3> QED BY <1>1, <3>1, SeqTaken DEF WireBelowSaved
  <2>2. CASE ~SealPanics(sender)
    <3> DEFINE r == Sealed(sender, "Data", 0, None)
    <3>1. sender.next_seq <= Limit
      BY <1>1, <2>2, LimitAssumption DEF SealPanics, TooFar, WireBelowSaved
    <3>2. net' = net \union {r} /\ saved' = sender'.next_seq
      BY <2>2 DEF SealRecord
    <3>3. r.seq = sender.next_seq
      BY DEF Sealed
    <3>4. sender'.next_seq = sender.next_seq + 1 /\ DOMAIN sender' = Fields
      BY <1>1, <3>1, SeqTaken
    <3> HIDE DEF r
    <3> QED BY <1>1, <3>1, <3>2, <3>3, <3>4, SealKeepsWire
  <2> QED BY <2>1, <2>2
<1> QED BY <1>1, <1>2, ReceiverUntouched DEF ChannelInv

\* begin_rekey: the REKEY takes a seq of its own.
LEMMA RekeyKeepsInv == ChannelInv /\ BeginRekey => ChannelInv'
<1> SUFFICES ASSUME ChannelInv, BeginRekey PROVE ChannelInv'
  OBVIOUS
<1> DEFINE r == Sealed(sender, "Rekey", 0, sender.next_seq)
<1>1. /\ WireBelowSaved /\ ~panicked /\ UNCHANGED <<receiver, opened>>
      /\ sender' = AfterRekey(sender, sender.next_seq)
      /\ net' = net \union {r} /\ saved' = sender'.next_seq
  BY DEF ChannelInv, BeginRekey
<1>2. sender.next_seq <= Limit /\ DOMAIN sender = Fields
  BY LimitAssumption DEF BeginRekey, CanRekey, ChannelInv, WireBelowSaved
<1>3. r.seq = sender.next_seq
  BY DEF Sealed
<1>4. DOMAIN TakeSeq(sender) = Fields /\ TakeSeq(sender).next_seq = sender.next_seq + 1
  BY <1>1, <1>2, SeqTaken
<1>5. DOMAIN sender' = Fields /\ sender'.next_seq = TakeSeq(sender).next_seq
  BY <1>1, <1>4 DEF AfterRekey, PushGeneration, Fields
<1> HIDE DEF r
<1>6. WireBelowSaved'
  BY <1>1, <1>2, <1>3, <1>4, <1>5, SealKeepsWire
<1> QED BY <1>1, <1>6, ReceiverUntouched DEF ChannelInv

\* resume_as_sender goes on with the saved counter.
LEMMA RestartKeepsInv == ChannelInv /\ SenderRestarts => ChannelInv'
<1> SUFFICES ASSUME ChannelInv, SenderRestarts PROVE ChannelInv'
  OBVIOUS
<1>1. /\ sender' = ResumeAsSender(K, saved, 0, saved - 1)
      /\ UNCHANGED <<saved, receiver, net, opened>>
  BY DEF SenderRestarts
<1>2. DOMAIN sender' = Fields /\ sender'.next_seq = saved
  BY <1>1 DEF ResumeAsSender, RestoreDedup, NewSession, Fields
<1>3. saved <= Limit + 1
  BY LimitAssumption DEF ChannelInv, WireBelowSaved, SenderRestarts
<1>4. WireBelowSaved'
  BY <1>1, <1>2, <1>3, LimitAssumption, WindowAssumption DEF ChannelInv, WireBelowSaved
<1> QED BY <1>1, <1>4, ReceiverUntouched DEF ChannelInv

\* open_stream touches neither the window nor the counter.
LEMMA OpenStreamKeepsInv == ChannelInv /\ ReceiverOpensStream => ChannelInv'
<1> SUFFICES ASSUME ChannelInv, ReceiverOpensStream PROVE ChannelInv'
  OBVIOUS
<1>1. receiver' = OpenStream(receiver, Flow) /\ UNCHANGED <<sender, saved, net, panicked, opened>>
  BY DEF ReceiverOpensStream
<1>2. DOMAIN receiver' = Fields /\ receiver'.dedup = receiver.dedup
  BY <1>1 DEF ChannelInv, ReceiverTight, OpenStream, Fields
<1> QED BY <1>1, <1>2
        DEF ChannelInv, WireBelowSaved, ReceiverTight, OpenedIsMarked, OpenedAtMostOnce

\* recv_record gives the record's seq to the window exactly if it opened.
LEMMA RecvIsAccept ==
  ASSUME ReceiverTight, NEW r
  PROVE  /\ DOMAIN AfterRecv(receiver, r) = Fields
         /\ AfterRecv(receiver, r).dedup =
              IF Verdict(receiver, r) = "Opened" THEN Accept(receiver.dedup, r.seq) ELSE receiver.dedup
         /\ Verdict(receiver, r) = "Opened" => IsNew(receiver.dedup, r.seq)
<1> DEFINE t == [receiver EXCEPT !.dedup = Accept(@, r.seq)]
<1>1. DOMAIN receiver = Fields
  BY DEF ReceiverTight
<1>2. DOMAIN t = Fields /\ t.dedup = Accept(receiver.dedup, r.seq)
  BY <1>1 DEF Fields
<1>3. \/ AfterRecv(receiver, r) = receiver /\ Verdict(receiver, r) # "Opened"
      \/ /\ Verdict(receiver, r) = "Opened"
         /\ AfterRecv(receiver, r) \in {t, PushGeneration(t, r.seq, Generation(r.base, r.data))}
  BY DEF AfterRecv
<1> HIDE DEF t
<1>4. /\ DOMAIN PushGeneration(t, r.seq, Generation(r.base, r.data)) = Fields
      /\ PushGeneration(t, r.seq, Generation(r.base, r.data)).dedup = t.dedup
  BY <1>2 DEF PushGeneration, Fields
<1>5. Verdict(receiver, r) = "Opened" => IsNew(receiver.dedup, r.seq)
  BY DEF Verdict
<1> QED BY <1>1, <1>2, <1>3, <1>4, <1>5

\* A record that opens was not opened before, and the window marks it.
LEMMA RecvKeepsInv ==
  ASSUME ChannelInv, NEW r \in net, Recv(r)
  PROVE  ChannelInv'
<1> DEFINE w == receiver.dedup
           v == receiver'.dedup
<1>1. /\ r.seq \in Seqs /\ r.seq \in Nat /\ r.seq <= Limit /\ r.seq < U64Max
      /\ Limit \in Nat /\ Limit < U64Max /\ U64Max \in Nat
  BY LimitAssumption, WindowAssumption DEF ChannelInv, WireBelowSaved, Seqs
<1>2. /\ w \in Window /\ ~w.restored /\ w.lo = SlideLo(w.floor, w.hi) /\ w.hi <= Limit
      /\ w.hi \in Nat /\ w.floor \in Nat /\ w.lo \in Nat /\ w.hi < U64Max
  BY <1>1 DEF ChannelInv, ReceiverTight, Window
<1>3. /\ receiver' = AfterRecv(receiver, r)
      /\ UNCHANGED <<sender, saved, net, panicked>>
      /\ opened' = IF Verdict(receiver, r) = "Opened" THEN [opened EXCEPT ![r.seq] = @ + 1] ELSE opened
  BY DEF Recv
<1>4. /\ DOMAIN receiver' = Fields
      /\ v = IF Verdict(receiver, r) = "Opened" THEN Accept(w, r.seq) ELSE w
      /\ Verdict(receiver, r) = "Opened" => IsNew(w, r.seq)
  BY <1>3, RecvIsAccept DEF ChannelInv
<1>5. WireBelowSaved'
  BY <1>3 DEF ChannelInv, WireBelowSaved
<1>6. CASE Verdict(receiver, r) # "Opened"
  BY <1>3, <1>4, <1>5, <1>6 DEF ChannelInv, ReceiverTight, OpenedIsMarked, OpenedAtMostOnce
<1>7. CASE Verdict(receiver, r) = "Opened"
  <2>1. IsNew(w, r.seq) /\ v = Accept(w, r.seq)
    BY <1>4, <1>7
  <2>2. /\ v \in Window /\ v.floor = w.floor /\ v.restored = w.restored
        /\ v.lo = SlideLo(v.floor, v.hi)
        /\ v.hi = IF r.seq > w.hi THEN r.seq ELSE w.hi
        /\ v.lo <= r.seq
        /\ \A s \in Nat : s >= v.lo =>
             (s - v.lo \in v.seen <=> s = r.seq \/ s - w.lo \in w.seen)
    BY <1>1, <1>2, <2>1, AcceptCases
  <2>3. /\ v.hi \in Nat /\ v.lo \in Nat /\ w.hi <= v.hi /\ v.hi <= Limit /\ r.seq <= v.hi
    BY <1>1, <1>2, <2>2 DEF Window
  <2>4. w.lo <= v.lo
    BY <1>1, <1>2, <2>2, <2>3, SlideLoMonotone
  <2>5. opened \in [Seqs -> Nat] /\ opened[r.seq] = 0
    <3>1. r.seq >= w.lo /\ (r.seq <= w.hi => r.seq - w.lo \notin w.seen)
      BY <1>1, <1>2, <2>1 DEF IsNew, Below, Bit
    <3>2. ~(opened[r.seq] > 0)
      BY <1>1, <1>2, <3>1 DEF ChannelInv, OpenedIsMarked
    <3> QED BY <1>1, <3>2 DEF ChannelInv, OpenedIsMarked
  <2>6. /\ opened' \in [Seqs -> Nat] /\ opened'[r.seq] = 1
        /\ \A q \in Seqs : q # r.seq => opened'[q] = opened[q]
    BY <1>1, <1>3, <1>7, <2>5
  <2>7. ReceiverTight'
    BY <1>2, <1>4, <2>2, <2>3 DEF ReceiverTight
  <2>8. OpenedIsMarked'
    <3>1. ASSUME NEW q \in Seqs, opened'[q] > 0
          PROVE  q <= v.hi
      <4>1. q \in Nat
        BY <1>1 DEF Seqs
      <4>2. q # r.seq => q <= w.hi
        BY <2>6, <3>1 DEF ChannelInv, OpenedIsMarked
      <4> HIDE DEF w, v
      <4> QED BY <1>2, <2>3, <4>1, <4>2
    <3>2. ASSUME NEW q \in Seqs, q >= v.lo
          PROVE  opened'[q] > 0 <=> q - v.lo \in v.seen
      <4>1. q \in Nat /\ q >= w.lo
        BY <1>1, <1>2, <2>3, <2>4, <3>2 DEF Seqs
      <4>2. opened[q] > 0 <=> q - w.lo \in w.seen
        BY <4>1 DEF ChannelInv, OpenedIsMarked
      <4>3. q - v.lo \in v.seen <=> q = r.seq \/ q - w.lo \in w.seen
        BY <2>2, <3>2, <4>1
      <4> QED BY <2>6, <4>2, <4>3
    <3> QED BY <2>6, <3>1, <3>2 DEF OpenedIsMarked
  <2>9. OpenedAtMostOnce'
    BY <2>6 DEF ChannelInv, OpenedAtMostOnce
  <2> QED BY <1>5, <2>7, <2>8, <2>9 DEF ChannelInv
<1> QED BY <1>6, <1>7

\* No step of the channel leaves the invariant.
LEMMA ChannelInvInductive == ChannelInv /\ [Next]_vars => ChannelInv'
<1> SUFFICES ASSUME ChannelInv, [Next]_vars PROVE ChannelInv'
  OBVIOUS
<1>1. CASE ReceiverOpensStream
  BY <1>1, OpenStreamKeepsInv
<1>2. CASE SealRecord
  BY <1>2, SealKeepsInv
<1>3. CASE BeginRekey
  BY <1>3, RekeyKeepsInv
<1>4. ASSUME NEW r \in net, Recv(r) PROVE ChannelInv'
  BY <1>4, RecvKeepsInv
<1>5. CASE SenderRestarts
  BY <1>5, RestartKeepsInv
<1>6. CASE UNCHANGED vars
  BY <1>6 DEF vars, ChannelInv, WireBelowSaved, ReceiverTight, OpenedIsMarked, OpenedAtMostOnce
<1> QED BY <1>1, <1>2, <1>3, <1>4, <1>5, <1>6 DEF Next

\* Every reachable state is in the invariant.
THEOREM ChannelInvariant == Spec => []ChannelInv
<1> QED BY InitChannelInv, ChannelInvInductive, PTL DEF Spec

\* No seq stands for two records, and the counter is ahead of the wire, across re-keys,
\* panics and restarts from the saved counter.
THEOREM SeqIsNeverReused == Spec => []NoSeqReuse
<1>1. ChannelInv => NoSeqReuse
  <2> SUFFICES ASSUME ChannelInv PROVE NoSeqReuse
    OBVIOUS
  <2>1. /\ sender.next_seq \in Nat /\ saved \in Nat /\ saved <= sender.next_seq
        /\ \A r \in net : r.seq \in Nat /\ r.seq < saved
        /\ \A r1, r2 \in net : r1.seq = r2.seq => r1 = r2
    BY LimitAssumption DEF ChannelInv, WireBelowSaved, Seqs
  <2> QED BY <2>1 DEF NoSeqReuse
<1> QED BY <1>1, ChannelInvariant, PTL

\* No record is opened twice, and no REKEY applied twice, in whatever order and however
\* often the network brings them.
THEOREM OpenedOnce == Spec => []OpenedAtMostOnce
<1>1. ChannelInv => OpenedAtMostOnce
  BY DEF ChannelInv
<1> QED BY <1>1, ChannelInvariant, PTL

\* A record that was not opened yet keeps its place until the window has passed it.
THEOREM SlotsAreKept == Spec => []SlotsOnlyForOpened
<1>1. ChannelInv => SlotsOnlyForOpened
  <2> SUFFICES ASSUME ChannelInv, NEW r \in net, opened[r.seq] = 0, ~Below(receiver.dedup, r.seq)
               PROVE  IsNew(receiver.dedup, r.seq)
    BY DEF SlotsOnlyForOpened
  <2>1. r.seq \in Seqs /\ r.seq \in Nat /\ receiver.dedup.lo \in Nat
    BY LimitAssumption DEF ChannelInv, WireBelowSaved, Seqs, ReceiverTight, Window
  <2>2. r.seq >= receiver.dedup.lo
    BY <2>1 DEF Below
  <2>3. r.seq - receiver.dedup.lo \notin receiver.dedup.seen
    BY <2>1, <2>2 DEF ChannelInv, OpenedIsMarked
  <2> QED BY <2>3 DEF ChannelInv, ReceiverTight, IsNew, Bit
<1> QED BY <1>1, ChannelInvariant, PTL

-----------------------------------------------------------------------------
\* The generations of a session that never restarted, its k-th base, and what a record
\* sealed under that base is.
Gens == [at : Nat, base : Seq({K} \union Nat)]
BaseOf(gens, k) == IF k = 0 THEN <<K>> ELSE gens[k].base

SealedIn(r, k) ==
  /\ \A i \in DOMAIN sender.gen_bases : sender.gen_bases[i].at < r.seq <=> i <= k
  /\ r.base = BaseOf(sender.gen_bases, k)
  /\ r.kind = "Rekey" =>
       /\ k < Len(sender.gen_bases)
       /\ sender.gen_bases[k + 1] = [at |-> r.seq, base |-> Generation(r.base, r.data)]

\* Bases are told apart by their lengths; a REKEY of the wire starts each but the first.
SenderGens ==
  /\ sender.chain_base = <<K>> /\ sender.gen_bases \in Seq(Gens)
  /\ \A i \in DOMAIN sender.gen_bases :
       /\ sender.gen_bases[i].at < sender.next_seq /\ Len(sender.gen_bases[i].base) = i + 1
       /\ \E r \in net : r.kind = "Rekey" /\ r.seq = sender.gen_bases[i].at
  /\ \A i, j \in DOMAIN sender.gen_bases :
       i < j => sender.gen_bases[i].at < sender.gen_bases[j].at

\* The receiver has the first generations of the sender: those whose REKEY it opened.
ReceiverGens ==
  /\ receiver.chain_base = <<K>> /\ receiver.gen_bases \in Seq(Gens)
  /\ Len(receiver.gen_bases) <= Len(sender.gen_bases)
  /\ \A i \in DOMAIN receiver.gen_bases : receiver.gen_bases[i] = sender.gen_bases[i]
  /\ \A i \in DOMAIN sender.gen_bases :
       opened[sender.gen_bases[i].at] > 0 <=> i <= Len(receiver.gen_bases)
  /\ \A q \in Seqs : opened[q] > 0 => q < sender.next_seq

WireGens == \A r \in net : \E k \in 0 .. Len(sender.gen_bases) : SealedIn(r, k)

GenInv == restarts \in Nat /\ (restarts = 0 => SenderGens /\ ReceiverGens /\ WireGens)

\* base_for of a session whose first k generations lie below seq.
LEMMA BaseOfSeq ==
  ASSUME NEW s, s.chain_base = <<K>>, s.gen_bases \in Seq(Gens), NEW seq,
         NEW k \in 0 .. Len(s.gen_bases),
         \A i \in DOMAIN s.gen_bases : seq > s.gen_bases[i].at <=> i <= k
  PROVE  BaseFor(s, seq) = BaseOf(s.gen_bases, k)
<1> DEFINE older == {i \in DOMAIN s.gen_bases : seq > s.gen_bases[i].at}
<1>1. DOMAIN s.gen_bases = 1 .. Len(s.gen_bases) /\ Len(s.gen_bases) \in Nat
  OBVIOUS
<1>2. older = 1 .. k /\ k \in Nat
  BY <1>1
<1>3. BaseFor(s, seq) = IF older = {} THEN s.chain_base ELSE s.gen_bases[Max(older)].base
  BY DEF BaseFor
<1> HIDE DEF older
<1>4. CASE k = 0
  <2>1. older = {}
    BY <1>2, <1>4
  <2> QED BY <1>3, <1>4, <2>1 DEF BaseOf
<1>5. CASE k # 0
  <2>1. k \in older /\ \A i \in older : k >= i
    BY <1>2, <1>5
  <2>2. Max(older) \in older /\ \A i \in older : Max(older) >= i
    BY <2>1 DEF Max
  <2>3. Max(older) = k /\ older # {}
    BY <1>2, <2>1, <2>2
  <2> QED BY <1>3, <1>5, <2>3 DEF BaseOf
<1> QED BY <1>4, <1>5

\* An entry of a stack of generations.
LEMMA GenShape ==
  ASSUME NEW gens \in Seq(Gens), NEW i \in DOMAIN gens
  PROVE  /\ gens[i] \in Gens /\ gens[i].at \in Nat /\ gens[i].base \in Seq({K} \union Nat)
         /\ gens[i] = [at |-> gens[i].at, base |-> gens[i].base]
<1>1. gens[i] \in Gens
  OBVIOUS
<1> QED BY <1>1 DEF Gens

\* The lengths of bases count generations.
LEMMA BasesByLength ==
  ASSUME SenderGens, NEW k \in 0 .. Len(sender.gen_bases)
  PROVE  BaseOf(sender.gen_bases, k) \in Seq({K} \union Nat)
         /\ Len(BaseOf(sender.gen_bases, k)) = k + 1
<1>1. CASE k = 0
  BY <1>1 DEF BaseOf
<1>2. CASE k # 0
  <2>1. sender.gen_bases \in Seq(Gens) /\ k \in DOMAIN sender.gen_bases
    BY <1>2 DEF SenderGens
  <2>2. sender.gen_bases[k] \in Gens
    BY <2>1
  <2>3. sender.gen_bases[k].base \in Seq({K} \union Nat) /\ Len(sender.gen_bases[k].base) = k + 1
    BY <2>1, <2>2 DEF SenderGens, Gens
  <2> QED BY <1>2, <2>3 DEF BaseOf
<1> QED BY <1>1, <1>2

\* The first state: neither side has re-keyed.
LEMMA InitGenInv == Init => GenInv
<1> SUFFICES ASSUME Init PROVE GenInv
  OBVIOUS
<1>1. /\ sender.chain_base = <<K>> /\ sender.gen_bases = <<>>
      /\ receiver.chain_base = <<K>> /\ receiver.gen_bases = <<>>
      /\ net = {} /\ restarts = 0 /\ \A q \in Seqs : opened[q] = 0
  BY DEF Init, OpenStream, NewSession
<1>2. <<>> \in Seq(Gens) /\ Len(<<>>) = 0 /\ DOMAIN <<>> = {}
  OBVIOUS
<1>3. SenderGens /\ ReceiverGens /\ WireGens
  BY <1>1, <1>2 DEF SenderGens, ReceiverGens, WireGens
<1> QED BY <1>1, <1>3 DEF GenInv

\* A sender that only takes seqs stays in its generation.
LEMMA SealKeepsGens == ChannelInv /\ GenInv /\ SealRecord => GenInv'
<1> SUFFICES ASSUME ChannelInv, GenInv, SealRecord, restarts = 0
             PROVE  SenderGens' /\ ReceiverGens' /\ WireGens'
  BY DEF GenInv, SealRecord
<1> DEFINE gs == sender.gen_bases
           r == Sealed(sender, "Data", 0, None)
<1>1. /\ SenderGens /\ ReceiverGens /\ WireGens /\ sender' = TakeSeq(sender) /\ ~panicked
      /\ net' \in {net, net \union {r}} /\ UNCHANGED <<receiver, opened>>
  BY DEF GenInv, SealRecord, AfterSealRecord
<1>2. /\ sender'.gen_bases = gs /\ sender'.chain_base = sender.chain_base
      /\ sender.next_seq \in Nat /\ sender'.next_seq \in Nat /\ sender.next_seq <= sender'.next_seq
  <2>1. WireBelowSaved
    BY DEF ChannelInv
  <2>2. sender'.gen_bases = gs /\ sender'.chain_base = sender.chain_base
    BY <1>1, <2>1 DEF WireBelowSaved, TakeSeq, Fields
  <2> QED BY <1>1, <2>1, <2>2, SeqTaken DEF WireBelowSaved
<1>3. gs \in Seq(Gens) /\ Len(gs) \in Nat /\ DOMAIN gs = 1 .. Len(gs)
  BY <1>1 DEF SenderGens
<1>4. \A i \in DOMAIN gs : gs[i].at \in Nat
  BY <1>3, GenShape
<1>5. SenderGens'
  <2>1. \A i \in DOMAIN gs : gs[i].at < sender'.next_seq
    BY <1>1, <1>2, <1>4 DEF SenderGens
  <2>2. \A i \in DOMAIN gs : \E x \in net' : x.kind = "Rekey" /\ x.seq = gs[i].at
    BY <1>1 DEF SenderGens
  <2> QED BY <1>1, <1>2, <2>1, <2>2 DEF SenderGens
<1>6. ReceiverGens'
  <2>1. \A q \in Seqs : opened[q] > 0 => q < sender'.next_seq
    BY <1>1, <1>2, LimitAssumption DEF ReceiverGens, Seqs
  <2> QED BY <1>1, <1>2, <2>1 DEF ReceiverGens
<1>7. SealedIn(r, Len(gs))
  <2>1. r.kind = "Data" /\ r.seq = sender.next_seq /\ r.base = BaseFor(sender, sender.next_seq)
    BY DEF Sealed
  <2>2. \A i \in DOMAIN gs : gs[i].at < sender.next_seq /\ i <= Len(gs)
    BY <1>1, <1>3 DEF SenderGens
  <2>3. \A i \in DOMAIN gs : sender.next_seq > gs[i].at
    BY <1>2, <1>4, <2>2
  <2>4. BaseFor(sender, sender.next_seq) = BaseOf(gs, Len(gs))
    <3>1. Len(gs) \in 0 .. Len(gs) /\ sender.chain_base = <<K>>
      BY <1>1, <1>3 DEF SenderGens
    <3> QED BY <1>3, <2>2, <2>3, <3>1, BaseOfSeq
  <2> QED BY <2>1, <2>2, <2>4 DEF SealedIn
<1>8. \A x \in net' : \E k \in 0 .. Len(gs) : SealedIn(x, k)
  <2> HIDE DEF r
  <2>1. Len(gs) \in 0 .. Len(gs)
    BY <1>3
  <2> QED BY <1>1, <1>7, <2>1 DEF WireGens
<1>9. WireGens'
  BY <1>2, <1>8 DEF WireGens, SealedIn
<1> QED BY <1>5, <1>6, <1>9

\* begin_rekey appends the generation above everything on the wire.
LEMMA RekeyKeepsGens == ChannelInv /\ GenInv /\ BeginRekey => GenInv'
<1> SUFFICES ASSUME ChannelInv, GenInv, BeginRekey, restarts = 0,
                    NEW r, r = Sealed(sender, "Rekey", 0, sender.next_seq),
                    NEW m, m = Len(sender.gen_bases)
             PROVE  SenderGens' /\ ReceiverGens' /\ WireGens'
  BY DEF GenInv, BeginRekey
<1> DEFINE gs == sender.gen_bases
           n == sender.next_seq
           g == [at |-> n, base |-> Generation(BaseFor(sender, n), n)]
           gt == Append(gs, g)
<1>1. /\ SenderGens /\ ReceiverGens /\ WireGens /\ ~panicked /\ WireBelowSaved
      /\ sender' = AfterRekey(sender, n) /\ n < Limit /\ n \in Nat
      /\ net' = net \union {r} /\ UNCHANGED <<receiver, opened>>
  BY DEF GenInv, BeginRekey, CanRekey, ChannelInv, WireBelowSaved
<1>2. /\ gs \in Seq(Gens) /\ m \in Nat /\ DOMAIN gs = 1 .. m /\ sender.chain_base = <<K>>
      /\ \A i \in 1 .. m : /\ gs[i].at \in Nat /\ gs[i].at < n /\ Len(gs[i].base) = i + 1
                            /\ \E x \in net : x.kind = "Rekey" /\ x.seq = gs[i].at
      /\ \A i, j \in 1 .. m : i < j => gs[i].at < gs[j].at
  BY <1>1, GenShape DEF SenderGens
<1>3. BaseFor(sender, n) = BaseOf(gs, m)
  <2>1. m \in 0 .. Len(gs) /\ \A i \in DOMAIN gs : n > gs[i].at <=> i <= m
    BY <1>1, <1>2
  <2> QED BY <1>2, <2>1, BaseOfSeq
<1>4. /\ r.kind = "Rekey" /\ r.seq = n /\ r.data = n /\ r.base = BaseOf(gs, m)
  BY <1>3 DEF Sealed
<1>5. BaseOf(gs, m) \in Seq({K} \union Nat) /\ Len(BaseOf(gs, m)) = m + 1
  BY <1>1, <1>2, BasesByLength
<1>6. g \in Gens /\ Len(g.base) = m + 2 /\ g.at = n /\ g = [at |-> n, base |-> Generation(r.base, n)]
  <2> DEFINE b == BaseOf(gs, m)
  <2> HIDE DEF b
  <2>1. Append(b, n) \in Seq({K} \union Nat) /\ Len(Append(b, n)) = m + 2
    BY <1>1, <1>2, <1>5 DEF b
  <2>2. g = [at |-> n, base |-> Append(b, n)] /\ g = [at |-> n, base |-> Generation(r.base, n)]
    BY <1>3, <1>4 DEF b, Generation
  <2> QED BY <1>1, <2>1, <2>2 DEF Gens
<1>7. /\ sender'.gen_bases = gt /\ sender'.chain_base = <<K>> /\ sender'.next_seq = n + 1
  <2>1. /\ DOMAIN TakeSeq(sender) = Fields /\ TakeSeq(sender).next_seq = n + 1
        /\ TakeSeq(sender).gen_bases = gs /\ TakeSeq(sender).chain_base = <<K>>
    <3>1. /\ TakeSeq(sender).gen_bases = gs /\ TakeSeq(sender).chain_base = <<K>>
      BY <1>1, <1>2 DEF WireBelowSaved, TakeSeq, Fields
    <3> QED BY <1>1, <3>1, SeqTaken, LimitAssumption
  <2>2. sender' = [TakeSeq(sender) EXCEPT !.gen_bases = Append(@, g)]
    BY <1>1 DEF AfterRekey, PushGeneration
  <2> HIDE DEF g, gs, n
  <2> QED BY <2>1, <2>2 DEF Fields
<1> HIDE DEF g
<1>8. /\ gt \in Seq(Gens) /\ Len(gt) = m + 1 /\ DOMAIN gt = 1 .. m + 1 /\ gt[m + 1] = g
      /\ \A i \in 1 .. m : gt[i] = gs[i]
  BY <1>2, <1>6
<1> HIDE DEF gt, n
<1>9. \A i \in 1 .. m + 1 : i \in 1 .. m \/ i = m + 1
  BY <1>2
<1>10. SenderGens'
  <2>1. ASSUME NEW i \in 1 .. m + 1
        PROVE  /\ gt[i].at < n + 1 /\ Len(gt[i].base) = i + 1
               /\ \E x \in net' : x.kind = "Rekey" /\ x.seq = gt[i].at
    <3>1. CASE i \in 1 .. m
      <4>1. gt[i] = gs[i] /\ gs[i].at \in Nat /\ gs[i].at < n /\ Len(gs[i].base) = i + 1
        BY <1>2, <1>8, <3>1
      <4>2. \E x \in net' : x.kind = "Rekey" /\ x.seq = gs[i].at
        BY <1>1, <1>2, <3>1
      <4> QED BY <1>1, <4>1, <4>2
    <3>2. CASE i = m + 1
      BY <1>1, <1>2, <1>4, <1>6, <1>8, <3>2
    <3> QED BY <1>9, <3>1, <3>2
  <2>2. \A i, j \in 1 .. m + 1 : i < j => gt[i].at < gt[j].at
    <3> SUFFICES ASSUME NEW i \in 1 .. m + 1, NEW j \in 1 .. m + 1, i < j
                 PROVE  gt[i].at < gt[j].at
      OBVIOUS
    <3>1. i \in 1 .. m /\ gt[i] = gs[i] /\ gs[i].at < n
      BY <1>2, <1>8
    <3>2. CASE j \in 1 .. m
      BY <1>2, <1>8, <3>1, <3>2
    <3>3. CASE j = m + 1
      BY <1>6, <1>8, <3>1, <3>3
    <3> QED BY <1>9, <3>2, <3>3
  <2> QED BY <1>7, <1>8, <2>1, <2>2 DEF SenderGens
<1>11. ReceiverGens'
  <2> DEFINE gr == receiver.gen_bases
  <2>1. /\ gr \in Seq(Gens) /\ Len(gr) <= m /\ Len(gr) \in Nat /\ DOMAIN gr = 1 .. Len(gr)
        /\ \A q \in Seqs : opened[q] > 0 => q < n
    BY <1>1, <1>2 DEF ReceiverGens, n
  <2>2. \A i \in DOMAIN gr : gr[i] = gt[i]
    BY <1>1, <1>2, <1>8, <2>1 DEF ReceiverGens
  <2>3. ~(opened[n] > 0)
    <3>1. n \in Seqs
      BY <1>1, LimitAssumption DEF Seqs
    <3> QED BY <1>1, <2>1, <3>1
  <2>4. \A i \in 1 .. m + 1 : opened[gt[i].at] > 0 <=> i <= Len(gr)
    <3>1. \A i \in 1 .. m : opened[gt[i].at] > 0 <=> i <= Len(gr)
      BY <1>1, <1>2, <1>8 DEF ReceiverGens
    <3>2. ~(m + 1 <= Len(gr)) /\ ~(opened[gt[m + 1].at] > 0)
      BY <1>2, <1>6, <1>8, <2>1, <2>3
    <3> QED BY <1>9, <3>1, <3>2
  <2>5. \A q \in Seqs : opened[q] > 0 => q < n + 1
    BY <1>1, <2>1, LimitAssumption DEF Seqs
  <2>6. Len(gr) <= m + 1 /\ receiver.chain_base = <<K>>
    BY <1>1, <1>2, <2>1 DEF ReceiverGens
  <2> QED BY <1>1, <1>7, <1>8, <2>1, <2>2, <2>4, <2>5, <2>6 DEF ReceiverGens
<1>12. WireGens'
  <2>1. ASSUME NEW x \in net, NEW k \in 0 .. m, SealedIn(x, k)
        PROVE  SealedIn(x, k)'
    <3>1. x.seq < n /\ x.seq \in Nat
      <4>1. saved \in Nat /\ saved <= n /\ x.seq \in Seqs /\ x.seq < saved
        BY <1>1 DEF WireBelowSaved, n
      <4> QED BY <1>1, <4>1, LimitAssumption DEF Seqs
    <3>2. \A i \in 1 .. m + 1 : gt[i].at < x.seq <=> i <= k
      <4>1. \A i \in 1 .. m : gt[i].at < x.seq <=> i <= k
        BY <1>2, <1>8, <2>1 DEF SealedIn
      <4>2. ~(m + 1 <= k) /\ ~(gt[m + 1].at < x.seq)
        BY <1>1, <1>2, <1>6, <1>8, <3>1
      <4> QED BY <1>9, <4>1, <4>2
    <3>3. BaseOf(gt, k) = BaseOf(gs, k)
      BY <1>2, <1>8 DEF BaseOf
    <3>4. x.kind = "Rekey" => k < m + 1 /\ gt[k + 1] = gs[k + 1] /\ k < m
      BY <1>2, <1>8, <2>1 DEF SealedIn
    <3> QED BY <1>7, <1>8, <2>1, <3>2, <3>3, <3>4 DEF SealedIn
  <2>2. SealedIn(r, m)'
    <3>1. \A i \in 1 .. m + 1 : gt[i].at < n <=> i <= m
      <4>1. \A i \in 1 .. m : gt[i].at < n /\ i <= m
        BY <1>2, <1>8
      <4>2. ~(gt[m + 1].at < n) /\ ~(m + 1 <= m)
        BY <1>1, <1>2, <1>6, <1>8
      <4> QED BY <1>9, <4>1, <4>2
    <3>2. BaseOf(gt, m) = BaseOf(gs, m) /\ m < m + 1
      BY <1>2, <1>8 DEF BaseOf
    <3> QED BY <1>4, <1>6, <1>7, <1>8, <3>1, <3>2 DEF SealedIn
  <2>3. \A k \in 0 .. m : k \in 0 .. m + 1
    BY <1>2
  <2>4. m \in 0 .. m
    BY <1>2
  <2>5. ASSUME NEW x \in net'
        PROVE  \E k \in 0 .. m + 1 : SealedIn(x, k)'
    <3>1. CASE x = r
      BY <2>2, <2>3, <2>4, <3>1
    <3>2. CASE x # r
      <4>1. x \in net
        BY <1>1, <3>2
      <4>2. PICK k \in 0 .. m : SealedIn(x, k)
        BY <1>1, <4>1 DEF WireGens
      <4> QED BY <2>1, <2>3, <4>1, <4>2
    <3> QED BY <3>1, <3>2
  <2> QED BY <1>7, <1>8, <2>5 DEF WireGens
<1> QED BY <1>10, <1>11, <1>12

\* A record that opens was not opened before.
LEMMA OpenedIsNewRecord ==
  ASSUME ChannelInv, NEW r \in net, Verdict(receiver, r) = "Opened"
  PROVE  opened[r.seq] = 0 /\ r.base = BaseFor(receiver, r.seq) /\ r.seq \in Seqs
<1>1. r.seq \in Seqs /\ r.seq \in Nat /\ receiver.dedup \in Window /\ ~receiver.dedup.restored
  BY LimitAssumption DEF ChannelInv, WireBelowSaved, ReceiverTight, Seqs
<1>2. IsNew(receiver.dedup, r.seq) /\ r.base = BaseFor(receiver, r.seq)
  BY DEF Verdict, Opens
<1>3. /\ r.seq >= receiver.dedup.lo
      /\ r.seq <= receiver.dedup.hi => r.seq - receiver.dedup.lo \notin receiver.dedup.seen
  BY <1>1, <1>2 DEF IsNew, Below, Bit, Window
<1>4. ~(opened[r.seq] > 0) /\ opened[r.seq] \in Nat
  BY <1>1, <1>3 DEF ChannelInv, OpenedIsMarked
<1> QED BY <1>1, <1>2, <1>4

\* No data record has the seq of a REKEY, and no two generations start at one seq.
LEMMA GenOfSeq ==
  ASSUME ChannelInv, SenderGens, NEW r \in net, NEW i \in DOMAIN sender.gen_bases,
         sender.gen_bases[i].at = r.seq
  PROVE  /\ r.kind = "Rekey"
         /\ \A j \in DOMAIN sender.gen_bases : sender.gen_bases[j].at = r.seq => j = i
<1>1. PICK x \in net : x.kind = "Rekey" /\ x.seq = sender.gen_bases[i].at
  BY DEF SenderGens
<1>2. x = r
  BY <1>1 DEF ChannelInv, WireBelowSaved
<1>3. sender.gen_bases \in Seq(Gens)
  BY DEF SenderGens
<1>4. ASSUME NEW j \in DOMAIN sender.gen_bases, sender.gen_bases[j].at = r.seq PROVE j = i
  <2>1. /\ sender.gen_bases[i].at \in Nat /\ i \in Nat /\ j \in Nat
    BY <1>3, GenShape
  <2>2. ~(i < j) /\ ~(j < i)
    BY <1>4, <2>1 DEF SenderGens
  <2> QED BY <2>1, <2>2
<1> QED BY <1>1, <1>2, <1>4

\* A REKEY that opens is the one of the receiver's next generation.
LEMMA OpenedRekeyIsNext ==
  ASSUME ChannelInv, SenderGens, ReceiverGens, WireGens, NEW r \in net, r.kind = "Rekey",
         Verdict(receiver, r) = "Opened"
  PROVE  /\ Len(receiver.gen_bases) + 1 \in DOMAIN sender.gen_bases
         /\ sender.gen_bases[Len(receiver.gen_bases) + 1]
              = [at |-> r.seq, base |-> Generation(r.base, r.data)]
<1> DEFINE gs == sender.gen_bases
           gr == receiver.gen_bases
           n == Len(gr)
<1>1. PICK k \in 0 .. Len(gs) : SealedIn(r, k)
  BY DEF WireGens
<1>2. /\ gs \in Seq(Gens) /\ gr \in Seq(Gens) /\ Len(gs) \in Nat /\ n \in Nat /\ n <= Len(gs)
      /\ DOMAIN gs = 1 .. Len(gs) /\ DOMAIN gr = 1 .. n /\ k \in Nat
      /\ \A i \in 1 .. n : gr[i] = gs[i]
  BY DEF SenderGens, ReceiverGens
<1>3. /\ k < Len(gs) /\ gs[k + 1] = [at |-> r.seq, base |-> Generation(r.base, r.data)]
      /\ r.base = BaseOf(gs, k) /\ \A i \in DOMAIN gs : gs[i].at < r.seq <=> i <= k
  BY <1>1 DEF SealedIn
<1>4. k + 1 \in DOMAIN gs /\ gs[k + 1].at = r.seq
  BY <1>2, <1>3
<1>5. opened[r.seq] = 0 /\ r.base = BaseFor(receiver, r.seq)
  BY OpenedIsNewRecord
<1>6. k >= n
  <2>1. ~(k + 1 <= n)
    BY <1>4, <1>5 DEF ReceiverGens
  <2> QED BY <1>2, <2>1
<1>7. BaseFor(receiver, r.seq) = BaseOf(gr, n)
  <2>1. r.seq \in Nat
    BY LimitAssumption DEF ChannelInv, WireBelowSaved, Seqs
  <2>2. ASSUME NEW i \in DOMAIN gr PROVE r.seq > gr[i].at /\ i <= n
    <3>1. i \in DOMAIN gs /\ i <= k /\ gr[i] = gs[i] /\ i <= n
      BY <1>2, <1>6
    <3>2. gs[i].at < r.seq /\ gs[i].at \in Nat
      BY <1>2, <1>3, <3>1, GenShape
    <3> QED BY <2>1, <3>1, <3>2
  <2>3. n \in 0 .. Len(gr) /\ receiver.chain_base = <<K>>
    BY <1>2 DEF ReceiverGens
  <2> QED BY <1>2, <2>2, <2>3, BaseOfSeq
<1>8. BaseOf(gr, n) = BaseOf(gs, n) /\ n \in 0 .. Len(gs)
  BY <1>2 DEF BaseOf
<1>9. Len(BaseOf(gs, n)) = n + 1 /\ Len(BaseOf(gs, k)) = k + 1
  BY <1>8, BasesByLength
<1> HIDE DEF gs, n
<1>10. k = n
  BY <1>2, <1>3, <1>5, <1>7, <1>8, <1>9
<1> QED BY <1>3, <1>4, <1>10 DEF gs, n

\* recv_record: the receiver takes over the sender's generations in their order.
LEMMA RecvKeepsGens ==
  ASSUME ChannelInv, GenInv, NEW r \in net, Recv(r)
  PROVE  GenInv'
<1> SUFFICES ASSUME restarts = 0 PROVE SenderGens' /\ ReceiverGens' /\ WireGens'
  BY DEF GenInv, Recv
<1> DEFINE gs == sender.gen_bases
           gr == receiver.gen_bases
           n == Len(gr)
           g == [at |-> r.seq, base |-> Generation(r.base, r.data)]
<1>1. /\ SenderGens /\ ReceiverGens /\ WireGens
      /\ receiver' = AfterRecv(receiver, r) /\ UNCHANGED <<sender, net>>
      /\ opened' = IF Verdict(receiver, r) = "Opened" THEN [opened EXCEPT ![r.seq] = @ + 1] ELSE opened
  BY DEF GenInv, Recv
<1>2. SenderGens' /\ WireGens'
  BY <1>1 DEF SenderGens, WireGens, SealedIn
<1>3. DOMAIN receiver = Fields /\ opened \in [Seqs -> Nat]
  BY DEF ChannelInv, ReceiverTight, OpenedIsMarked
<1>4. /\ gs \in Seq(Gens) /\ gr \in Seq(Gens) /\ Len(gs) \in Nat /\ n \in Nat /\ n <= Len(gs)
      /\ DOMAIN gs = 1 .. Len(gs) /\ DOMAIN gr = 1 .. n
      /\ receiver.chain_base = <<K>> /\ \A i \in 1 .. n : gr[i] = gs[i]
      /\ \A i \in 1 .. Len(gs) : opened[gs[i].at] > 0 <=> i <= n
      /\ \A q \in Seqs : opened[q] > 0 => q < sender.next_seq
  BY <1>1 DEF SenderGens, ReceiverGens
<1>5. CASE Verdict(receiver, r) # "Opened"
  <2>1. receiver' = receiver /\ opened' = opened
    BY <1>1, <1>5 DEF AfterRecv
  <2> QED BY <1>1, <1>2, <2>1 DEF ReceiverGens
<1>6. CASE Verdict(receiver, r) = "Opened"
  <2>1. r.seq \in Seqs /\ opened[r.seq] = 0 /\ r.seq < sender.next_seq
    <3>1. /\ sender.next_seq \in Nat /\ saved \in Nat /\ saved <= sender.next_seq
          /\ r.seq \in Seqs /\ r.seq < saved
      BY DEF ChannelInv, WireBelowSaved
    <3>2. r.seq \in Nat
      BY <3>1, LimitAssumption DEF Seqs
    <3> QED BY <1>6, <3>1, <3>2, OpenedIsNewRecord
  <2>2. /\ opened' \in [Seqs -> Nat] /\ opened'[r.seq] > 0
        /\ \A q : q # r.seq => opened'[q] = opened[q]
    BY <1>1, <1>3, <1>6, <2>1
  <2>3. \A q \in Seqs : opened'[q] > 0 => q < sender.next_seq
    BY <1>4, <2>1, <2>2
  <2> DEFINE t == [receiver EXCEPT !.dedup = Accept(@, r.seq)]
  <2>4. DOMAIN t = Fields /\ t.gen_bases = gr /\ t.chain_base = <<K>>
    BY <1>3, <1>4 DEF Fields
  <2>5. receiver' = IF r.kind = "Rekey" THEN [t EXCEPT !.gen_bases = Append(@, g)] ELSE t
    BY <1>1, <1>6 DEF AfterRecv, PushGeneration
  <2> HIDE DEF t, g
  <2>6. CASE r.kind # "Rekey"
    <3>1. receiver'.gen_bases = gr /\ receiver'.chain_base = <<K>>
      BY <2>4, <2>5, <2>6
    <3>2. \A i \in 1 .. Len(gs) : gs[i].at # r.seq
      BY <1>1, <1>4, <2>6, GenOfSeq
    <3>3. \A i \in 1 .. Len(gs) : opened'[gs[i].at] > 0 <=> i <= n
      BY <1>4, <2>2, <3>2
    <3>4. ReceiverGens'
      BY <1>1, <1>4, <2>3, <3>1, <3>3 DEF ReceiverGens
    <3> QED BY <1>2, <3>4
  <2>7. CASE r.kind = "Rekey"
    <3>1. n + 1 \in 1 .. Len(gs) /\ gs[n + 1] = g
      <4>1. Len(gr) + 1 \in DOMAIN gs /\ gs[Len(gr) + 1] = g
        BY <1>1, <1>6, <2>7, OpenedRekeyIsNext DEF g
      <4> QED BY <1>4, <4>1
    <3>2. receiver'.gen_bases = Append(gr, g) /\ receiver'.chain_base = <<K>>
      BY <2>4, <2>5, <2>7 DEF Fields
    <3>3. g \in Gens /\ g.at = r.seq
      BY <1>4, <3>1 DEF g
    <3> HIDE DEF gs
    <3>4. /\ Append(gr, g) \in Seq(Gens) /\ Len(Append(gr, g)) = n + 1
          /\ DOMAIN Append(gr, g) = 1 .. n + 1
          /\ Append(gr, g)[n + 1] = g /\ \A i \in 1 .. n : Append(gr, g)[i] = gr[i]
      BY <1>4, <3>3
    <3> HIDE DEF n
    <3>5. \A i \in 1 .. n + 1 : i \in 1 .. n \/ i = n + 1
      BY <1>4
    <3>6. \A i \in 1 .. n + 1 : Append(gr, g)[i] = gs[i]
      BY <1>4, <3>1, <3>4, <3>5
    <3>7. ASSUME NEW i \in 1 .. Len(gs)
          PROVE  opened'[gs[i].at] > 0 <=> i <= n + 1
      <4>1. CASE i = n + 1
        BY <1>4, <2>2, <3>1, <3>3, <4>1
      <4>2. CASE i # n + 1
        <5>1. gs[n + 1].at = r.seq
          BY <3>1, <3>3
        <5>2. gs[i].at # r.seq
          BY <1>1, <1>4, <3>1, <4>2, <5>1, GenOfSeq DEF gs
        <5>3. opened'[gs[i].at] = opened[gs[i].at]
          BY <2>2, <5>2
        <5>4. i <= n + 1 <=> i <= n
          BY <1>4, <4>2
        <5> QED BY <1>4, <5>3, <5>4
      <4> QED BY <4>1, <4>2
    <3>8. n + 1 <= Len(gs)
      BY <1>4, <3>1
    <3>9. ReceiverGens'
      <4>1. sender'.gen_bases = gs /\ DOMAIN gs = 1 .. Len(gs) /\ sender' = sender
        BY <1>1, <1>4 DEF gs
      <4> QED BY <2>3, <3>2, <3>4, <3>6, <3>7, <3>8, <4>1 DEF ReceiverGens
    <3> QED BY <1>2, <3>9
  <2> QED BY <2>6, <2>7
<1> QED BY <1>5, <1>6

\* No step leaves the two stacks apart.
LEMMA GenInvInductive == ChannelInv /\ GenInv /\ [Next]_vars => GenInv'
<1> SUFFICES ASSUME ChannelInv, GenInv, [Next]_vars PROVE GenInv'
  OBVIOUS
<1>1. CASE ReceiverOpensStream
  <2>1. /\ receiver' = OpenStream(receiver, Flow) /\ UNCHANGED <<sender, net, opened, restarts>>
        /\ DOMAIN receiver = Fields
    BY <1>1 DEF ReceiverOpensStream, ChannelInv, ReceiverTight
  <2>2. receiver'.gen_bases = receiver.gen_bases /\ receiver'.chain_base = receiver.chain_base
    BY <2>1 DEF OpenStream, Fields
  <2> QED BY <2>1, <2>2 DEF GenInv, SenderGens, ReceiverGens, WireGens, SealedIn
<1>2. CASE SealRecord
  BY <1>2, SealKeepsGens
<1>3. CASE BeginRekey
  BY <1>3, RekeyKeepsGens
<1>4. ASSUME NEW r \in net, Recv(r) PROVE GenInv'
  BY <1>4, RecvKeepsGens
<1>5. CASE SenderRestarts
  <2>1. restarts' = restarts + 1 /\ restarts \in Nat
    BY <1>5 DEF SenderRestarts, GenInv
  <2>2. restarts' \in Nat /\ restarts' # 0
    BY <2>1
  <2> QED BY <2>2 DEF GenInv
<1>6. CASE UNCHANGED vars
  BY <1>6 DEF vars, GenInv, SenderGens, ReceiverGens, WireGens, SealedIn
<1> QED BY <1>1, <1>2, <1>3, <1>4, <1>5, <1>6 DEF Next

\* A receiver that has opened every REKEY below a record has the key of that record,
\* however many later ones it has opened too.
THEOREM SplitFollowsSeq == Spec => []SeqSplit
<1>1. ChannelInv /\ GenInv => SeqSplit
  <2> SUFFICES ASSUME ChannelInv, GenInv, restarts = 0, NEW r \in net, RekeysOpened(0, r.seq)
               PROVE  Opens(receiver, r)
    BY DEF SeqSplit
  <2> DEFINE gs == sender.gen_bases
             gr == receiver.gen_bases
  <2>1. SenderGens /\ ReceiverGens /\ WireGens
    BY DEF GenInv
  <2>2. PICK k \in 0 .. Len(gs) : SealedIn(r, k)
    BY <2>1 DEF WireGens
  <2>3. /\ gs \in Seq(Gens) /\ gr \in Seq(Gens) /\ Len(gs) \in Nat /\ Len(gr) \in Nat
        /\ Len(gr) <= Len(gs) /\ DOMAIN gs = 1 .. Len(gs) /\ DOMAIN gr = 1 .. Len(gr)
        /\ \A i \in 1 .. Len(gr) : gr[i] = gs[i]
        /\ k \in Nat /\ receiver.chain_base = <<K>>
    BY <2>1 DEF SenderGens, ReceiverGens
  <2>4. r.base = BaseOf(gs, k) /\ \A i \in DOMAIN gs : gs[i].at < r.seq <=> i <= k
    BY <2>2 DEF SealedIn
  <2>5. r.seq \in Nat /\ r.seq <= Limit
    BY LimitAssumption DEF ChannelInv, WireBelowSaved, Seqs
  <2>6. k <= Len(gr)
    <3>1. CASE k = 0
      BY <2>3, <3>1
    <3>2. CASE k # 0
      <4>1. k \in DOMAIN gs /\ gs[k].at < r.seq
        BY <2>3, <2>4, <3>2
      <4>2. PICK x \in net : x.kind = "Rekey" /\ x.seq = gs[k].at
        BY <2>1, <4>1 DEF SenderGens
      <4>3. x.seq >= 0
        BY LimitAssumption DEF ChannelInv, WireBelowSaved, Seqs
      <4>4. opened[gs[k].at] = 1
        BY <4>1, <4>2, <4>3 DEF RekeysOpened
      <4> QED BY <2>1, <4>1, <4>4 DEF ReceiverGens
    <3> QED BY <3>1, <3>2
  <2>7. ASSUME NEW i \in DOMAIN gr PROVE r.seq > gr[i].at <=> i <= k
    <3>1. i \in DOMAIN gs /\ gr[i] = gs[i]
      BY <2>3
    <3>2. gs[i].at \in Nat
      BY <2>3, <3>1, GenShape
    <3>3. gs[i].at < r.seq <=> i <= k
      BY <2>4, <3>1
    <3> QED BY <2>5, <3>1, <3>2, <3>3
  <2>8. k \in 0 .. Len(gr)
    BY <2>3, <2>6
  <2>9. BaseFor(receiver, r.seq) = BaseOf(gr, k)
    BY <2>3, <2>7, <2>8, BaseOfSeq
  <2>10. BaseOf(gr, k) = BaseOf(gs, k)
    BY <2>3, <2>6 DEF BaseOf
  <2>11. ~TooFar(r.seq)
    BY <2>5, LimitAssumption DEF TooFar
  <2> QED BY <2>4, <2>9, <2>10, <2>11 DEF Opens
<1>2. Spec => []GenInv
  BY InitGenInv, GenInvInductive, ChannelInvariant, PTL DEF Spec
<1> QED BY <1>1, <1>2, ChannelInvariant, PTL
=============================================================================
