-------------------------- MODULE ClientPathProofs --------------------------
(***************************************************************************)
(* Proofs about ClientPath, for every set of hosts, every pool that fits   *)
(* the addresses, every set of rules, every binding and every cap.         *)
(*                                                                         *)
(* The invariant follows a packet: the name it was sent to (NamesInv), the *)
(* packet itself until it is sealed (PacketsInv), its place behind those   *)
(* that came earlier (OrderInv), its flow and stream (FlowsInv), and its   *)
(* frame in the outbox, at the writer and on the wire (BindingInv,         *)
(* WayInv).  The lemmas on folds go by induction over the cells that are   *)
(* summed, as a least counterexample in a well-founded order.              *)
(***************************************************************************)
EXTENDS ClientPath, FiniteSetTheorems, SequenceTheorems, WellFoundedInduction, TLAPS

-----------------------------------------------------------------------------
(***************************************************************************)
(* The pool.  PoolIsSound speaks of two hosts and of a free list; what     *)
(* keeps it true is that every address below next is either one host's or  *)
(* free once, so that a pool below its Cap with nothing free still has a   *)
(* fresh address, and that the queue of hosts has each of them once.       *)
(***************************************************************************)
PoolRange == FirstIp .. LastIp

PoolShape(p) ==
  p \in [by_host : UNION {[D -> PoolRange] : D \in SUBSET Hosts}, order : Seq(Hosts),
         next : FirstIp .. LastIp + 1, free : Seq(PoolRange)]

\* No element twice, and the elements of a sequence.
Distinct(s) == \A i, j \in 1 .. Len(s) : i # j => s[i] # s[j]
Members(s) == {s[i] : i \in 1 .. Len(s)}

AddressesApart(p) ==
  /\ \A h \in DOMAIN p.by_host : p.by_host[h] < p.next /\ p.by_host[h] \notin Members(p.free)
  /\ \A g, h \in DOMAIN p.by_host : g # h => p.by_host[g] # p.by_host[h]
  /\ Distinct(p.free) /\ \A a \in Members(p.free) : a < p.next

InOrder(p) == Distinct(p.order) /\ Members(p.order) = DOMAIN p.by_host

NoAddressLost(p) ==
  /\ p.next = FirstIp + Cardinality(DOMAIN p.by_host) + Len(p.free)
  /\ Cardinality(DOMAIN p.by_host) <= Cap

GoodPool(p) == PoolShape(p) /\ AddressesApart(p) /\ InOrder(p) /\ NoAddressLost(p)

(***************************************************************************)
(* The rest of the invariant, part by part.                                *)
(***************************************************************************)
\* Who was not evicted still holds the address its applications know.
NamesInv ==
  /\ GoodPool(pool)
  /\ answers \in [Hosts -> PoolRange \union {None}]
  /\ evicted \subseteq Hosts
  /\ \A h \in Hosts \ evicted : answers[h] # None =>
       h \in DOMAIN pool.by_host /\ pool.by_host[h] = answers[h]

Packets == [host : Hosts \union {NoHost}, dst : Addresses, options : Addresses \union {None},
            len : Lens, n : Nat]
Answers == {"TransportDown", "Unsupported", "Ok", "WouldBlock"}
Records == [packet : Packets, stream : Nat,
            answer : Answers]

\* A packet for a host that was not evicted goes to the address that host holds.
ForItsHost(p) ==
  p.host # NoHost /\ p.host \notin evicted
    => p.host \in DOMAIN pool.by_host /\ p.dst = pool.by_host[p.host]

PacketsInv ==
  /\ opened \in BOOLEAN
  /\ inbound \in Seq(Packets) /\ held \in Packets \union {None} /\ records \in Seq(Records)
  /\ \A i \in 1 .. Len(inbound) : ForItsHost(inbound[i])
  /\ held # None => ForItsHost(held)
  /\ \A i \in 1 .. Len(records) : ForItsHost(records[i].packet)

\* Sealed before held, held before waiting, and all of it among the inputs.
OrderInv ==
  /\ inputs \in 0 .. MaxInputs
  /\ Len(records) + Len(inbound) + (IF held = None THEN 0 ELSE 1) <= inputs
  /\ \A i, j \in 1 .. Len(records) : i < j => records[i].packet.n < records[j].packet.n
  /\ \A i, j \in 1 .. Len(inbound) : i < j => inbound[i].n < inbound[j].n
  /\ \A i \in 1 .. Len(records), j \in 1 .. Len(inbound) : records[i].packet.n < inbound[j].n
  /\ held # None => /\ held.n < inputs
                    /\ \A i \in 1 .. Len(records) : records[i].packet.n < held.n
                    /\ \A i \in 1 .. Len(inbound) : held.n < inbound[i].n
  /\ \A i \in 1 .. Len(records) : records[i].packet.n < inputs
  /\ \A i \in 1 .. Len(inbound) : inbound[i].n < inputs

\* Flows are numbered in the order they came, the stream table lists them, and a
\* record's stream is the flow of its address.
FlowsInv ==
  /\ IsFiniteSet(DOMAIN flows) /\ DOMAIN flows \subseteq Addresses
  /\ \A a \in DOMAIN flows : flows[a] \in 1 .. Cardinality(DOMAIN flows)
  /\ \A a, b \in DOMAIN flows : flows[a] = flows[b] => a = b
  /\ DOMAIN session = DOMAIN NewSession(K)
  /\ session.next_seq = Len(records)
  /\ session.streams \in Seq(Nat) /\ Len(session.streams) = Cardinality(DOMAIN flows)
  /\ \A i \in 1 .. Len(session.streams) : session.streams[i] = i
  /\ \A i \in 1 .. Len(records) :
       LET dst == FlowKey(records[i].packet).dst IN
       dst \in DOMAIN flows /\ records[i].stream = flows[dst] - 1

Frames == [seq : Nat, size : Nat]
Bindings == [kind : BindingKinds, outbox : [frames : Seq(Frames), bytes : Nat],
             failure : Failures \union {NoFailure}, closed : BOOLEAN, closed_reported : BOOLEAN,
             offered : Nat]

BindingInv == binding \in Bindings /\ OutboxCounts /\ events \in Seq(Failures)

WayInv ==
  writer \in Seq(Frames) /\ wire \in Seq(Frames) /\ drainFailed \in BOOLEAN /\ NothingVanishes

PathInv == NamesInv /\ PacketsInv /\ OrderInv /\ FlowsInv /\ BindingInv /\ WayInv
-----------------------------------------------------------------------------
\* Head and Tail of a sequence, position by position.
LEMMA HeadAndTail ==
  ASSUME NEW S, NEW s \in Seq(S), s # <<>>
  PROVE  /\ Head(s) = s[1] /\ Head(s) \in S
         /\ Tail(s) \in Seq(S) /\ Len(s) \in Nat \ {0} /\ Len(Tail(s)) = Len(s) - 1
         /\ \A i \in 1 .. Len(s) - 1 : Tail(s)[i] = s[i + 1]
BY HeadTailProperties, EmptySeq

\* Append, position by position.
LEMMA AppendAt ==
  ASSUME NEW S, NEW s \in Seq(S), NEW e \in S
  PROVE  /\ Append(s, e) \in Seq(S) /\ Len(s) \in Nat /\ Len(Append(s, e)) = Len(s) + 1
         /\ Append(s, e)[Len(s) + 1] = e
         /\ \A i \in 1 .. Len(s) : Append(s, e)[i] = s[i]
BY AppendProperties, LenProperties

\* What leaves at the head of a sequence without repetition is gone.
LEMMA DistinctTail ==
  ASSUME NEW S, NEW s \in Seq(S), s # <<>>, Distinct(s)
  PROVE  /\ Distinct(Tail(s)) /\ Members(Tail(s)) = Members(s) \ {Head(s)}
         /\ Head(s) \in Members(s)
<1> DEFINE t == Tail(s)
           n == Len(s)
<1>1. /\ Head(s) = s[1] /\ n \in Nat \ {0} /\ Len(t) = n - 1
      /\ \A i \in 1 .. n - 1 : t[i] = s[i + 1]
  BY HeadAndTail
<1>2. \A i, j \in 1 .. n : i # j => s[i] # s[j]
  BY DEF Distinct
<1> HIDE DEF t, n
<1>3. \A i, j \in 1 .. n - 1 : i # j => t[i] # t[j]
  BY <1>1, <1>2
<1>4. {t[i] : i \in 1 .. n - 1} = {s[i] : i \in 1 .. n} \ {s[1]}
  <2>1. ASSUME NEW i \in 1 .. n - 1
        PROVE  t[i] \in {s[k] : k \in 1 .. n} \ {s[1]}
    BY <1>1, <1>2
  <2>2. ASSUME NEW i \in 1 .. n, s[i] # s[1]
        PROVE  s[i] \in {t[k] : k \in 1 .. n - 1}
    <3>1. i - 1 \in 1 .. n - 1 /\ t[i - 1] = s[i]
      BY <1>1, <2>2
    <3> QED BY <3>1
  <2> QED BY <2>1, <2>2
<1>5. s[1] \in {s[i] : i \in 1 .. n}
  BY <1>1
<1> QED BY <1>1, <1>3, <1>4, <1>5 DEF Distinct, Members, t, n

\* What is appended is one member more.
LEMMA DistinctAppend ==
  ASSUME NEW S, NEW s \in Seq(S), NEW e \in S, Distinct(s), e \notin Members(s)
  PROVE  Distinct(Append(s, e)) /\ Members(Append(s, e)) = Members(s) \union {e}
<1> DEFINE t == Append(s, e)
           n == Len(s)
<1>1. /\ n \in Nat /\ Len(t) = n + 1 /\ t[n + 1] = e
      /\ \A i \in 1 .. n : t[i] = s[i]
  BY AppendAt
<1>2. /\ \A i, j \in 1 .. n : i # j => s[i] # s[j]
      /\ \A i \in 1 .. n : s[i] # e
  BY DEF Distinct, Members
<1> HIDE DEF t, n
<1>3. \A i \in 1 .. n + 1 : i \in 1 .. n \/ i = n + 1
  BY <1>1
<1>4. \A i, j \in 1 .. n + 1 : i # j => t[i] # t[j]
  BY <1>1, <1>2, <1>3
<1>5. {t[i] : i \in 1 .. n + 1} = {s[i] : i \in 1 .. n} \union {e}
  <2>1. n + 1 \in 1 .. n + 1 /\ \A i \in 1 .. n : i \in 1 .. n + 1
    BY <1>1
  <2> QED BY <1>1, <1>3, <2>1
<1> QED BY <1>1, <1>4, <1>5 DEF Distinct, Members, t, n

\* The parts of a good pool, with the fields' types spelled out.
LEMMA PoolFields ==
  ASSUME NEW p, GoodPool(p)
  PROVE  /\ DOMAIN p.by_host \subseteq Hosts /\ IsFiniteSet(DOMAIN p.by_host)
         /\ Cardinality(DOMAIN p.by_host) \in Nat
         /\ \A h \in DOMAIN p.by_host : p.by_host[h] \in PoolRange
         /\ p.order \in Seq(Hosts) /\ p.free \in Seq(PoolRange)
         /\ p.next \in Int /\ FirstIp \in Nat /\ LastIp \in Nat
         /\ FirstIp <= p.next /\ p.next <= LastIp + 1
         /\ Len(p.free) \in Nat /\ Len(p.order) \in Nat
         /\ p = [by_host |-> p.by_host, order |-> p.order, next |-> p.next, free |-> p.free]
<1>1. PICK D \in SUBSET Hosts : p.by_host \in [D -> PoolRange]
  BY DEF GoodPool, PoolShape
<1>2. p.order \in Seq(Hosts) /\ p.free \in Seq(PoolRange) /\ p.next \in FirstIp .. LastIp + 1
  BY DEF GoodPool, PoolShape
<1>3. IsFiniteSet(DOMAIN p.by_host) /\ Cardinality(DOMAIN p.by_host) \in Nat
  BY <1>1, PoolAssumption, FS_Subset, FS_CardinalityType
<1>4. Len(p.free) \in Nat /\ Len(p.order) \in Nat
  BY <1>2, LenProperties
<1>5. p = [by_host |-> p.by_host, order |-> p.order, next |-> p.next, free |-> p.free]
  BY DEF GoodPool, PoolShape
<1> QED BY <1>1, <1>2, <1>3, <1>4, <1>5, PoolAssumption

\* A pool is good when its parts are.
LEMMA GoodPoolIf ==
  ASSUME NEW hosts, NEW order \in Seq(Hosts), NEW next \in FirstIp .. LastIp + 1,
         NEW free \in Seq(PoolRange), DOMAIN hosts \subseteq Hosts,
         hosts = [h \in DOMAIN hosts |-> hosts[h]],
         \A h \in DOMAIN hosts : hosts[h] \in PoolRange /\ hosts[h] < next /\ hosts[h] \notin Members(free),
         \A g, h \in DOMAIN hosts : g # h => hosts[g] # hosts[h],
         Distinct(free), \A a \in Members(free) : a < next,
         Distinct(order), Members(order) = DOMAIN hosts,
         next = FirstIp + Cardinality(DOMAIN hosts) + Len(free),
         Cardinality(DOMAIN hosts) <= Cap
  PROVE  GoodPool([by_host |-> hosts, order |-> order, next |-> next, free |-> free])
<1> DEFINE p == [by_host |-> hosts, order |-> order, next |-> next, free |-> free]
<1>1. p.by_host = hosts /\ p.order = order /\ p.next = next /\ p.free = free
  OBVIOUS
<1>2. hosts \in [DOMAIN hosts -> PoolRange] /\ DOMAIN hosts \in SUBSET Hosts
  OBVIOUS
<1>3. hosts \in UNION {[D -> PoolRange] : D \in SUBSET Hosts}
  BY <1>2
<1>4. PoolShape(p)
  BY <1>3 DEF PoolShape
<1>5. AddressesApart(p) /\ InOrder(p) /\ NoAddressLost(p)
  BY DEF AddressesApart, InOrder, NoAddressLost
<1> QED BY <1>4, <1>5 DEF GoodPool

\* The empty pool is good.
LEMMA EmptyPoolIsGood == GoodPool(EmptyPool)
<1>1. DOMAIN <<>> = {} /\ Len(<<>>) = 0 /\ <<>> \in Seq(Hosts) /\ <<>> \in Seq(PoolRange)
  BY EmptySeq
<1>2. Distinct(<<>>) /\ Members(<<>>) = {} /\ <<>> = [h \in {} |-> <<>>[h]]
  BY <1>1 DEF Distinct, Members
<1>3. FirstIp \in FirstIp .. LastIp + 1 /\ FirstIp = FirstIp + 0 + 0 /\ 0 <= Cap
  BY PoolAssumption
<1>4. Cardinality({}) = 0
  BY FS_EmptySet
<1> QED BY <1>1, <1>2, <1>3, <1>4, GoodPoolIf DEF EmptyPool

\* The oldest host leaves: its address is free, and nobody else's changes.
LEMMA EvictedIsGood ==
  ASSUME NEW p, GoodPool(p), p.order # <<>>
  PROVE  /\ GoodPool(Evicted(p))
         /\ DOMAIN Evicted(p).by_host \subseteq DOMAIN p.by_host
         /\ \A h \in DOMAIN Evicted(p).by_host : Evicted(p).by_host[h] = p.by_host[h]
         /\ Cardinality(DOMAIN Evicted(p).by_host) = Cardinality(DOMAIN p.by_host) - 1
<1> DEFINE D == DOMAIN p.by_host
           oldest == Head(p.order)
           hosts == [h \in D \ {oldest} |-> p.by_host[h]]
           free == Append(p.free, p.by_host[oldest])
<1>1. /\ D \subseteq Hosts /\ IsFiniteSet(D) /\ Cardinality(D) \in Nat
      /\ \A h \in D : p.by_host[h] \in PoolRange
      /\ p.order \in Seq(Hosts) /\ p.free \in Seq(PoolRange)
      /\ p.next \in FirstIp .. LastIp + 1 /\ Len(p.free) \in Nat
  BY PoolFields, PoolAssumption
<1>2. /\ Distinct(Tail(p.order)) /\ Members(Tail(p.order)) = D \ {oldest}
      /\ oldest \in D /\ Tail(p.order) \in Seq(Hosts)
  BY <1>1, DistinctTail, HeadAndTail DEF GoodPool, InOrder
<1>3. /\ \A h \in D : p.by_host[h] < p.next /\ p.by_host[h] \notin Members(p.free)
      /\ \A g, h \in D : g # h => p.by_host[g] # p.by_host[h]
      /\ Distinct(p.free) /\ \A a \in Members(p.free) : a < p.next
  BY DEF GoodPool, AddressesApart
<1>4. p.next = FirstIp + Cardinality(D) + Len(p.free) /\ Cardinality(D) <= Cap
  BY DEF GoodPool, NoAddressLost
<1>5. Evicted(p) = [by_host |-> hosts, order |-> Tail(p.order), next |-> p.next, free |-> free]
  BY DEF Evicted
<1> HIDE DEF free
<1>6. /\ free \in Seq(PoolRange) /\ Len(free) = Len(p.free) + 1
      /\ Distinct(free) /\ Members(free) = Members(p.free) \union {p.by_host[oldest]}
  BY <1>1, <1>2, <1>3, AppendAt, DistinctAppend DEF free
<1>7. DOMAIN hosts = D \ {oldest} /\ \A h \in D \ {oldest} : hosts[h] = p.by_host[h]
  OBVIOUS
<1>8. hosts = [h \in DOMAIN hosts |-> hosts[h]]
  OBVIOUS
<1> HIDE DEF hosts, D
<1>9. Cardinality(DOMAIN hosts) = Cardinality(D) - 1
  BY <1>1, <1>2, <1>7, FS_RemoveElement
<1>10. /\ p.next = FirstIp + Cardinality(DOMAIN hosts) + Len(free)
       /\ Cardinality(DOMAIN hosts) <= Cap
  <2> DEFINE c == Cardinality(D)
             l == Len(p.free)
             n == p.next
  <2>1. c \in Nat /\ l \in Nat /\ n \in Int /\ n = FirstIp + c + l /\ c <= Cap
    BY <1>1, <1>4, PoolAssumption
  <2>2. Cardinality(DOMAIN hosts) = c - 1 /\ Len(free) = l + 1
    BY <1>6, <1>9
  <2> HIDE DEF c, l, n
  <2>3. n = FirstIp + (c - 1) + (l + 1) /\ c - 1 <= Cap
    BY <2>1, PoolAssumption
  <2> QED BY <2>2, <2>3 DEF n
<1>11. /\ \A h \in DOMAIN hosts : hosts[h] \in PoolRange /\ hosts[h] < p.next /\ hosts[h] \notin Members(free)
       /\ \A g, h \in DOMAIN hosts : g # h => hosts[g] # hosts[h]
       /\ \A a \in Members(free) : a < p.next
       /\ DOMAIN hosts \subseteq Hosts
  BY <1>1, <1>2, <1>3, <1>6, <1>7
<1>12. GoodPool(Evicted(p))
  <2>1. Tail(p.order) \in Seq(Hosts) /\ Members(Tail(p.order)) = DOMAIN hosts
    BY <1>2, <1>7
  <2>2. GoodPool([by_host |-> hosts, order |-> Tail(p.order), next |-> p.next, free |-> free])
    BY <1>1, <1>2, <1>3, <1>6, <1>8, <1>10, <1>11, <2>1, GoodPoolIf, Zenon
  <2> QED BY <1>5, <2>2
<1> QED BY <1>5, <1>7, <1>9, <1>12 DEF D
\* A host that enters a pool with room gets an address of its own, and nobody else's changes.
LEMMA TakenIsGood ==
  ASSUME NEW p, GoodPool(p), NEW host \in Hosts, host \notin DOMAIN p.by_host,
         Cardinality(DOMAIN p.by_host) < Cap
  PROVE  /\ GoodPool(Taken(p, host))
         /\ DOMAIN Taken(p, host).by_host = DOMAIN p.by_host \union {host}
         /\ \A h \in DOMAIN p.by_host : Taken(p, host).by_host[h] = p.by_host[h]
<1> DEFINE D == DOMAIN p.by_host
           address == IF p.free # <<>> THEN Head(p.free) ELSE p.next
           hosts == [h \in D \union {host} |-> IF h = host THEN address ELSE p.by_host[h]]
           order == Append(p.order, host)
           next == IF p.free # <<>> THEN p.next ELSE p.next + 1
           free == IF p.free # <<>> THEN Tail(p.free) ELSE p.free
           n == p.next
           c == Cardinality(D)
<1>1. /\ D \subseteq Hosts /\ IsFiniteSet(D) /\ c \in Nat
      /\ \A h \in D : p.by_host[h] \in PoolRange
      /\ p.order \in Seq(Hosts) /\ p.free \in Seq(PoolRange)
      /\ n \in FirstIp .. LastIp + 1 /\ Len(p.free) \in Nat
  BY PoolFields, PoolAssumption
<1>2. FirstIp \in Nat /\ LastIp \in Nat /\ Cap \in Nat /\ Cap <= LastIp - FirstIp + 1
  BY PoolAssumption
<1>3. /\ \A h \in D : p.by_host[h] < n /\ p.by_host[h] \notin Members(p.free)
      /\ \A g, h \in D : g # h => p.by_host[g] # p.by_host[h]
      /\ Distinct(p.free) /\ \A a \in Members(p.free) : a < n
  BY DEF GoodPool, AddressesApart
<1>4. n = FirstIp + c + Len(p.free) /\ c < Cap
  BY DEF GoodPool, NoAddressLost
<1>5. Taken(p, host) = [by_host |-> hosts, order |-> order, next |-> next, free |-> free]
  BY DEF Taken
<1>6. order \in Seq(Hosts) /\ Distinct(order) /\ Members(order) = D \union {host}
  BY <1>1, AppendAt, DistinctAppend DEF GoodPool, InOrder
<1>7. DOMAIN hosts = D \union {host} /\ hosts[host] = address
      /\ \A h \in D : hosts[h] = p.by_host[h]
  OBVIOUS
<1>8. hosts = [h \in DOMAIN hosts |-> hosts[h]]
  OBVIOUS
<1>9. Cardinality(D \union {host}) = c + 1
  BY <1>1, FS_AddElement
\* What the two ways to get an address have in common.
<1>10. /\ free \in Seq(PoolRange) /\ Distinct(free)
       /\ next \in FirstIp .. LastIp + 1
       /\ next = FirstIp + (c + 1) + Len(free)
       /\ Members(free) \subseteq Members(p.free)
       /\ address \in PoolRange /\ address < next /\ address \notin Members(free)
       /\ n <= next
       /\ \A h \in D : p.by_host[h] # address
  <2>1. CASE p.free # <<>>
    <3>1. free = Tail(p.free) /\ next = n /\ address = Head(p.free)
      BY <2>1
    <3>2. /\ Tail(p.free) \in Seq(PoolRange) /\ Len(Tail(p.free)) = Len(p.free) - 1
          /\ Head(p.free) \in PoolRange /\ Len(p.free) > 0
      BY <1>1, <2>1, HeadAndTail
    <3>3. /\ Distinct(Tail(p.free)) /\ Members(Tail(p.free)) = Members(p.free) \ {Head(p.free)}
          /\ Head(p.free) \in Members(p.free)
      BY <1>1, <1>3, <2>1, DistinctTail
    <3> HIDE DEF free, next, address, n, c
    <3>4. next \in FirstIp .. LastIp + 1 /\ n <= next
      BY <1>1, <1>2, <3>1
    <3>5. next = FirstIp + (c + 1) + Len(free)
      <4> DEFINE l == Len(p.free)
      <4>1. next = FirstIp + c + l /\ Len(free) = l - 1 /\ l \in Nat /\ c \in Nat
        BY <1>1, <1>4, <3>1, <3>2
      <4> HIDE DEF l
      <4> QED BY <1>2, <4>1
    <3>6. address < next /\ \A h \in D : p.by_host[h] # address
      BY <1>3, <3>1, <3>3
    <3> QED BY <3>1, <3>2, <3>3, <3>4, <3>5, <3>6
  <2>2. CASE p.free = <<>>
    <3>1. free = <<>> /\ next = n + 1 /\ address = n
      BY <2>2
    <3>2. Len(<<>>) = 0 /\ Distinct(<<>>) /\ Members(<<>>) = {} /\ <<>> \in Seq(PoolRange)
      BY EmptySeq DEF Distinct, Members
    <3> HIDE DEF free, next, address, n, c
    <3>3. n = FirstIp + c /\ n <= LastIp /\ n >= FirstIp
      <4>1. n = FirstIp + c + 0 /\ c < Cap
        BY <1>4, <2>2, <3>2
      <4> QED BY <1>1, <1>2, <4>1
    <3>4. /\ address \in PoolRange /\ address < next /\ next \in FirstIp .. LastIp + 1
          /\ next = FirstIp + (c + 1) + 0 /\ n <= next
      BY <1>1, <1>2, <3>1, <3>3 DEF PoolRange
    <3>5. \A h \in D : p.by_host[h] # address
      BY <1>1, <1>2, <1>3, <3>1 DEF PoolRange
    <3> QED BY <2>2, <3>1, <3>2, <3>4, <3>5
  <2> QED BY <2>1, <2>2
<1> HIDE DEF hosts, order, next, free, address, n, c
<1>11. \A h \in DOMAIN hosts : hosts[h] \in PoolRange /\ hosts[h] < next /\ hosts[h] \notin Members(free)
  <2>1. ASSUME NEW h \in D
        PROVE  p.by_host[h] \in PoolRange /\ p.by_host[h] < next /\ p.by_host[h] \notin Members(free)
    <3>1. p.by_host[h] < n /\ n <= next /\ n \in Int /\ next \in Int /\ p.by_host[h] \in Int
      BY <1>1, <1>2, <1>3, <1>10 DEF PoolRange
    <3>2. p.by_host[h] < next
      BY <3>1
    <3> QED BY <1>1, <1>3, <1>10, <3>2
  <2> QED BY <1>7, <1>10, <2>1
<1>12. \A g, h \in DOMAIN hosts : g # h => hosts[g] # hosts[h]
  BY <1>3, <1>7, <1>10
<1>13. \A a \in Members(free) : a < next
  <2>1. ASSUME NEW a \in Members(p.free)
        PROVE  a < next
    <3>1. a \in PoolRange
      BY <1>1, ElementOfSeq DEF Members
    <3> QED BY <1>1, <1>2, <1>3, <1>10, <3>1 DEF PoolRange
  <2> QED BY <1>10, <2>1
<1>14. /\ Cardinality(DOMAIN hosts) = c + 1 /\ Cardinality(DOMAIN hosts) <= Cap
       /\ next = FirstIp + Cardinality(DOMAIN hosts) + Len(free)
  BY <1>1, <1>2, <1>4, <1>7, <1>9, <1>10
<1>15. GoodPool(Taken(p, host))
  <2>1. Members(order) = DOMAIN hosts /\ DOMAIN hosts \subseteq Hosts
    BY <1>1, <1>6, <1>7
  <2>2. GoodPool([by_host |-> hosts, order |-> order, next |-> next, free |-> free])
    BY <1>6, <1>8, <1>10, <1>11, <1>12, <1>13, <1>14, <2>1, GoodPoolIf, Zenon
  <2> QED BY <1>5, <2>2
<1> QED BY <1>5, <1>7, <1>15

\* Room: one eviction, if any, and there is room.
LEMMA RoomIsGood ==
  ASSUME NEW p, GoodPool(p)
  PROVE  /\ GoodPool(Room(p))
         /\ DOMAIN Room(p).by_host \subseteq DOMAIN p.by_host
         /\ \A h \in DOMAIN Room(p).by_host : Room(p).by_host[h] = p.by_host[h]
         /\ Cardinality(DOMAIN Room(p).by_host) < Cap
         /\ Full(p) => p.order # <<>>
<1> DEFINE c == Cardinality(DOMAIN p.by_host)
<1>1. c \in Nat /\ c <= Cap /\ Cap \in Nat \ {0} /\ IsFiniteSet(DOMAIN p.by_host)
  BY PoolFields, PoolAssumption DEF GoodPool, NoAddressLost
<1>2. ASSUME p.order = <<>>
      PROVE  c = 0
  <2>1. Members(p.order) = {}
    BY <1>2, EmptySeq DEF Members
  <2>2. DOMAIN p.by_host = {}
    BY <2>1 DEF GoodPool, InOrder
  <2> QED BY <2>2, FS_EmptySet
<1>3. Full(p) => p.order # <<>>
  BY <1>1, <1>2 DEF Full
<1>4. CASE Full(p)
  <2>1. Room(p) = Evicted(p) /\ p.order # <<>>
    BY <1>3, <1>4 DEF Room
  <2>2. Cardinality(DOMAIN Evicted(p).by_host) = c - 1
    BY <2>1, EvictedIsGood
  <2> HIDE DEF c
  <2>3. Cardinality(DOMAIN Evicted(p).by_host) < Cap
    BY <1>1, <2>2
  <2> QED BY <1>3, <2>1, <2>3, EvictedIsGood
<1>5. CASE ~Full(p)
  BY <1>1, <1>3, <1>5 DEF Room, Full
<1> QED BY <1>4, <1>5

\* A good pool with room has an address to give.
LEMMA NeverExhausted ==
  ASSUME NEW p, GoodPool(p), NEW name \in Spellings
  PROVE  AssignResult(p, name) = IF NormalizeHost(name) = NoHost THEN "BadHost" ELSE "Assigned"
<1> DEFINE q == Room(p)
           c == Cardinality(DOMAIN q.by_host)
           n == q.next
<1>1. GoodPool(q) /\ c < Cap /\ (Full(p) => p.order # <<>>)
  BY RoomIsGood
<1>2. c \in Nat /\ n \in Int
  BY <1>1, PoolFields
<1>3. n = FirstIp + c + Len(q.free)
  BY <1>1 DEF GoodPool, NoAddressLost
<1>4. q.free = <<>> => Len(q.free) = 0
  BY EmptySeq
<1> HIDE DEF q, c, n
<1>5. q.free = <<>> => ~(n > LastIp)
  BY <1>1, <1>2, <1>3, <1>4, PoolAssumption
<1> QED BY <1>1, <1>5 DEF AssignResult, q, n

\* assign_fake_ip keeps the pool good, gives the host an address, and leaves alone the
\* addresses of those it did not evict.
LEMMA AssignIsGood ==
  ASSUME NEW p, GoodPool(p), NEW name \in Spellings
  PROVE  /\ GoodPool(Assign(p, name))
         /\ NormalizeHost(name) \in Hosts => NormalizeHost(name) \in DOMAIN Assign(p, name).by_host
         /\ \A h \in DOMAIN p.by_host \intersect DOMAIN Assign(p, name).by_host :
              Assign(p, name).by_host[h] = p.by_host[h]
<1> DEFINE host == NormalizeHost(name)
           q == Room(p)
<1>1. host \in Hosts \/ host = NoHost
  BY DEF Spellings, NormalizeHost
<1>2. CASE host = NoHost \/ Known(p, host)
  <2>1. Assign(p, name) = p
    BY <1>2 DEF Assign
  <2>2. host \in Hosts => host \in DOMAIN p.by_host
    BY <1>2, PoolAssumption DEF Known
  <2> QED BY <2>1, <2>2
<1>3. CASE host # NoHost /\ ~Known(p, host)
  <2>1. AssignResult(p, name) = "Assigned"
    BY <1>3, NeverExhausted
  <2>2. Assign(p, name) = Taken(q, host)
    BY <1>3, <2>1 DEF Assign
  <2>3. /\ GoodPool(q) /\ DOMAIN q.by_host \subseteq DOMAIN p.by_host
        /\ \A h \in DOMAIN q.by_host : q.by_host[h] = p.by_host[h]
        /\ Cardinality(DOMAIN q.by_host) < Cap
    BY RoomIsGood
  <2> HIDE DEF q
  <2>4. host \in Hosts /\ host \notin DOMAIN p.by_host
    BY <1>1, <1>3 DEF Known
  <2>5. /\ GoodPool(Taken(q, host))
        /\ DOMAIN Taken(q, host).by_host = DOMAIN q.by_host \union {host}
        /\ \A h \in DOMAIN q.by_host : Taken(q, host).by_host[h] = q.by_host[h]
    BY <2>3, <2>4, TakenIsGood
  <2> HIDE DEF host
  <2>6. host \in DOMAIN Assign(p, name).by_host
    BY <2>2, <2>5
  <2>7. \A h \in DOMAIN p.by_host \intersect DOMAIN Assign(p, name).by_host :
          Assign(p, name).by_host[h] = p.by_host[h]
    BY <2>2, <2>3, <2>4, <2>5
  <2> QED BY <2>2, <2>5, <2>6, <2>7 DEF host
<1> QED BY <1>2, <1>3
-----------------------------------------------------------------------------
(***************************************************************************)
(* The bytes of a queue.  A fold over a function takes its elements in an  *)
(* order CHOOSE fixes, so that what it makes of a longer queue does not    *)
(* follow from what it made of the shorter one.  The way round: give each  *)
(* frame as many cells as it has bytes; counting cells satisfies the       *)
(* recursion of the fold, and any other solution would differ from it on a *)
(* least set, which it cannot.                                             *)
(***************************************************************************)
Cells(fs, S) == {p \in S \X Nat : p[2] \in 1 .. fs[p[1]].size}

\* The frames of a queue have sizes.
LEMMA ElementSize == \A fs \in Seq(Frames) : \A i \in DOMAIN fs : fs[i] \in Frames /\ fs[i].size \in Nat
<1> SUFFICES ASSUME NEW fs \in Seq(Frames), NEW i \in DOMAIN fs PROVE fs[i] \in Frames
  BY DEF Frames
<1>1. i \in 1 .. Len(fs)
  BY LenProperties
<1> QED BY <1>1, ElementOfSeq

\* One frame has as many cells as bytes.
LEMMA CellsOfOne ==
  ASSUME NEW fs, NEW x, fs[x].size \in Nat
  PROVE  IsFiniteSet(Cells(fs, {x})) /\ Cardinality(Cells(fs, {x})) = fs[x].size
<1> DEFINE k == fs[x].size
<1>0. k \in Nat
  OBVIOUS
<1>1. Cells(fs, {x}) = {x} \X (1 .. k)
  BY DEF Cells
<1>2. IsFiniteSet({x}) /\ Cardinality({x}) = 1
  BY FS_Singleton
<1> HIDE DEF k
<1>3. IsFiniteSet(1 .. k) /\ Cardinality(1 .. k) = k
  BY <1>0, FS_Interval
<1>4. /\ IsFiniteSet({x} \X (1 .. k))
      /\ Cardinality({x} \X (1 .. k)) = Cardinality({x}) * Cardinality(1 .. k)
  BY <1>2, <1>3, FS_Product, Zenon
<1>5. Cardinality({x}) * Cardinality(1 .. k) = k
  <2>1. 1 * k = k
    BY <1>0
  <2> QED BY <2>1, <1>2, <1>3, Zenon
<1> QED BY <1>1, <1>4, <1>5, Zenon DEF k

\* One frame more, its cells more.
LEMMA CellsAdd ==
  ASSUME NEW fs, NEW S, NEW x, x \notin S, fs[x].size \in Nat, IsFiniteSet(Cells(fs, S))
  PROVE  /\ IsFiniteSet(Cells(fs, S \union {x}))
         /\ Cardinality(Cells(fs, S \union {x})) = fs[x].size + Cardinality(Cells(fs, S))
<1> DEFINE A == Cells(fs, S)
           B == Cells(fs, {x})
<1>1. Cells(fs, S \union {x}) = A \union B /\ A \intersect B = {}
  BY DEF Cells
<1>2. IsFiniteSet(A) /\ IsFiniteSet(B) /\ Cardinality(B) = fs[x].size
  BY CellsOfOne
<1> HIDE DEF A, B
<1>3. Cardinality({}) = 0 /\ Cardinality(A) \in Nat /\ Cardinality(B) \in Nat
  BY <1>2, FS_EmptySet, FS_CardinalityType
<1>4. /\ IsFiniteSet(A \union B)
      /\ Cardinality(A \union B) = Cardinality(A) + Cardinality(B) - Cardinality(A \intersect B)
  BY <1>2, FS_Union
<1>5. Cardinality(A \intersect B) = 0
  BY <1>1, <1>3, Zenon
<1>6. Cardinality(A \union B) = Cardinality(B) + Cardinality(A)
  BY <1>3, <1>4, <1>5
<1> QED BY <1>1, <1>2, <1>4, <1>6, Zenon DEF A

\* A queue has finitely many cells.
LEMMA CellsAreFinite ==
  ASSUME NEW fs \in Seq(Frames), NEW S \in SUBSET DOMAIN fs
  PROVE  IsFiniteSet(Cells(fs, S))
<1>1. IsFiniteSet(DOMAIN fs)
  BY LenProperties, FS_Interval
<1> DEFINE D == DOMAIN fs
           R == StrictSubsetOrdering(D)
           Bad == {T \in SUBSET D : ~IsFiniteSet(Cells(fs, T))}
<1>2. IsWellFoundedOn(R, SUBSET D)
  BY <1>1, FS_StrictSubsetOrderingWellFounded, FS_FiniteSubsetsOfFinite
<1>3. SUFFICES ASSUME Bad # {} PROVE FALSE
  OBVIOUS
<1>4. PICK T \in Bad : \A U \in Bad : ~(<<U, T>> \in R)
  <2> HIDE DEF R
  <2> QED BY <1>2, <1>3, WFMin
<1>5. T # {}
  <2>1. Cells(fs, {}) = {}
    BY DEF Cells
  <2> QED BY <2>1, FS_EmptySet
<1>6. PICK x \in T : TRUE
  BY <1>5
<1>7. <<T \ {x}, T>> \in R
  BY <1>6 DEF StrictSubsetOrdering
<1>8. IsFiniteSet(Cells(fs, T \ {x}))
  BY <1>4, <1>7
<1>9. fs[x].size \in Nat
  BY ElementSize
<1>10. IsFiniteSet(Cells(fs, (T \ {x}) \union {x}))
  BY <1>8, <1>9, CellsAdd
<1> QED BY <1>6, <1>10

\* The fold counts the cells: both solve the same recursion, which has one solution.
LEMMA BytesAreCells ==
  ASSUME NEW fs \in Seq(Frames)
  PROVE  BytesOf(fs) = Cardinality(Cells(fs, DOMAIN fs))
<1> DEFINE D == DOMAIN fs
           Step(g) == [S \in SUBSET D |->
                         IF S = {} THEN 0
                         ELSE fs[CHOOSE x \in S : TRUE].size + g[S \ {CHOOSE x \in S : TRUE}]]
           iter == CHOOSE g : g = Step(g)
           count == [S \in SUBSET D |-> Cardinality(Cells(fs, S))]
           R == StrictSubsetOrdering(D)
<1>1. BytesOf(fs) = iter[D]
  BY DEF BytesOf, FoldFunction, FoldFunctionOnSet, MapThenFoldSet
<1>2. IsFiniteSet(D)
  BY LenProperties, FS_Interval
<1>3. ASSUME NEW S \in SUBSET D, S # {}, NEW x \in S
      PROVE  count[S] = fs[x].size + count[S \ {x}]
  <2>1. fs[x].size \in Nat
    BY ElementSize
  <2>2. IsFiniteSet(Cells(fs, S \ {x}))
    BY CellsAreFinite
  <2>3. Cardinality(Cells(fs, (S \ {x}) \union {x})) = fs[x].size + Cardinality(Cells(fs, S \ {x}))
    BY <2>1, <2>2, CellsAdd
  <2>4. (S \ {x}) \union {x} = S
    OBVIOUS
  <2> QED BY <2>3, <2>4
<1>4. count[{}] = 0
  <2>1. Cells(fs, {}) = {}
    BY DEF Cells
  <2> QED BY <2>1, FS_EmptySet
<1>5. count = Step(count)
  <2>1. \A S \in SUBSET D : S # {} => (CHOOSE x \in S : TRUE) \in S
    OBVIOUS
  <2>2. \A S \in SUBSET D : count[S] = IF S = {} THEN 0
                 ELSE fs[CHOOSE x \in S : TRUE].size + count[S \ {CHOOSE x \in S : TRUE}]
    <3> HIDE DEF count
    <3> QED BY <1>3, <1>4, <2>1
  <2>3. count = [S \in SUBSET D |-> count[S]]
    OBVIOUS
  <2> HIDE DEF count
  <2> QED BY <2>2, <2>3
<1>6. iter = Step(iter)
  <2> HIDE DEF count
  <2> QED BY <1>5
<1>7. IsWellFoundedOn(R, SUBSET D)
  BY <1>2, FS_StrictSubsetOrderingWellFounded, FS_FiniteSubsetsOfFinite
<1> DEFINE Bad == {S \in SUBSET D : iter[S] # count[S]}
<1>8. Bad = {}
  <2> SUFFICES ASSUME Bad # {} PROVE FALSE
    OBVIOUS
  <2>1. PICK T \in Bad : \A U \in Bad : ~(<<U, T>> \in R)
    <3> HIDE DEF R
    <3> QED BY <1>7, WFMin
  <2> DEFINE x == CHOOSE x \in T : TRUE
  <2>a. iter[T] = IF T = {} THEN 0 ELSE fs[x].size + iter[T \ {x}]
    <3> HIDE DEF iter
    <3> QED BY <1>6
  <2> HIDE DEF iter, count
  <2>2. T # {}
    BY <1>4, <2>a
  <2>3. x \in T
    BY <2>2
  <2>4. <<T \ {x}, T>> \in R
    BY <2>3 DEF StrictSubsetOrdering
  <2>5. iter[T \ {x}] = count[T \ {x}]
    BY <2>1, <2>4
  <2> QED BY <1>3, <2>1, <2>2, <2>3, <2>5, <2>a
<1> QED
  <2> HIDE DEF iter
  <2> QED BY <1>1, <1>8

\* A frame at the end adds its size.
LEMMA BytesOfAppend ==
  ASSUME NEW fs \in Seq(Frames), NEW f \in Frames
  PROVE  BytesOf(Append(fs, f)) = BytesOf(fs) + f.size
<1> DEFINE gs == Append(fs, f)
           n == Len(fs)
<1>1. /\ gs \in Seq(Frames) /\ n \in Nat /\ Len(gs) = n + 1 /\ gs[n + 1] = f
      /\ \A i \in 1 .. n : gs[i] = fs[i]
      /\ DOMAIN gs = (1 .. n) \union {n + 1} /\ DOMAIN fs = 1 .. n
  BY AppendProperties, LenProperties
<1> HIDE DEF gs, n
<1>2. Cells(gs, 1 .. n) = Cells(fs, 1 .. n)
  BY <1>1 DEF Cells
<1>3. IsFiniteSet(Cells(gs, 1 .. n)) /\ IsFiniteSet(Cells(fs, 1 .. n))
  BY <1>1, CellsAreFinite
<1>4. Cardinality(Cells(gs, (1 .. n) \union {n + 1})) = f.size + Cardinality(Cells(gs, 1 .. n))
  <2>1. n + 1 \notin 1 .. n /\ gs[n + 1].size \in Nat
    BY <1>1 DEF Frames
  <2> QED BY <1>1, <1>3, <2>1, CellsAdd
<1>5. Cardinality(Cells(fs, 1 .. n)) \in Nat /\ f.size \in Nat
  BY <1>3, FS_CardinalityType DEF Frames
<1>6. BytesOf(gs) = Cardinality(Cells(gs, DOMAIN gs)) /\ BytesOf(fs) = Cardinality(Cells(fs, DOMAIN fs))
  BY <1>1, BytesAreCells
<1> QED BY <1>1, <1>2, <1>4, <1>5, <1>6 DEF gs

\* An empty queue has no bytes.
LEMMA BytesOfNothing == BytesOf(<<>>) = 0
<1>1. <<>> \in Seq(Frames) /\ DOMAIN <<>> = {}
  BY EmptySeq
<1>2. Cells(<<>>, {}) = {}
  BY DEF Cells
<1> QED BY <1>1, <1>2, BytesAreCells, FS_EmptySet

-----------------------------------------------------------------------------
\* An action that leaves the variables of a part alone keeps that part: the names, ...
LEMMA NamesKept == NamesInv /\ UNCHANGED nameVars => NamesInv'
BY DEF NamesInv, nameVars

\* Packets wait, and are known, as before; the device may open and close.
LEMMA PacketsKept ==
  PacketsInv /\ opened' \in BOOLEAN /\ UNCHANGED <<inbound, held, records, pool, evicted>>
    => PacketsInv'
BY DEF PacketsInv, ForItsHost

\* The order of packets, from the device to the records.
LEMMA OrderKept == OrderInv /\ UNCHANGED <<inputs, records, inbound, held>> => OrderInv'
BY DEF OrderInv

\* The flows and their streams.
LEMMA FlowsKept == FlowsInv /\ UNCHANGED <<flows, session, records>> => FlowsInv'
BY DEF FlowsInv

\* The binding and what it reported.
LEMMA BindingKept == BindingInv /\ UNCHANGED <<binding, events>> => BindingInv'
BY DEF BindingInv, OutboxCounts

\* The outbox, the writer and the wire, whatever else happens to the binding.
LEMMA WayKept ==
  WayInv /\ binding'.outbox = binding.outbox /\ binding'.kind = binding.kind
         /\ UNCHANGED <<writer, wire, records, lost, drainFailed>>
    => WayInv'
<1> SUFFICES ASSUME WayInv, binding'.outbox = binding.outbox, binding'.kind = binding.kind,
                    UNCHANGED <<writer, wire, records, lost, drainFailed>>
             PROVE  WayInv'
  OBVIOUS
<1>1. Way' = Way
  BY DEF Way
<1>2. Seqs(Way)' = Seqs(Way)
  BY <1>1 DEF Seqs
<1> QED BY <1>1, <1>2 DEF WayInv, NothingVanishes

\* The packets that records were sealed from, and those that wait.
LEMMA SealedPackets ==
  PacketsInv => /\ \A i \in 1 .. Len(records) : records[i] \in Records /\ records[i].packet \in Packets
                /\ \A i \in 1 .. Len(inbound) : inbound[i] \in Packets
<1> SUFFICES ASSUME PacketsInv
             PROVE  /\ \A i \in 1 .. Len(records) : records[i] \in Records
                    /\ \A i \in 1 .. Len(inbound) : inbound[i] \in Packets
  BY DEF Records
<1>1. records \in Seq(Records) /\ inbound \in Seq(Packets)
  BY DEF PacketsInv
<1> QED BY <1>1, ElementOfSeq

\* One input more from outside, and the order stands.
LEMMA OrderOnInput ==
  PacketsInv /\ OrderInv /\ Input /\ UNCHANGED <<records, inbound, held>> => OrderInv'
<1> SUFFICES ASSUME PacketsInv, OrderInv, Input, UNCHANGED <<records, inbound, held>> PROVE OrderInv'
  OBVIOUS
<1>1. inputs \in Nat /\ inputs < MaxInputs /\ inputs' = inputs + 1 /\ MaxInputs \in Nat
  BY PathAssumption DEF OrderInv, Input
<1>2. /\ \A i \in 1 .. Len(records) : records[i].packet.n \in Nat /\ records[i].packet.n < inputs
      /\ \A i \in 1 .. Len(inbound) : inbound[i].n \in Nat /\ inbound[i].n < inputs
      /\ held # None => held.n \in Nat /\ held.n < inputs
      /\ Len(records) + Len(inbound) + (IF held = None THEN 0 ELSE 1) \in Nat
  BY SealedPackets, LenProperties DEF OrderInv, PacketsInv, Packets
<1>3. /\ \A i \in 1 .. Len(records) : records[i].packet.n < inputs + 1
      /\ \A i \in 1 .. Len(inbound) : inbound[i].n < inputs + 1
      /\ held # None => held.n < inputs + 1
      /\ inputs + 1 \in 0 .. MaxInputs
  BY <1>1, <1>2
<1>4. Len(records) + Len(inbound) + (IF held = None THEN 0 ELSE 1) <= inputs + 1
  BY <1>1, <1>2 DEF OrderInv
<1> QED BY <1>1, <1>3, <1>4 DEF OrderInv

\* An application's question: a host that was not evicted keeps the address it is known by.
LEMMA ResolveKeeps ==
  ASSUME PathInv, NEW name \in Spellings, Resolve(name)
  PROVE  PathInv'
<1> DEFINE host == NormalizeHost(name)
           D == DOMAIN pool.by_host
           E == DOMAIN pool'.by_host
<1>1. /\ GoodPool(pool) /\ answers \in [Hosts -> PoolRange \union {None}] /\ evicted \subseteq Hosts
      /\ \A h \in Hosts \ evicted : answers[h] # None => h \in D /\ pool.by_host[h] = answers[h]
  BY DEF PathInv, NamesInv
<1>2. /\ pool' = Assign(pool, name) /\ evicted' = evicted \union (D \ E)
      /\ answers' = IF AssignResult(pool, name) = "Assigned"
                    THEN [answers EXCEPT ![host] = pool'.by_host[host]] ELSE answers
      /\ UNCHANGED <<deviceVars, clientVars, wayVars>> /\ Input
  BY DEF Resolve
<1>3. /\ GoodPool(pool') /\ (host \in Hosts => host \in E)
      /\ \A h \in D \intersect E : pool'.by_host[h] = pool.by_host[h]
  BY <1>1, <1>2, AssignIsGood
<1>4. AssignResult(pool, name) = IF host = NoHost THEN "BadHost" ELSE "Assigned"
  BY <1>1, NeverExhausted
<1>5. host \in Hosts \/ host = NoHost
  BY DEF Spellings, NormalizeHost
<1>6. /\ D \subseteq Hosts /\ E \subseteq Hosts /\ \A h \in E : pool'.by_host[h] \in PoolRange
  BY <1>1, <1>3, PoolFields
<1> HIDE DEF host, D, E
<1>7. \A h \in Hosts : h # host \/ host = NoHost => answers'[h] = answers[h]
  BY <1>1, <1>2, <1>4, <1>5, PoolAssumption
<1>8. host \in Hosts => answers'[host] = pool'.by_host[host]
  BY <1>1, <1>2, <1>4, PoolAssumption
<1>9. answers' \in [Hosts -> PoolRange \union {None}]
  BY <1>1, <1>2, <1>3, <1>4, <1>5, <1>6, PoolAssumption
<1>10. \A h \in Hosts \ evicted' : h \in D => h \in E /\ pool'.by_host[h] = pool.by_host[h]
  BY <1>2, <1>3
<1>11. ASSUME NEW h \in Hosts \ evicted', answers'[h] # None
       PROVE  h \in E /\ pool'.by_host[h] = answers'[h]
  <2>1. CASE h = host
    BY <1>3, <1>8, <2>1
  <2>2. CASE h # host
    <3>1. answers'[h] = answers[h] /\ h \in Hosts \ evicted
      BY <1>2, <1>7, <2>2
    <3>2. h \in D /\ pool.by_host[h] = answers[h]
      BY <1>1, <1>11, <3>1
    <3> QED BY <1>10, <3>1, <3>2
  <2> QED BY <2>1, <2>2
<1>12. NamesInv'
  <2>1. evicted' \subseteq Hosts
    BY <1>1, <1>2, <1>6
  <2> QED BY <1>3, <1>9, <1>11, <2>1 DEF NamesInv, E
<1>13. \A p \in Packets : ForItsHost(p) => ForItsHost(p)'
  <2> SUFFICES ASSUME NEW p \in Packets, ForItsHost(p), p.host # NoHost, p.host \notin evicted'
               PROVE  p.host \in E /\ p.dst = pool'.by_host[p.host]
    BY DEF ForItsHost, E
  <2>1. p.host \in Hosts /\ p.host \notin evicted
    BY <1>2 DEF Packets
  <2>2. p.host \in D /\ p.dst = pool.by_host[p.host]
    BY <2>1 DEF ForItsHost, D
  <2> QED BY <1>10, <2>1, <2>2
<1>14. PacketsInv'
  <2>1. /\ opened' = opened /\ inbound' = inbound /\ held' = held /\ records' = records
    BY <1>2 DEF deviceVars, clientVars
  <2>2. PacketsInv
    BY DEF PathInv
  <2>3. /\ \A i \in 1 .. Len(inbound) : inbound[i] \in Packets
        /\ \A i \in 1 .. Len(records) : records[i].packet \in Packets
    BY <2>2, SealedPackets
  <2>4. /\ \A i \in 1 .. Len(inbound) : ForItsHost(inbound[i])'
        /\ \A i \in 1 .. Len(records) : ForItsHost(records[i].packet)'
        /\ held # None => ForItsHost(held)'
    BY <1>13, <2>1, <2>2, <2>3 DEF PacketsInv, ForItsHost
  <2> QED BY <2>1, <2>2, <2>4 DEF PacketsInv
<1>15. OrderInv'
  BY <1>2, OrderOnInput DEF PathInv, deviceVars, clientVars
<1>16. FlowsInv' /\ BindingInv' /\ WayInv'
  BY <1>2, FlowsKept, BindingKept, WayKept DEF PathInv, clientVars, wayVars
<1> QED BY <1>12, <1>14, <1>15, <1>16 DEF PathInv
-----------------------------------------------------------------------------
\* Opening and closing the device leaves everything but its flag.
LEMMA DeviceKeeps == PathInv /\ (OpenDevice \/ CloseDevice) => PathInv'
<1> SUFFICES ASSUME PathInv, OpenDevice \/ CloseDevice PROVE PathInv'
  OBVIOUS
<1>1. /\ opened' \in BOOLEAN /\ UNCHANGED <<inbound, held, nameVars, clientVars, wayVars>>
      /\ Input \/ inputs' = inputs
  BY DEF OpenDevice, CloseDevice
<1>2. PacketsInv'
  BY <1>1, PacketsKept DEF PathInv, nameVars, clientVars
<1>3. OrderInv'
  BY <1>1, OrderOnInput, OrderKept DEF PathInv, clientVars
<1>4. NamesInv' /\ FlowsInv' /\ BindingInv' /\ WayInv'
  BY <1>1, NamesKept, FlowsKept, BindingKept, WayKept DEF PathInv, nameVars, clientVars, wayVars
<1> QED BY <1>2, <1>3, <1>4 DEF PathInv

\* A packet that arrives is the newest of all.
LEMMA ArrivesKeeps ==
  ASSUME PathInv, NEW p \in Packets, p.n = inputs, ForItsHost(p), Arrives(p)
  PROVE  PathInv'
<1>1. /\ PacketsInv /\ OrderInv /\ inbound \in Seq(Packets)
      /\ inputs \in Nat /\ inputs < MaxInputs /\ inputs' = inputs + 1 /\ MaxInputs \in Nat
  <2>1. PacketsInv /\ OrderInv
    BY DEF PathInv
  <2>2. MaxInputs \in Nat
    BY PathAssumption
  <2>3. inputs < MaxInputs /\ inputs' = inputs + 1
    BY DEF Arrives, Input
  <2>4. inbound \in Seq(Packets)
    BY <2>1 DEF PacketsInv
  <2>5. inputs \in 0 .. MaxInputs
    BY <2>1 DEF OrderInv
  <2> QED BY <2>1, <2>2, <2>3, <2>4, <2>5
<1>2. inbound' = Append(inbound, p) /\ UNCHANGED <<opened, held, nameVars, clientVars, wayVars>>
  BY DEF Arrives
<1>3. /\ inbound' \in Seq(Packets) /\ Len(inbound) \in Nat /\ Len(inbound') = Len(inbound) + 1
      /\ inbound'[Len(inbound) + 1] = p
      /\ \A i \in 1 .. Len(inbound) : inbound'[i] = inbound[i]
  BY <1>1, <1>2, AppendAt
<1>4. \A i \in 1 .. Len(inbound') : i \in 1 .. Len(inbound) \/ i = Len(inbound) + 1
  BY <1>3
<1>5. records' = records /\ held' = held /\ opened' = opened /\ pool' = pool /\ evicted' = evicted
  BY <1>2 DEF clientVars, nameVars
<1>6. PacketsInv'
  <2>1. \A q : ForItsHost(q)' <=> ForItsHost(q)
    BY <1>5 DEF ForItsHost
  <2>2. \A i \in 1 .. Len(inbound') : ForItsHost(inbound'[i])
    BY <1>1, <1>3, <1>4 DEF PacketsInv
  <2> QED BY <1>1, <1>3, <1>5, <2>1, <2>2 DEF PacketsInv
<1>7. OrderInv'
  <2>1. /\ \A i \in 1 .. Len(records) : records[i].packet.n \in Nat /\ records[i].packet.n < inputs
        /\ \A i \in 1 .. Len(inbound) : inbound[i].n \in Nat /\ inbound[i].n < inputs
        /\ held # None => held.n \in Nat /\ held.n < inputs
        /\ Len(records) \in Nat
    BY <1>1, SealedPackets, LenProperties DEF OrderInv, PacketsInv, Packets
  <2>2. /\ \A i \in 1 .. Len(records) : records[i].packet.n < inputs'
        /\ held # None => held.n < inputs'
        /\ inputs' \in 0 .. MaxInputs
    BY <1>1, <2>1
  <2>3. \A i \in 1 .. Len(inbound') : inbound'[i].n < inputs'
    BY <1>1, <1>3, <1>4, <2>1
  <2>4. \A i, j \in 1 .. Len(inbound') : i < j => inbound'[i].n < inbound'[j].n
    <3> SUFFICES ASSUME NEW i \in 1 .. Len(inbound'), NEW j \in 1 .. Len(inbound'), i < j
                 PROVE  inbound'[i].n < inbound'[j].n
      OBVIOUS
    <3>1. i \in 1 .. Len(inbound)
      BY <1>3
    <3>2. CASE j \in 1 .. Len(inbound)
      BY <1>1, <1>3, <3>1, <3>2 DEF OrderInv
    <3>3. CASE j = Len(inbound) + 1
      BY <1>3, <2>1, <3>1, <3>3
    <3> QED BY <1>4, <3>2, <3>3
  <2>5. \A i \in 1 .. Len(records), j \in 1 .. Len(inbound') : records[i].packet.n < inbound'[j].n
    BY <1>1, <1>3, <1>4, <2>1 DEF OrderInv
  <2>6. held # None => \A i \in 1 .. Len(inbound') : held.n < inbound'[i].n
    BY <1>1, <1>3, <1>4, <2>1 DEF OrderInv
  <2>7. Len(records) + Len(inbound') + (IF held = None THEN 0 ELSE 1) <= inputs'
    <3> DEFINE h == IF held = None THEN 0 ELSE 1
    <3>1. Len(records) + Len(inbound) + h <= inputs /\ h \in Nat
      BY <1>1 DEF OrderInv
    <3> HIDE DEF h
    <3>2. Len(records) + (Len(inbound) + 1) + h <= inputs + 1
      BY <1>1, <1>3, <2>1, <3>1
    <3> QED BY <1>1, <1>3, <3>2 DEF h
  <2>8. /\ \A i, j \in 1 .. Len(records) : i < j => records[i].packet.n < records[j].packet.n
        /\ held # None => \A i \in 1 .. Len(records) : records[i].packet.n < held.n
    BY <1>1 DEF OrderInv
  <2> QED BY <1>5, <2>2, <2>3, <2>4, <2>5, <2>6, <2>7, <2>8 DEF OrderInv
<1>8. NamesInv' /\ FlowsInv' /\ BindingInv' /\ WayInv'
  BY <1>2, NamesKept, FlowsKept, BindingKept, WayKept DEF PathInv, clientVars, wayVars
<1> QED BY <1>6, <1>7, <1>8 DEF PathInv

\* What applications send is a packet for its host, or for none.
LEMMA SendsKeep ==
  ASSUME PathInv,
         \/ \E h \in Hosts, options \in HostOptions : SendsToHost(h, options)
         \/ \E p \in Literals : SendsToAddress(p)
  PROVE  PathInv'
<1>1. inputs \in Nat
  BY PathAssumption DEF PathInv, OrderInv
<1>2. ASSUME NEW h \in Hosts, NEW options \in HostOptions, SendsToHost(h, options)
      PROVE  PathInv'
  <2> DEFINE p == Packet(h, answers[h], options, 1, inputs)
  <2>1. answers[h] # None /\ Arrives(p)
    BY <1>2 DEF SendsToHost
  <2>2. answers[h] \in PoolRange /\ PoolRange \subseteq Addresses
    BY <2>1, RangeAssumption DEF PathInv, NamesInv, PoolRange
  <2>3. p \in Packets /\ p.n = inputs
    BY <1>1, <2>2, PathAssumption DEF Packet, Packets, Lens
  <2>4. ForItsHost(p)
    BY <2>1 DEF ForItsHost, Packet, PathInv, NamesInv
  <2> HIDE DEF p
  <2> QED BY <2>1, <2>3, <2>4, ArrivesKeeps
<1>3. ASSUME NEW l \in Literals, SendsToAddress(l)
      PROVE  PathInv'
  <2> DEFINE p == Packet(NoHost, l.dst, l.options, l.len, inputs)
  <2>1. Arrives(p)
    BY <1>3 DEF SendsToAddress
  <2>2. p \in Packets /\ p.n = inputs /\ p.host = NoHost
    BY <1>1, PathAssumption DEF Packet, Packets
  <2>3. ForItsHost(p)
    BY <2>2 DEF ForItsHost
  <2> HIDE DEF p
  <2> QED BY <2>1, <2>2, <2>3, ArrivesKeeps
<1> QED BY <1>2, <1>3

\* A read takes the oldest packet or puts it back where it was.
LEMMA ReadKeeps ==
  ASSUME PathInv, NEW buffer \in Lens, ReadPacket(buffer)
  PROVE  PathInv'
<1>1. /\ PacketsInv /\ OrderInv /\ inbound \in Seq(Packets) /\ inbound # <<>> /\ held = None
      /\ inbound' = AfterRead(inbound, buffer)
      /\ held' = IF Head(inbound).len > buffer THEN None ELSE Head(inbound)
      /\ UNCHANGED <<opened, nameVars, clientVars, wayVars, inputs>>
  BY DEF PathInv, PacketsInv, ReadPacket
<1>2. /\ Head(inbound) = inbound[1] /\ Head(inbound) \in Packets
      /\ Tail(inbound) \in Seq(Packets) /\ Len(inbound) \in Nat \ {0}
      /\ Len(Tail(inbound)) = Len(inbound) - 1
      /\ \A i \in 1 .. Len(inbound) - 1 : Tail(inbound)[i] = inbound[i + 1]
  BY <1>1, HeadAndTail
<1>3. NamesInv' /\ FlowsInv' /\ BindingInv' /\ WayInv'
  BY <1>1, NamesKept, FlowsKept, BindingKept, WayKept DEF PathInv, clientVars, wayVars
<1>4. CASE Head(inbound).len > buffer
  <2>1. <<Head(inbound)>> \o Tail(inbound) = inbound
    BY <1>1, HeadTailProperties
  <2>2. inbound' = inbound /\ held' = held
    BY <1>1, <1>4, <2>1 DEF AfterRead
  <2>3. PacketsInv' /\ OrderInv'
    BY <1>1, <2>2, PacketsKept, OrderKept DEF clientVars, nameVars, PacketsInv
  <2> QED BY <1>3, <2>3 DEF PathInv
<1>5. CASE ~(Head(inbound).len > buffer)
  <2>1. inbound' = Tail(inbound) /\ held' = inbound[1]
    BY <1>1, <1>2, <1>5 DEF AfterRead
  <2>2. /\ opened' = opened /\ records' = records /\ pool' = pool /\ evicted' = evicted
        /\ inputs' = inputs
    BY <1>1 DEF clientVars, nameVars
  <2>3. 1 \in 1 .. Len(inbound) /\ \A i \in 1 .. Len(inbound') : i + 1 \in 1 .. Len(inbound) /\ 1 < i + 1
    BY <1>2, <2>1
  <2>4. \A i \in 1 .. Len(inbound') : inbound'[i] = inbound[i + 1]
    BY <1>2, <2>1
  <2>5. PacketsInv'
    <3>1. \A q : ForItsHost(q)' <=> ForItsHost(q)
      BY <2>2 DEF ForItsHost
    <3>2. held' \in Packets /\ inbound' \in Seq(Packets)
      BY <1>2, <2>1
    <3>3. ForItsHost(held') /\ \A i \in 1 .. Len(inbound') : ForItsHost(inbound'[i])
      BY <1>1, <2>1, <2>3, <2>4 DEF PacketsInv
    <3> QED BY <1>1, <2>2, <3>1, <3>2, <3>3 DEF PacketsInv
  <2>6. OrderInv'
    <3>1. /\ \A i, j \in 1 .. Len(inbound) : i < j => inbound[i].n < inbound[j].n
          /\ \A i \in 1 .. Len(records), j \in 1 .. Len(inbound) : records[i].packet.n < inbound[j].n
          /\ \A i \in 1 .. Len(inbound) : inbound[i].n < inputs
          /\ \A i, j \in 1 .. Len(records) : i < j => records[i].packet.n < records[j].packet.n
          /\ \A i \in 1 .. Len(records) : records[i].packet.n < inputs
          /\ inputs \in 0 .. MaxInputs
      BY <1>1 DEF OrderInv
    <3>2. /\ held'.n < inputs
          /\ \A i \in 1 .. Len(records) : records[i].packet.n < held'.n
          /\ \A i \in 1 .. Len(inbound') : held'.n < inbound'[i].n
      BY <2>1, <2>3, <2>4, <3>1
    <3>3. \A i, j \in 1 .. Len(inbound') : i < j => inbound'[i].n < inbound'[j].n
      <4> SUFFICES ASSUME NEW i \in 1 .. Len(inbound'), NEW j \in 1 .. Len(inbound'), i < j
                   PROVE  inbound'[i].n < inbound'[j].n
        OBVIOUS
      <4>1. i + 1 \in 1 .. Len(inbound) /\ j + 1 \in 1 .. Len(inbound) /\ i + 1 < j + 1
        BY <2>3
      <4> QED BY <2>4, <3>1, <4>1
    <3>4. /\ \A i \in 1 .. Len(records), j \in 1 .. Len(inbound') : records[i].packet.n < inbound'[j].n
          /\ \A i \in 1 .. Len(inbound') : inbound'[i].n < inputs
      BY <2>3, <2>4, <3>1
    <3>5. Len(records) + Len(inbound') + (IF held' = None THEN 0 ELSE 1) <= inputs
      <4> DEFINE h == IF held' = None THEN 0 ELSE 1
                 m == Len(inbound)
      <4>1. Len(records) + m + 0 <= inputs /\ Len(records) \in Nat /\ m \in Nat
        BY <1>1, <1>2, LenProperties DEF OrderInv, PacketsInv
      <4>2. Len(inbound') = m - 1 /\ h \in 0 .. 1 /\ inputs \in Nat
        BY <1>2, <2>1, <3>1
      <4> HIDE DEF h, m
      <4>3. Len(records) + Len(inbound') + h <= inputs
        BY <4>1, <4>2
      <4> QED BY <4>3 DEF h
    <3> QED BY <2>2, <3>1, <3>2, <3>3, <3>4, <3>5 DEF OrderInv
  <2> QED BY <1>3, <2>5, <2>6 DEF PathInv
<1> QED BY <1>4, <1>5

\* A packet that is blocked or goes directly leaves the path.
LEMMA SendsNothingKeeps == PathInv /\ SendsNothing => PathInv'
<1> SUFFICES ASSUME PathInv, SendsNothing PROVE PathInv'
  OBVIOUS
<1>1. held # None /\ held' = None /\ UNCHANGED <<opened, inbound, nameVars, clientVars, wayVars, inputs>>
  BY DEF SendsNothing
<1>2. NamesInv' /\ FlowsInv' /\ BindingInv' /\ WayInv'
  BY <1>1, NamesKept, FlowsKept, BindingKept, WayKept DEF PathInv, clientVars, wayVars
<1>3. records' = records /\ pool' = pool /\ evicted' = evicted
  BY <1>1 DEF clientVars, nameVars
<1>4. PacketsInv'
  BY <1>1, <1>3 DEF PathInv, PacketsInv, ForItsHost
<1>5. OrderInv'
  <2>1. Len(records) \in Nat /\ Len(inbound) \in Nat
    BY LenProperties DEF PathInv, PacketsInv
  <2>2. inputs \in Nat /\ Len(records) + Len(inbound) + 1 <= inputs
    BY <1>1 DEF PathInv, OrderInv
  <2>3. Len(records) + Len(inbound) + 0 <= inputs
    BY <2>1, <2>2
  <2> QED BY <1>1, <1>3, <2>3 DEF PathInv, OrderInv
<1> QED BY <1>2, <1>4, <1>5 DEF PathInv
-----------------------------------------------------------------------------
\* The frames a binding is offered have a number and a size.
LEMMA FrameIsFrame ==
  ASSUME NEW seq \in Nat, NEW p \in Packets, NEW pad \in 0 .. PadBudget
  PROVE  Frame(seq, p.len, pad) \in Frames /\ Frame(seq, p.len, pad).seq = seq
<1>1. p.len \in Nat /\ pad \in Nat
  BY MuxAssumption DEF Packets, Lens
<1>2. 1 + p.len + pad \in Nat
  BY <1>1
<1> QED BY <1>2 DEF Frame, Frames

\* What is noted in the slot is a failure, and the rest of the binding stands.
LEMMA NoteKeeps ==
  ASSUME NEW b \in Bindings, NEW f \in Failures
  PROVE  /\ Note(b, f) \in Bindings /\ Note(b, f).outbox = b.outbox /\ Note(b, f).kind = b.kind
         /\ Note(b, f).failure = NoteInto(f, b.failure)
         /\ NoteInto(f, b.failure) \in Failures
<1>1. NoteInto(f, b.failure) \in Failures
  BY DEF NoteInto, Bindings
<1>2. Note(b, f) = [b EXCEPT !.failure = NoteInto(f, b.failure)]
  BY DEF Note
<1> QED BY <1>1, <1>2 DEF Bindings

\* send on a closed binding changes the slot at most.
LEMMA SendClosedKeeps ==
  ASSUME NEW b \in Bindings
  PROVE  SendClosed(b) \in Bindings /\ SendClosed(b).outbox = b.outbox /\ SendClosed(b).kind = b.kind
<1> DEFINE c == Note(b, "Closed")
<1>1. c \in Bindings /\ c.outbox = b.outbox /\ c.kind = b.kind
  BY NoteKeeps DEF Failures
<1>2. SendClosed(b) = b \/ SendClosed(b) = [c EXCEPT !.closed_reported = TRUE]
  BY DEF SendClosed
<1> HIDE DEF c
<1> QED BY <1>1, <1>2 DEF Bindings

\* send of a binding: the frame is in the outbox, within the cap, exactly if it is queued;
\* an Ok without that is the mock's.
LEMMA SendCases ==
  ASSUME NEW b \in Bindings, NEW len, NEW f \in Frames
  PROVE  /\ AfterSend(b, len, f) \in Bindings /\ AfterSend(b, len, f).kind = b.kind
         /\ Answer(b, len, f) \in Answers
         /\ Queues(b, len, f) =>
              /\ b.outbox.bytes + f.size <= OutboxCap
              /\ AfterSend(b, len, f).outbox.frames = Append(b.outbox.frames, f)
              /\ AfterSend(b, len, f).outbox.bytes = b.outbox.bytes + f.size
         /\ ~Queues(b, len, f) => AfterSend(b, len, f).outbox = b.outbox
         /\ LosesNext(b) => b.kind = "Mem"
<1> DEFINE c == IF b.kind = "Mem" THEN [b EXCEPT !.offered = b.offered + 1] ELSE b
           box == [frames |-> Append(b.outbox.frames, f), bytes |-> b.outbox.bytes + f.size]
<1>1. c \in Bindings /\ c.outbox = b.outbox /\ c.kind = b.kind
  BY DEF Bindings
<1>2. Answer(b, len, f) \in Answers /\ (LosesNext(b) => b.kind = "Mem")
  BY DEF Answer, Answers, LosesNext
<1>3. CASE Answer(b, len, f) = "TransportDown"
  <2>1. AfterSend(b, len, f) = SendClosed(b) /\ ~Queues(b, len, f)
    BY <1>3 DEF AfterSend, Queues
  <2> QED BY <1>2, <2>1, SendClosedKeeps
<1>4. CASE Queues(b, len, f)
  <2>1. b.outbox.bytes + f.size <= OutboxCap
    BY <1>4 DEF Queues, Answer, Fits
  <2>2. AfterSend(b, len, f) = [c EXCEPT !.outbox = box]
    <3>1. AfterSend(b, len, f) = [c EXCEPT !.outbox = Push(c.outbox, f)]
      BY <1>4 DEF AfterSend, Queues
    <3> QED BY <1>1, <3>1 DEF Push
  <2>3. box \in [frames : Seq(Frames), bytes : Nat]
    <3>1. Append(b.outbox.frames, f) \in Seq(Frames) /\ b.outbox.bytes + f.size \in Nat
      BY AppendProperties DEF Bindings, Frames
    <3> QED BY <3>1
  <2> HIDE DEF c, box
  <2>4. /\ AfterSend(b, len, f) \in Bindings /\ AfterSend(b, len, f).outbox = box
        /\ AfterSend(b, len, f).kind = b.kind
    BY <1>1, <2>2, <2>3 DEF Bindings
  <2> QED BY <1>2, <1>4, <2>1, <2>4 DEF box
<1>5. CASE Answer(b, len, f) # "TransportDown" /\ ~Queues(b, len, f)
  <2>1. AfterSend(b, len, f) = c
    BY <1>5 DEF AfterSend
  <2> HIDE DEF c
  <2> QED BY <1>1, <1>2, <1>5, <2>1
<1> QED BY <1>3, <1>4, <1>5

\* The sender's part of the step: the record takes the next seq and the number of its
\* address, which is a new one only for a new address.
LEMMA SealKeeps ==
  ASSUME PathInv, NEW pad \in 0 .. PadBudget, SendsRecord(pad)
  PROVE  /\ FlowsInv' /\ records' \in Seq(Records) /\ session.next_seq \in Nat
         /\ Len(records) \in Nat /\ Len(records') = Len(records) + 1
         /\ \A i \in 1 .. Len(records) : records'[i] = records[i]
         /\ records'[Len(records) + 1].packet = held
         /\ records'[Len(records) + 1].answer =
              Answer(binding, held.len, Frame(session.next_seq, held.len, pad))
<1> DEFINE key == FlowKey(held)
           a == key.dst
           flow == FlowOf(key)
           known == OpenStream(session, flow)
           frame == Frame(session.next_seq, held.len, pad)
           answer == Answer(binding, held.len, frame)
           stream == StreamOf(known, flow)
           D == DOMAIN flows
           c == Cardinality(D)
           S == session.streams
           r == [packet |-> held, stream |-> stream, answer |-> answer]
<1>1. /\ held # None /\ held' = None /\ session' = AfterSealRecord(known)
      /\ flows' = [x \in D \union {a} |-> IF x = a THEN flow ELSE flows[x]]
      /\ records' = Append(records, r)
  BY DEF SendsRecord
<1>2. held \in Packets /\ a \in Addresses
  BY <1>1 DEF PathInv, PacketsInv, FlowKey, Packets
<1>3. /\ IsFiniteSet(D) /\ D \subseteq Addresses /\ c \in Nat
      /\ \A x \in D : flows[x] \in 1 .. c
      /\ \A x, y \in D : flows[x] = flows[y] => x = y
      /\ DOMAIN session = DOMAIN NewSession(K)
      /\ session.next_seq = Len(records)
      /\ S \in Seq(Nat) /\ Len(S) = c /\ \A i \in 1 .. Len(S) : S[i] = i
  BY FS_CardinalityType DEF PathInv, FlowsInv
<1>4. /\ records \in Seq(Records) /\ Len(records) \in Nat
      /\ Len(records) <= inputs /\ inputs <= MaxInputs /\ MaxInputs < U64Max
      /\ MaxInputs \in Nat /\ inputs \in Nat /\ U64Max \in Nat
  <2>1. records \in Seq(Records) /\ Len(records) \in Nat /\ Len(inbound) \in Nat
    BY LenProperties DEF PathInv, PacketsInv
  <2>2. Len(records) + Len(inbound) + 1 <= inputs /\ inputs \in 0 .. MaxInputs
    BY <1>1 DEF PathInv, OrderInv
  <2> QED BY <2>1, <2>2, PathAssumption, LimitAssumption, WindowAssumption
<1>5. binding \in Bindings
  BY DEF PathInv, BindingInv
<1>6. frame \in Frames
  BY <1>2, <1>3, <1>4, FrameIsFrame
<1>7. answer \in Answers
  BY <1>5, <1>6, SendCases
<1>8. "next_seq" \in DOMAIN session /\ "streams" \in DOMAIN session
  BY <1>3 DEF NewSession
<1>9. DOMAIN S = 1 .. c
  BY <1>3, LenProperties
\* The table after the stream is open, and the place of the flow in it.
<1>10. /\ DOMAIN known = DOMAIN session /\ known.next_seq = session.next_seq
       /\ known.streams \in Seq(Nat) /\ flow \in 1 .. Len(known.streams)
       /\ \A i \in 1 .. Len(known.streams) : known.streams[i] = i
       /\ Len(known.streams) = IF a \in D THEN c ELSE c + 1
       /\ flow = IF a \in D THEN flows[a] ELSE c + 1
  <2>1. flow = IF a \in D THEN flows[a] ELSE c + 1
    BY DEF FlowOf
  <2>2. CASE a \in D
    <3>1. flow \in 1 .. c /\ S[flow] = flow
      BY <1>3, <2>1, <2>2
    <3>2. known = session
      <4>1. \E i \in DOMAIN S : S[i] = flow
        BY <1>9, <3>1
      <4> HIDE DEF flow
      <4> QED BY <4>1 DEF OpenStream
    <3> HIDE DEF flow, known
    <3> QED BY <1>3, <2>1, <2>2, <3>1, <3>2
  <2>3. CASE a \notin D
    <3>1. flow = c + 1
      BY <2>1, <2>3
    <3> HIDE DEF flow, c
    <3>2. ~ \E i \in DOMAIN S : S[i] = flow
      BY <1>3, <1>9, <3>1
    <3>3. known = [session EXCEPT !.streams = Append(S, flow)]
      BY <3>2 DEF OpenStream
    <3>4. known.streams = Append(S, flow) /\ known.next_seq = session.next_seq /\ DOMAIN known = DOMAIN session
      BY <1>8, <3>3
    <3>5. flow \in Nat
      BY <1>3, <3>1
    <3>6. /\ Append(S, flow) \in Seq(Nat) /\ Len(Append(S, flow)) = Len(S) + 1
          /\ Append(S, flow)[Len(S) + 1] = flow
          /\ \A i \in 1 .. Len(S) : Append(S, flow)[i] = S[i]
      BY <1>3, <3>5, AppendAt
    <3>7. \A i \in 1 .. c + 1 : Append(S, flow)[i] = i
      <4>1. \A i \in 1 .. c + 1 : i \in 1 .. c \/ i = c + 1
        BY <1>3
      <4> QED BY <1>3, <3>1, <3>6, <4>1
    <3>8. Len(Append(S, flow)) = c + 1 /\ flow \in 1 .. c + 1
      BY <1>3, <3>1, <3>6
    <3> HIDE DEF known, S
    <3> QED BY <2>1, <2>3, <3>4, <3>6, <3>7, <3>8
  <2> QED BY <2>2, <2>3
<1>11. stream = flow - 1
  <2>1. DOMAIN known.streams = 1 .. Len(known.streams)
    BY <1>10, LenProperties
  <2>2. \A i \in DOMAIN known.streams : known.streams[i] = flow <=> i = flow
    BY <1>10, <2>1
  <2>3. flow \in DOMAIN known.streams
    BY <1>10, <2>1
  <2> HIDE DEF flow, known
  <2>4. (CHOOSE i \in DOMAIN known.streams : known.streams[i] = flow) = flow
    BY <2>2, <2>3
  <2> QED BY <2>4 DEF StreamOf
<1>12. /\ session'.next_seq = Len(records) + 1 /\ session'.streams = known.streams
       /\ DOMAIN session' = DOMAIN session
  <2> HIDE DEF known
  <2>1. session' = [known EXCEPT !.next_seq = SatInc(known.next_seq)]
    BY <1>1 DEF AfterSealRecord, TakeSeq
  <2>2. SatInc(known.next_seq) = Len(records) + 1
    BY <1>3, <1>4, <1>10 DEF SatInc
  <2> QED BY <1>8, <1>10, <2>1, <2>2
<1>13. flow \in Nat \ {0}
  BY <1>3, <1>10
<1>14. r \in Records
  <2> HIDE DEF stream, answer, flow
  <2>1. stream \in Nat
    BY <1>11, <1>13
  <2> QED BY <1>2, <1>7, <2>1 DEF Records
<1>15. /\ records' \in Seq(Records) /\ Len(records') = Len(records) + 1
       /\ records'[Len(records) + 1] = r
       /\ \A i \in 1 .. Len(records) : records'[i] = records[i]
  <2> HIDE DEF r
  <2> QED BY <1>1, <1>4, <1>14, AppendAt
<1> HIDE DEF flow, known, stream, answer, frame
<1>16. /\ DOMAIN flows' = D \union {a} /\ flows'[a] = flow
       /\ \A x \in D : flows'[x] = flows[x]
  <2>1. \A x \in D : x = a => flows[x] = flow
    BY <1>10
  <2> QED BY <1>1, <2>1
<1>17. /\ IsFiniteSet(D \union {a})
       /\ Cardinality(D \union {a}) = IF a \in D THEN c ELSE c + 1
  BY <1>3, FS_AddElement
<1>18. /\ \A x \in DOMAIN flows' : flows'[x] \in 1 .. Cardinality(DOMAIN flows')
       /\ \A x, y \in DOMAIN flows' : flows'[x] = flows'[y] => x = y
  <2> HIDE DEF c, D, a
  <2>1. CASE a \in D
    BY <1>3, <1>10, <1>16, <1>17, <2>1
  <2>2. CASE a \notin D
    <3>1. \A x \in D : flows'[x] \in 1 .. c /\ flows'[x] # c + 1
      BY <1>3, <1>16
    <3>2. flows'[a] = c + 1 /\ Cardinality(DOMAIN flows') = c + 1 /\ c + 1 \in 1 .. c + 1
      BY <1>3, <1>10, <1>16, <1>17, <2>2
    <3>3. \A x \in D : flows'[x] \in 1 .. c + 1
      BY <1>3, <3>1
    <3> QED BY <1>3, <1>16, <3>1, <3>2, <3>3
  <2> QED BY <2>1, <2>2
<1>19. \A i \in 1 .. Len(records') :
         LET dst == FlowKey(records'[i].packet).dst IN
         dst \in DOMAIN flows' /\ records'[i].stream = flows'[dst] - 1
  <2>1. ASSUME NEW i \in 1 .. Len(records)
        PROVE  LET dst == FlowKey(records'[i].packet).dst IN
               dst \in DOMAIN flows' /\ records'[i].stream = flows'[dst] - 1
    <3> DEFINE dst == FlowKey(records[i].packet).dst
    <3>1. dst \in D /\ records[i].stream = flows[dst] - 1
      BY DEF PathInv, FlowsInv
    <3>2. FlowKey(records'[i].packet).dst = dst /\ records'[i].stream = records[i].stream
      BY <1>15
    <3> HIDE DEF dst
    <3>3. dst \in DOMAIN flows' /\ flows'[dst] = flows[dst]
      BY <1>16, <3>1
    <3> QED BY <3>1, <3>2, <3>3
  <2>2. LET dst == FlowKey(records'[Len(records) + 1].packet).dst IN
        dst \in DOMAIN flows' /\ records'[Len(records) + 1].stream = flows'[dst] - 1
    BY <1>11, <1>15, <1>16
  <2>3. \A i \in 1 .. Len(records') : i \in 1 .. Len(records) \/ i = Len(records) + 1
    BY <1>4, <1>15
  <2> QED BY <2>1, <2>2, <2>3
<1>20. FlowsInv'
  <2>1. D \union {a} \subseteq Addresses
    BY <1>2, <1>3
  <2> QED BY <1>3, <1>10, <1>12, <1>15, <1>16, <1>17, <1>18, <1>19, <2>1 DEF FlowsInv
<1> QED BY <1>3, <1>4, <1>15, <1>20 DEF answer, frame
\* The order after a seal: the packet that was held is the newest sealed one.
LEMMA SealKeepsOrder ==
  ASSUME PathInv, NEW pad \in 0 .. PadBudget, SendsRecord(pad)
  PROVE  PacketsInv' /\ OrderInv'
<1> DEFINE n == Len(records)
<1>1. /\ held # None /\ held' = None
      /\ UNCHANGED <<opened, inbound, nameVars, inputs>>
  BY DEF SendsRecord
<1>2. /\ records' \in Seq(Records) /\ n \in Nat /\ Len(records') = n + 1
      /\ \A i \in 1 .. n : records'[i] = records[i]
      /\ records'[n + 1].packet = held
  BY SealKeeps
<1>3. \A i \in 1 .. Len(records') : i \in 1 .. n \/ i = n + 1
  BY <1>2
<1>4. PacketsInv /\ OrderInv
  BY DEF PathInv
<1>5. pool' = pool /\ evicted' = evicted
  BY <1>1 DEF nameVars
<1>6. PacketsInv'
  <2>1. \A q : ForItsHost(q)' <=> ForItsHost(q)
    BY <1>5 DEF ForItsHost
  <2>2. \A i \in 1 .. Len(records') : ForItsHost(records'[i].packet)
    BY <1>1, <1>2, <1>3, <1>4 DEF PacketsInv
  <2> QED BY <1>1, <1>2, <1>4, <2>1, <2>2 DEF PacketsInv
<1>7. OrderInv'
  <2>1. /\ \A i, j \in 1 .. n : i < j => records[i].packet.n < records[j].packet.n
        /\ \A i \in 1 .. n, j \in 1 .. Len(inbound) : records[i].packet.n < inbound[j].n
        /\ \A i \in 1 .. n : records[i].packet.n < held.n
        /\ \A i \in 1 .. Len(inbound) : held.n < inbound[i].n
        /\ \A i \in 1 .. n : records[i].packet.n < inputs
        /\ held.n < inputs
        /\ \A i, j \in 1 .. Len(inbound) : i < j => inbound[i].n < inbound[j].n
        /\ \A i \in 1 .. Len(inbound) : inbound[i].n < inputs
        /\ inputs \in 0 .. MaxInputs
    BY <1>1, <1>4 DEF OrderInv
  <2> HIDE DEF n
  <2>2. \A i, j \in 1 .. Len(records') : i < j => records'[i].packet.n < records'[j].packet.n
    <3> SUFFICES ASSUME NEW i \in 1 .. Len(records'), NEW j \in 1 .. Len(records'), i < j
                 PROVE  records'[i].packet.n < records'[j].packet.n
      OBVIOUS
    <3>1. i \in 1 .. n
      BY <1>2
    <3> QED BY <1>2, <1>3, <2>1, <3>1
  <2>3. /\ \A i \in 1 .. Len(records'), j \in 1 .. Len(inbound) : records'[i].packet.n < inbound[j].n
        /\ \A i \in 1 .. Len(records') : records'[i].packet.n < inputs
    BY <1>2, <1>3, <2>1
  <2>4. Len(records') + Len(inbound) + 0 <= inputs
    <3>1. n + Len(inbound) + 1 <= inputs
      BY <1>1, <1>4 DEF OrderInv, n
    <3>2. Len(inbound) \in Nat /\ inputs \in Nat
      BY <1>4, <2>1, LenProperties DEF PacketsInv
    <3> QED BY <1>2, <3>1, <3>2
  <2> QED BY <1>1, <2>1, <2>2, <2>3, <2>4 DEF OrderInv
<1> QED BY <1>6, <1>7

\* The numbers of the records that send answered Ok for.
OkSeqs == {i - 1 : i \in {j \in DOMAIN records : records[j].answer = "Ok"}}

\* A queued frame is the newest on the way, and its record the newest with an Ok; what the
\* mock loses is as new, and is not on the way.
LEMMA SealKeepsWay ==
  ASSUME PathInv, NEW pad \in 0 .. PadBudget, SendsRecord(pad)
  PROVE  BindingInv' /\ WayInv'
<1> DEFINE n == Len(records)
           f == Frame(session.next_seq, held.len, pad)
           answer == Answer(binding, held.len, f)
           queued == Queues(binding, held.len, f)
           loses == LosesNext(binding)
           fs == binding.outbox.frames
           way == Way
<1>1. /\ held # None /\ binding' = AfterSend(binding, held.len, f)
      /\ lost' = IF answer = "Ok" /\ loses THEN lost \union {session.next_seq} ELSE lost
      /\ UNCHANGED <<writer, wire, events, drainFailed>>
  BY DEF SendsRecord
<1>2. /\ records' \in Seq(Records) /\ n \in Nat /\ Len(records') = n + 1
      /\ \A i \in 1 .. n : records'[i] = records[i]
      /\ records'[n + 1].answer = answer
      /\ session.next_seq = n
  BY SealKeeps DEF PathInv, FlowsInv
<1>3. f \in Frames /\ f.seq = n
  BY <1>1, <1>2, FrameIsFrame DEF PathInv, PacketsInv
<1>4. /\ binding \in Bindings /\ binding.outbox.bytes = BytesOf(fs) /\ fs \in Seq(Frames)
      /\ binding.outbox.bytes <= OutboxCap /\ events \in Seq(Failures)
  BY DEF PathInv, BindingInv, OutboxCounts, Bindings
<1> HIDE DEF f
<1>5. /\ binding' \in Bindings /\ binding'.kind = binding.kind
      /\ queued =>
           /\ binding.outbox.bytes + f.size <= OutboxCap
           /\ binding'.outbox.frames = Append(fs, f)
           /\ binding'.outbox.bytes = binding.outbox.bytes + f.size
      /\ ~queued => binding'.outbox = binding.outbox
      /\ loses => binding.kind = "Mem"
      /\ queued <=> answer = "Ok" /\ ~loses
  BY <1>1, <1>3, <1>4, SendCases DEF Queues
<1> HIDE DEF answer, queued, loses
<1>6. BindingInv'
  <2>1. CASE queued
    BY <1>1, <1>3, <1>4, <1>5, <2>1, BytesOfAppend DEF BindingInv, OutboxCounts
  <2>2. CASE ~queued
    BY <1>1, <1>4, <1>5, <2>2 DEF BindingInv, OutboxCounts
  <2> QED BY <2>1, <2>2
<1>7. /\ writer \in Seq(Frames) /\ wire \in Seq(Frames) /\ NothingVanishes
      /\ writer' = writer /\ wire' = wire /\ drainFailed' = drainFailed /\ drainFailed \in BOOLEAN
  BY <1>1 DEF PathInv, WayInv
<1>8. wire \o writer \in Seq(Frames) /\ way \in Seq(Frames)
  BY <1>4, <1>7, ConcatProperties DEF Way
<1>9. DOMAIN records = 1 .. n /\ DOMAIN records' = 1 .. n + 1 /\ DOMAIN way = 1 .. Len(way)
      /\ Len(way) \in Nat
  BY <1>2, <1>8, LenProperties DEF PathInv, PacketsInv
<1>10. /\ Seqs(way) \union lost = OkSeqs /\ Seqs(way) \intersect lost = {}
       /\ \A i, j \in 1 .. Len(way) : i < j => way[i].seq < way[j].seq
       /\ \A i \in 1 .. Len(way) : way[i].seq \in Seqs(way)
       /\ lost # {} => drainFailed \/ binding.kind = "Mem"
  BY <1>7, <1>9 DEF NothingVanishes, OkSeqs, Seqs
<1>11. \A x \in OkSeqs : x \in Nat /\ x < n
  BY <1>2, <1>9 DEF OkSeqs
<1>12. n \notin OkSeqs /\ n \notin Seqs(way) /\ n \notin lost
  BY <1>2, <1>10, <1>11
<1>13. OkSeqs' = IF answer = "Ok" THEN OkSeqs \union {n} ELSE OkSeqs
  <2>1. \A i \in 1 .. n + 1 : i \in 1 .. n \/ i = n + 1
    BY <1>2
  <2>2. n + 1 \in 1 .. n + 1 /\ \A i \in 1 .. n : i \in 1 .. n + 1
    BY <1>2
  <2>3. {j \in 1 .. n + 1 : records'[j].answer = "Ok"}
          = {j \in 1 .. n : records[j].answer = "Ok"}
              \union (IF answer = "Ok" THEN {n + 1} ELSE {})
    BY <1>2, <2>1, <2>2
  <2>4. (n + 1) - 1 = n
    BY <1>2
  <2> QED BY <1>9, <2>3, <2>4 DEF OkSeqs
<1>14. CASE ~queued
  <2>1. Way' = way
    BY <1>5, <1>7, <1>14 DEF Way
  <2>2. Seqs(way) \union lost' = OkSeqs' /\ Seqs(way) \intersect lost' = {}
    BY <1>1, <1>2, <1>5, <1>10, <1>12, <1>13, <1>14
  <2>3. lost' # {} => drainFailed' \/ binding'.kind = "Mem"
    BY <1>1, <1>5, <1>7, <1>10
  <2>4. \A i, j \in DOMAIN way : i < j => way[i].seq < way[j].seq
    BY <1>9, <1>10
  <2>5. Seqs(Way)' = Seqs(way)
    BY <2>1 DEF Seqs
  <2> HIDE DEF way
  <2>6. NothingVanishes'
    BY <2>1, <2>2, <2>3, <2>4, <2>5 DEF NothingVanishes, OkSeqs
  <2> QED BY <1>6, <1>7, <2>6 DEF WayInv
<1>15. CASE queued
  <2>1. Way' = Append(way, f)
    <3>1. Append(fs, f) = fs \o <<f>> /\ Append(way, f) = way \o <<f>>
      <4> HIDE DEF way, fs
      <4> QED BY <1>3, <1>4, <1>8, AppendIsConcat
    <3>2. <<f>> \in Seq(Frames)
      BY <1>3
    <3> DEFINE front == wire \o writer
    <3>3. way = front \o fs /\ Way' = front \o Append(fs, f)
      BY <1>5, <1>7, <1>15 DEF Way
    <3> HIDE DEF fs, front, way
    <3>4. (front \o fs) \o <<f>> = front \o (fs \o <<f>>)
      <4>1. front \in Seq(Frames) /\ fs \in Seq(Frames)
        BY <1>4, <1>8 DEF front
      <4> QED BY <3>2, <4>1, ConcatAssociative
    <3> QED BY <3>1, <3>3, <3>4
  <2> HIDE DEF way
  <2>2. /\ Len(Append(way, f)) = Len(way) + 1 /\ Append(way, f)[Len(way) + 1] = f
        /\ \A i \in 1 .. Len(way) : Append(way, f)[i] = way[i]
        /\ Append(way, f) \in Seq(Frames)
    BY <1>3, <1>8, AppendAt
  <2>3. DOMAIN Append(way, f) = 1 .. Len(way) + 1
    BY <2>2, LenProperties
  <2>4. OkSeqs' = OkSeqs \union {n} /\ lost' = lost
    BY <1>1, <1>5, <1>13, <1>15
  <2>5. \A i \in 1 .. Len(way) : way[i].seq < n
    BY <1>10, <1>11
  <2>6. \A i \in 1 .. Len(way) + 1 : i \in 1 .. Len(way) \/ i = Len(way) + 1
    BY <1>9
  <2>7. Seqs(Append(way, f)) = Seqs(way) \union {n}
    <3>1. Seqs(Append(way, f)) = {Append(way, f)[i].seq : i \in 1 .. Len(way) + 1}
      BY <2>3 DEF Seqs
    <3>2. Seqs(way) = {way[i].seq : i \in 1 .. Len(way)}
      BY <1>9 DEF Seqs
    <3>3. Len(way) + 1 \in 1 .. Len(way) + 1 /\ \A i \in 1 .. Len(way) : i \in 1 .. Len(way) + 1
      BY <1>9
    <3>4. \A x : x \in Seqs(Append(way, f)) <=> x \in Seqs(way) \/ x = n
      BY <1>3, <2>2, <2>6, <3>1, <3>2, <3>3
    <3> QED BY <3>4
  <2>8. \A i, j \in 1 .. Len(way) + 1 : i < j => Append(way, f)[i].seq < Append(way, f)[j].seq
    <3> SUFFICES ASSUME NEW i \in 1 .. Len(way) + 1, NEW j \in 1 .. Len(way) + 1, i < j
                 PROVE  Append(way, f)[i].seq < Append(way, f)[j].seq
      OBVIOUS
    <3>1. i \in 1 .. Len(way)
      BY <1>9
    <3>2. CASE j \in 1 .. Len(way)
      BY <1>10, <2>2, <3>1, <3>2
    <3>3. CASE j = Len(way) + 1
      BY <1>3, <2>2, <2>5, <3>1, <3>3
    <3> QED BY <2>6, <3>2, <3>3
  <2>9. Seqs(Way)' = Seqs(Append(way, f))
    BY <2>1 DEF Seqs
  <2>10. /\ Seqs(Append(way, f)) \union lost' = OkSeqs'
         /\ Seqs(Append(way, f)) \intersect lost' = {}
    BY <1>10, <1>12, <2>4, <2>7
  <2>11. lost' # {} => drainFailed' \/ binding'.kind = "Mem"
    BY <1>5, <1>7, <1>10, <2>4
  <2>12. NothingVanishes'
    BY <2>1, <2>3, <2>8, <2>9, <2>10, <2>11 DEF NothingVanishes, OkSeqs
  <2> QED BY <1>6, <1>7, <2>12 DEF WayInv
<1> QED BY <1>14, <1>15

\* send_packet on Route, as a whole.
LEMMA SendsRecordKeeps ==
  ASSUME PathInv, NEW pad \in 0 .. PadBudget, SendsRecord(pad)
  PROVE  PathInv'
<1>1. NamesInv'
  BY NamesKept DEF PathInv, SendsRecord
<1> QED BY <1>1, SealKeeps, SealKeepsOrder, SealKeepsWay DEF PathInv
-----------------------------------------------------------------------------
\* A binding with another outbox is a binding.
LEMMA OutboxReplaced ==
  ASSUME NEW b \in Bindings, NEW o \in [frames : Seq(Frames), bytes : Nat]
  PROVE  /\ [b EXCEPT !.outbox = o] \in Bindings /\ [b EXCEPT !.outbox = o].outbox = o
         /\ [b EXCEPT !.outbox = o].kind = b.kind
BY DEF Bindings

\* take_pending moves the queue to the writer: the way as a whole is the same.
LEMMA WriterTakesKeeps == PathInv /\ WriterTakes => PathInv'
<1> SUFFICES ASSUME PathInv, WriterTakes PROVE PathInv'
  OBVIOUS
<1> DEFINE fs == binding.outbox.frames
<1>1. /\ writer = <<>> /\ writer' = fs /\ wire' = wire /\ records' = records /\ events' = events
      /\ binding' = [binding EXCEPT !.outbox = Drained(binding.outbox)]
      /\ UNCHANGED <<deviceVars, nameVars, flows, session, lost, drainFailed, inputs>>
  BY DEF WriterTakes
<1>2. binding \in Bindings /\ fs \in Seq(Frames) /\ wire \in Seq(Frames) /\ events \in Seq(Failures)
      /\ NothingVanishes /\ drainFailed \in BOOLEAN
  BY DEF PathInv, BindingInv, WayInv, Bindings
<1>3. Drained(binding.outbox) = [frames |-> <<>>, bytes |-> 0] /\ <<>> \in Seq(Frames)
  BY EmptySeq DEF Drained
<1>4. /\ binding' \in Bindings /\ binding'.outbox.frames = <<>> /\ binding'.outbox.bytes = 0
      /\ binding'.kind = binding.kind
  <2> DEFINE o == Drained(binding.outbox)
  <2>1. o \in [frames : Seq(Frames), bytes : Nat] /\ o.frames = <<>> /\ o.bytes = 0
    BY <1>3
  <2> HIDE DEF o
  <2>2. /\ [binding EXCEPT !.outbox = o] \in Bindings /\ [binding EXCEPT !.outbox = o].outbox = o
        /\ [binding EXCEPT !.outbox = o].kind = binding.kind
    BY <1>2, <2>1, OutboxReplaced
  <2>3. binding' = [binding EXCEPT !.outbox = o]
    BY <1>1 DEF o
  <2> QED BY <2>1, <2>2, <2>3
<1>5. BindingInv'
  BY <1>1, <1>2, <1>4, BytesOfNothing, MuxAssumption DEF BindingInv, OutboxCounts
<1>6. Way' = Way
  <2>1. wire \o fs \in Seq(Frames)
    BY <1>2, ConcatProperties
  <2>2. (wire \o fs) \o <<>> = wire \o fs /\ wire \o <<>> = wire
    BY <1>2, <2>1, ConcatEmptySeq
  <2> QED BY <1>1, <1>4, <2>2 DEF Way
<1>7. WayInv'
  BY <1>1, <1>2, <1>4, <1>6 DEF WayInv, NothingVanishes, Seqs
<1>8. NamesInv' /\ PacketsInv' /\ OrderInv' /\ FlowsInv'
  BY <1>1, NamesKept, PacketsKept, OrderKept, FlowsKept
  DEF PathInv, PacketsInv, deviceVars, nameVars
<1> QED BY <1>5, <1>7, <1>8 DEF PathInv

\* A write moves the first frame of the writer to the wire: the way is the same.
LEMMA WriterWritesKeeps == PathInv /\ WriterWrites => PathInv'
<1> SUFFICES ASSUME PathInv, WriterWrites PROVE PathInv'
  OBVIOUS
<1> DEFINE fs == binding.outbox.frames
<1>1. /\ writer # <<>> /\ wire' = Append(wire, Head(writer)) /\ writer' = Tail(writer)
      /\ UNCHANGED <<deviceVars, nameVars, clientVars, events, lost, drainFailed, inputs>>
  BY DEF WriterWrites
<1>2. /\ writer \in Seq(Frames) /\ wire \in Seq(Frames) /\ fs \in Seq(Frames)
      /\ NothingVanishes /\ drainFailed \in BOOLEAN
  BY DEF PathInv, BindingInv, WayInv, Bindings
<1>3. /\ Head(writer) \in Frames /\ Tail(writer) \in Seq(Frames)
      /\ <<Head(writer)>> \in Seq(Frames) /\ <<Head(writer)>> \o Tail(writer) = writer
  BY <1>1, <1>2, HeadTailProperties
<1>4. wire' \in Seq(Frames) /\ writer' \in Seq(Frames)
  BY <1>1, <1>2, <1>3, AppendProperties
<1>5. Way' = Way
  <2>1. wire' = wire \o <<Head(writer)>>
    BY <1>1, <1>2, <1>3, AppendIsConcat
  <2>2. (wire \o <<Head(writer)>>) \o Tail(writer) = wire \o writer
    <3>1. (wire \o <<Head(writer)>>) \o Tail(writer) = wire \o (<<Head(writer)>> \o Tail(writer))
      BY <1>2, <1>3, ConcatAssociative
    <3> QED BY <1>3, <3>1
  <2>3. binding' = binding
    BY <1>1 DEF clientVars
  <2> QED BY <1>1, <2>1, <2>2, <2>3 DEF Way
<1>6. records' = records /\ binding' = binding /\ lost' = lost /\ drainFailed' = drainFailed
  BY <1>1 DEF clientVars
<1>7. WayInv'
  BY <1>2, <1>4, <1>5, <1>6 DEF WayInv, NothingVanishes, Seqs
<1>8. NamesInv' /\ PacketsInv' /\ OrderInv' /\ FlowsInv' /\ BindingInv'
  BY <1>1, NamesKept, PacketsKept, OrderKept, FlowsKept, BindingKept
  DEF PathInv, PacketsInv, deviceVars, nameVars, clientVars
<1> QED BY <1>7, <1>8 DEF PathInv

\* The middle of a sequence, taken out: what is left, and what it was made of.
LEMMA WithoutMiddle ==
  ASSUME NEW u \in Seq(Frames), NEW v \in Seq(Frames), NEW w \in Seq(Frames),
         \A i, j \in DOMAIN (u \o v \o w) :
           i < j => (u \o v \o w)[i].seq < (u \o v \o w)[j].seq
  PROVE  /\ Seqs(u \o v \o w) = Seqs(u \o w) \union Seqs(v)
         /\ Seqs(u \o w) \intersect Seqs(v) = {}
         /\ \A i, j \in DOMAIN (u \o w) : i < j => (u \o w)[i].seq < (u \o w)[j].seq
<1> DEFINE a == Len(u)
           b == Len(v)
           c == Len(w)
           all == u \o v \o w
           rest == u \o w
           At(i) == IF i <= a THEN i ELSE i + b
<1>1. a \in Nat /\ b \in Nat /\ c \in Nat /\ u \o v \in Seq(Frames)
  BY LenProperties, ConcatProperties
<1>2. /\ Len(u \o v) = a + b /\ Len(all) = a + b + c /\ Len(rest) = a + c
      /\ all \in Seq(Frames) /\ rest \in Seq(Frames)
  BY <1>1, ConcatProperties
<1>3. /\ DOMAIN all = 1 .. a + b + c /\ DOMAIN rest = 1 .. a + c /\ DOMAIN v = 1 .. b
  BY <1>1, <1>2, LenProperties
<1>4. /\ \A i \in 1 .. a : all[i] = u[i] /\ rest[i] = u[i]
      /\ \A i \in 1 .. b : all[a + i] = v[i]
      /\ \A i \in 1 .. c : all[a + b + i] = w[i] /\ rest[a + i] = w[i]
  <2>1. \A i \in 1 .. a + b : all[i] = (u \o v)[i]
    BY <1>1, <1>2, ConcatProperties
  <2>2. \A i \in 1 .. c : all[a + b + i] = w[i]
    <3> SUFFICES ASSUME NEW i \in 1 .. c PROVE all[a + b + i] = w[i]
      OBVIOUS
    <3>1. a + b + i \in 1 .. Len(u \o v) + Len(w) /\ a + b + i > Len(u \o v) /\ (a + b + i) - (a + b) = i
      BY <1>1, <1>2
    <3> QED BY <1>1, <1>2, <3>1, ConcatProperties
  <2>3. \A i \in 1 .. a : (u \o v)[i] = u[i] /\ rest[i] = u[i] /\ i \in 1 .. a + b
    BY <1>1, ConcatProperties
  <2>4. \A i \in 1 .. b : (u \o v)[a + i] = v[i] /\ a + i \in 1 .. a + b
    <3> SUFFICES ASSUME NEW i \in 1 .. b PROVE (u \o v)[a + i] = v[i] /\ a + i \in 1 .. a + b
      OBVIOUS
    <3>1. a + i \in 1 .. Len(u) + Len(v) /\ a + i > Len(u) /\ (a + i) - a = i
      BY <1>1
    <3> QED BY <1>1, <3>1, ConcatProperties
  <2>5. \A i \in 1 .. c : rest[a + i] = w[i]
    <3> SUFFICES ASSUME NEW i \in 1 .. c PROVE rest[a + i] = w[i]
      OBVIOUS
    <3>1. a + i \in 1 .. Len(u) + Len(w) /\ a + i > Len(u) /\ (a + i) - a = i
      BY <1>1
    <3> QED BY <1>1, <3>1, ConcatProperties
  <2> QED BY <2>1, <2>2, <2>3, <2>4, <2>5
<1> HIDE DEF a, b, c, all, rest
\* Each place of the rest has its place in the whole, outside the middle.
<1>5. \A i \in 1 .. a + c : At(i) \in 1 .. a + b + c /\ rest[i] = all[At(i)]
  <2> SUFFICES ASSUME NEW i \in 1 .. a + c
               PROVE  At(i) \in 1 .. a + b + c /\ rest[i] = all[At(i)]
    OBVIOUS
  <2>1. CASE i <= a
    BY <1>1, <1>4, <2>1
  <2>2. CASE ~(i <= a)
    <3>1. i - a \in 1 .. c /\ a + (i - a) = i /\ a + b + (i - a) = i + b
      BY <1>1, <2>2
    <3>2. rest[a + (i - a)] = all[a + b + (i - a)]
      BY <1>4, <3>1
    <3> QED BY <1>1, <2>2, <3>1, <3>2
  <2> QED BY <2>1, <2>2
<1>6. \A i \in 1 .. b : a + i \in 1 .. a + b + c /\ v[i] = all[a + i]
  BY <1>1, <1>4
<1>7. \A k \in 1 .. a + b + c :
        (\E i \in 1 .. a + c : At(i) = k) \/ (\E i \in 1 .. b : a + i = k)
  <2> SUFFICES ASSUME NEW k \in 1 .. a + b + c
               PROVE  (\E i \in 1 .. a + c : At(i) = k) \/ (\E i \in 1 .. b : a + i = k)
    OBVIOUS
  <2>1. CASE k <= a
    <3>1. k \in 1 .. a + c /\ At(k) = k
      BY <1>1, <2>1
    <3> QED BY <3>1
  <2>2. CASE k > a /\ k <= a + b
    <3>1. k - a \in 1 .. b /\ a + (k - a) = k
      BY <1>1, <2>2
    <3> QED BY <3>1
  <2>3. CASE k > a + b
    <3>1. k - b \in 1 .. a + c /\ ~(k - b <= a) /\ (k - b) + b = k
      BY <1>1, <2>3
    <3>2. At(k - b) = k
      BY <3>1
    <3> QED BY <3>1, <3>2
  <2> QED BY <1>1, <2>1, <2>2, <2>3
<1>8. \A i, j \in 1 .. a + c : i < j => At(i) < At(j)
  BY <1>1
<1>9. \A i \in 1 .. a + c, j \in 1 .. b : At(i) < a + j \/ a + j < At(i)
  BY <1>1
<1>10. \A k \in 1 .. a + b + c : all[k].seq \in Nat
  <2>1. \A k \in 1 .. a + b + c : all[k] \in Frames
    BY <1>2, <1>3, ElementOfSeq
  <2> QED BY <2>1 DEF Frames
<1>11. \A i, j \in 1 .. a + b + c : i < j => all[i].seq < all[j].seq
  BY <1>3 DEF all
<1> HIDE DEF At
<1>12. Seqs(all) = Seqs(rest) \union Seqs(v)
  <2>1. \A x : x \in Seqs(all) <=> \E k \in 1 .. a + b + c : x = all[k].seq
    BY <1>3 DEF Seqs
  <2>2. \A x : x \in Seqs(rest) <=> \E i \in 1 .. a + c : x = rest[i].seq
    BY <1>3 DEF Seqs
  <2>3. \A x : x \in Seqs(v) <=> \E i \in 1 .. b : x = v[i].seq
    BY <1>3 DEF Seqs
  <2>4. \A x \in Seqs(all) : x \in Seqs(rest) \/ x \in Seqs(v)
    BY <1>5, <1>6, <1>7, <2>1, <2>2, <2>3
  <2>5. \A x \in Seqs(rest) : x \in Seqs(all)
    BY <1>5, <2>1, <2>2
  <2>6. \A x \in Seqs(v) : x \in Seqs(all)
    BY <1>6, <2>1, <2>3
  <2> QED BY <2>4, <2>5, <2>6
<1>13. Seqs(rest) \intersect Seqs(v) = {}
  <2> SUFFICES ASSUME NEW i \in 1 .. a + c, NEW j \in 1 .. b, rest[i].seq = v[j].seq PROVE FALSE
    BY <1>3 DEF Seqs
  <2>1. At(i) \in 1 .. a + b + c /\ a + j \in 1 .. a + b + c /\ all[At(i)].seq = all[a + j].seq
    BY <1>5, <1>6
  <2>2. all[At(i)].seq < all[a + j].seq \/ all[a + j].seq < all[At(i)].seq
    BY <1>9, <1>11, <2>1
  <2> QED BY <1>10, <2>1, <2>2
<1>14. \A i, j \in 1 .. a + c : i < j => rest[i].seq < rest[j].seq
  BY <1>5, <1>8, <1>11
<1> QED BY <1>3, <1>12, <1>13, <1>14 DEF all, rest

\* A drain that fails takes what it held out of the middle of the way.
LEMMA WriterFailsKeeps == PathInv /\ WriterFails => PathInv'
<1> SUFFICES ASSUME PathInv, WriterFails PROVE PathInv'
  OBVIOUS
<1> DEFINE fs == binding.outbox.frames
<1>1. /\ writer' = <<>> /\ lost' = lost \union Seqs(writer) /\ drainFailed' = TRUE /\ Input
      /\ UNCHANGED <<deviceVars, nameVars, clientVars, wire, events>>
  BY DEF WriterFails
<1>2. /\ writer \in Seq(Frames) /\ wire \in Seq(Frames) /\ fs \in Seq(Frames) /\ NothingVanishes
  BY DEF PathInv, BindingInv, WayInv, Bindings
<1>3. records' = records /\ binding' = binding /\ wire' = wire
  BY <1>1 DEF clientVars
<1>4. Way = wire \o writer \o fs /\ Way' = wire \o fs
  <2>1. wire \o <<>> = wire
    BY <1>2, ConcatEmptySeq
  <2> QED BY <1>1, <1>3, <2>1 DEF Way
<1>5. /\ Seqs(Way) = Seqs(wire \o fs) \union Seqs(writer)
      /\ Seqs(wire \o fs) \intersect Seqs(writer) = {}
      /\ \A i, j \in DOMAIN (wire \o fs) : i < j => (wire \o fs)[i].seq < (wire \o fs)[j].seq
  <2>1. \A i, j \in DOMAIN Way : i < j => Way[i].seq < Way[j].seq
    BY <1>2 DEF NothingVanishes
  <2> HIDE DEF fs
  <2> QED BY <1>2, <1>4, <2>1, WithoutMiddle
<1>6. /\ Seqs(Way) \union lost = OkSeqs /\ Seqs(Way) \intersect lost = {} /\ OkSeqs' = OkSeqs
  BY <1>2, <1>3 DEF NothingVanishes, OkSeqs
<1>7. Seqs(Way)' = Seqs(wire \o fs)
  BY <1>4 DEF Seqs
<1>8. /\ Seqs(wire \o fs) \union lost' = OkSeqs'
      /\ Seqs(wire \o fs) \intersect lost' = {}
  BY <1>1, <1>5, <1>6
<1>9. WayInv'
  <2>1. <<>> \in Seq(Frames)
    BY EmptySeq
  <2> HIDE DEF fs
  <2>2. NothingVanishes'
    BY <1>1, <1>4, <1>5, <1>7, <1>8 DEF NothingVanishes, OkSeqs
  <2> QED BY <1>1, <1>2, <1>3, <2>1, <2>2 DEF WayInv
<1>10. OrderInv'
  BY <1>1, OrderOnInput DEF PathInv, deviceVars, clientVars
<1>11. NamesInv' /\ PacketsInv' /\ FlowsInv' /\ BindingInv'
  BY <1>1, NamesKept, PacketsKept, FlowsKept, BindingKept
  DEF PathInv, PacketsInv, deviceVars, nameVars, clientVars
<1> QED BY <1>9, <1>10, <1>11 DEF PathInv

\* What happens to the binding's flags and its slot does not touch its outbox.
LEMMA BindingFlagsKeep ==
  ASSUME PathInv, binding' \in Bindings, binding'.outbox = binding.outbox,
         binding'.kind = binding.kind,
         UNCHANGED <<deviceVars, nameVars, flows, session, records, writer, wire, lost, drainFailed>>,
         events' \in Seq(Failures), Input \/ inputs' = inputs
  PROVE  PathInv'
<1>1. BindingInv'
  BY DEF PathInv, BindingInv, OutboxCounts
<1>2. WayInv'
  BY WayKept DEF PathInv
<1>3. OrderInv'
  BY OrderOnInput, OrderKept DEF PathInv, deviceVars
<1>4. NamesInv' /\ PacketsInv' /\ FlowsInv'
  BY NamesKept, PacketsKept, FlowsKept DEF PathInv, PacketsInv, deviceVars, nameVars
<1> QED BY <1>1, <1>2, <1>3, <1>4 DEF PathInv

\* on_failure looks and takes the slot; what it returns is a failure.
LEMMA PolledKeeps ==
  ASSUME NEW b \in Bindings
  PROVE  Polled(b) \in Bindings /\ Polled(b).outbox = b.outbox /\ Polled(b).kind = b.kind
BY NoteKeeps DEF Polled, Failures

\* The end of the channel, events that are noted, and polls.
LEMMA EventsKeep ==
  ASSUME PathInv, Closes \/ (\E f \in {"PeerUnresponsive", "Probed"} : Notes(f)) \/ Polls
  PROVE  PathInv'
<1>1. binding \in Bindings /\ events \in Seq(Failures)
  BY DEF PathInv, BindingInv
<1>2. CASE Closes
  <2>1. binding' = [binding EXCEPT !.closed = TRUE] /\ Input
        /\ UNCHANGED <<deviceVars, nameVars, flows, session, records, wayVars>>
    BY <1>2 DEF Closes
  <2>2. binding' \in Bindings /\ binding'.outbox = binding.outbox /\ binding'.kind = binding.kind
    BY <1>1, <2>1 DEF Bindings
  <2> QED BY <1>1, <2>1, <2>2, BindingFlagsKeep DEF wayVars
<1>3. CASE \E f \in {"PeerUnresponsive", "Probed"} : Notes(f)
  <2>1. PICK f \in {"PeerUnresponsive", "Probed"} : Notes(f)
    BY <1>3
  <2>2. binding' = Note(binding, f) /\ f \in Failures /\ Input
        /\ UNCHANGED <<deviceVars, nameVars, flows, session, records, wayVars>>
    BY <2>1 DEF Notes, Failures
  <2>3. binding' \in Bindings /\ binding'.outbox = binding.outbox /\ binding'.kind = binding.kind
    BY <1>1, <2>2, NoteKeeps
  <2> QED BY <1>1, <2>2, <2>3, BindingFlagsKeep DEF wayVars
<1>4. CASE Polls
  <2> DEFINE b == Polled(binding)
  <2>1. /\ b.failure # NoFailure /\ events' = Append(events, b.failure)
        /\ binding' = [b EXCEPT !.failure = NoFailure]
        /\ UNCHANGED <<deviceVars, nameVars, flows, session, records, writer, wire, lost, drainFailed, inputs>>
    BY <1>4 DEF Polls
  <2>2. b \in Bindings /\ b.outbox = binding.outbox /\ b.kind = binding.kind
    BY <1>1, PolledKeeps
  <2> HIDE DEF b
  <2>3. b.failure \in Failures
    BY <2>1, <2>2 DEF Bindings
  <2>4. events' \in Seq(Failures)
    BY <1>1, <2>1, <2>3, AppendProperties
  <2>5. binding' \in Bindings /\ binding'.outbox = binding.outbox /\ binding'.kind = binding.kind
    BY <2>1, <2>2 DEF Bindings
  <2> QED BY <2>1, <2>4, <2>5, BindingFlagsKeep
<1> QED BY <1>2, <1>3, <1>4

\* The path starts in the invariant: one host resolved, nothing on the way.
LEMMA InitPathInv == Init => PathInv
<1> SUFFICES ASSUME Init PROVE PathInv
  OBVIOUS
<1> DEFINE name == <<Before, "plain">>
<1>1. name \in Spellings /\ NormalizeHost(name) = Before /\ Before \in Hosts /\ Before # NoHost
  BY PathAssumption, PoolAssumption DEF Spellings, NormalizeHost
<1>2. /\ GoodPool(pool) /\ Before \in DOMAIN pool.by_host
  BY <1>1, EmptyPoolIsGood, AssignIsGood DEF Init
<1>3. pool.by_host[Before] \in PoolRange
  BY <1>2, PoolFields
<1>4. NamesInv
  BY <1>2, <1>3 DEF Init, NamesInv
<1>5. /\ opened = TRUE /\ inbound = <<>> /\ held = None /\ records = <<>> /\ flows = <<>>
      /\ session = NewSession(K) /\ writer = <<>> /\ wire = <<>> /\ events = <<>> /\ inputs = 0
      /\ lost = {} /\ drainFailed = FALSE
  BY DEF Init
<1>6. /\ Len(<<>>) = 0 /\ DOMAIN <<>> = {} /\ 1 .. 0 = {} /\ \A S : <<>> \in Seq(S)
  BY EmptySeq
<1>7. PacketsInv
  BY <1>5, <1>6 DEF PacketsInv
<1>8. OrderInv
  BY <1>5, <1>6, PathAssumption DEF OrderInv
<1>9. FlowsInv
  <2>1. session.next_seq = 0 /\ session.streams = <<>>
    BY <1>5 DEF NewSession
  <2> QED BY <1>5, <1>6, <2>1, FS_EmptySet DEF FlowsInv
<1>10. /\ binding \in Bindings /\ binding.outbox.frames = <<>> /\ binding.outbox.bytes = 0
  <2>1. PICK k \in BindingKinds : binding = NewBinding(k)
    BY DEF Init
  <2>2. EmptyOutbox = [frames |-> <<>>, bytes |-> 0]
    BY DEF EmptyOutbox
  <2> QED BY <1>6, <2>1, <2>2 DEF NewBinding, Bindings
<1>11. BindingInv
  BY <1>5, <1>6, <1>10, BytesOfNothing, MuxAssumption DEF BindingInv, OutboxCounts
<1>12. WayInv
  <2>1. Way = <<>>
    <3>1. <<>> \o <<>> = <<>>
      BY <1>6, ConcatEmptySeq
    <3> QED BY <1>5, <1>10, <3>1 DEF Way
  <2> QED BY <1>5, <1>6, <2>1 DEF WayInv, NothingVanishes, Seqs
<1> QED BY <1>4, <1>7, <1>8, <1>9, <1>11, <1>12 DEF PathInv

-----------------------------------------------------------------------------
\* Every behaviour of the client's path stays in the invariant, for every pool, every set of
\* rules, every binding and every cap.
THEOREM PathInvariant == Spec => []PathInv
<1>1. Init => PathInv
  BY InitPathInv
<1>2. PathInv /\ [Next]_vars => PathInv'
  <2> SUFFICES ASSUME PathInv, [Next]_vars PROVE PathInv'
    OBVIOUS
  <2>1. CASE OpenDevice \/ CloseDevice
    BY <2>1, DeviceKeeps
  <2>2. ASSUME NEW name \in Spellings, Resolve(name)
        PROVE  PathInv'
    BY <2>2, ResolveKeeps
  <2>3. CASE \/ \E h \in Hosts, options \in HostOptions : SendsToHost(h, options)
             \/ \E p \in Literals : SendsToAddress(p)
    BY <2>3, SendsKeep
  <2>4. ASSUME NEW buffer \in Lens, ReadPacket(buffer)
        PROVE  PathInv'
    BY <2>4, ReadKeeps
  <2>5. CASE SendsNothing
    BY <2>5, SendsNothingKeeps
  <2>6. ASSUME NEW pad \in 0 .. PadBudget, SendsRecord(pad)
        PROVE  PathInv'
    BY <2>6, SendsRecordKeeps
  <2>7. CASE WriterTakes
    BY <2>7, WriterTakesKeeps
  <2>8. CASE WriterWrites
    BY <2>8, WriterWritesKeeps
  <2>9. CASE WriterFails
    BY <2>9, WriterFailsKeeps
  <2>10. CASE Closes \/ (\E f \in {"PeerUnresponsive", "Probed"} : Notes(f)) \/ Polls
    BY <2>10, EventsKeep
  <2>11. CASE UNCHANGED vars
    <3>1. UNCHANGED <<deviceVars, nameVars, flows, session, records, writer, wire, events, lost,
                      drainFailed, binding, inputs>>
      BY <2>11 DEF vars, clientVars, wayVars
    <3>2. binding' \in Bindings /\ binding'.outbox = binding.outbox /\ events' \in Seq(Failures)
      BY <3>1 DEF PathInv, BindingInv
    <3> QED BY <3>1, <3>2, BindingFlagsKeep
  <2> QED BY <2>1, <2>2, <2>3, <2>4, <2>5, <2>6, <2>7, <2>8, <2>9, <2>10,
                    <2>11 DEF Next
<1> QED BY <1>1, <1>2, PTL DEF Spec

\* Type correctness of the path; the outbox's byte counter is the size of its frames and stays
\* within the cap.
THEOREM PathTypeCorrect == Spec => []TypeOK
<1>1. PathInv => TypeOK
  <2> SUFFICES ASSUME PathInv PROVE TypeOK
    OBVIOUS
  <2>1. /\ DOMAIN pool.by_host \subseteq Hosts /\ pool.next \in FirstIp .. LastIp + 1
        /\ \A h \in DOMAIN pool.by_host : pool.by_host[h] \in FirstIp .. LastIp
    BY PoolFields, PoolAssumption DEF PathInv, NamesInv, PoolRange
  <2>2. \A a \in DOMAIN flows : a \in Addresses /\ flows[a] \in 1 .. Cardinality(DOMAIN flows)
    BY DEF PathInv, FlowsInv
  <2>3. \A i \in DOMAIN events : events[i] \in Failures
    <3>1. events \in Seq(Failures)
      BY DEF PathInv, BindingInv
    <3> QED BY <3>1, LenProperties, ElementOfSeq
  <2>4. binding.kind \in BindingKinds /\ binding.failure \in Failures \union {NoFailure} /\ OutboxCounts
    BY DEF PathInv, BindingInv, Bindings
  <2>5. lost \subseteq 0 .. Len(records) - 1 /\ drainFailed \in BOOLEAN
    <3>1. DOMAIN records = 1 .. Len(records) /\ Len(records) \in Nat
      BY LenProperties DEF PathInv, PacketsInv
    <3>2. \A x \in OkSeqs : x \in 0 .. Len(records) - 1
      BY <3>1 DEF OkSeqs
    <3>3. lost \subseteq OkSeqs
      BY DEF PathInv, WayInv, NothingVanishes, OkSeqs
    <3> QED BY <3>2, <3>3 DEF PathInv, WayInv
  <2> QED BY <2>1, <2>2, <2>3, <2>4, <2>5 DEF TypeOK, PathInv, PacketsInv, FlowsInv
<1> QED BY <1>1, PathInvariant, PTL

\* One host, one address, and (F-03) a host always gets one: the pool is never exhausted.
THEOREM PoolStaysSound == Spec => []PoolIsSound
<1>1. PathInv => PoolIsSound
  <2> SUFFICES ASSUME PathInv PROVE PoolIsSound
    OBVIOUS
  <2>1. GoodPool(pool)
    BY DEF PathInv, NamesInv
  <2>2. \A name \in Spellings : AssignResult(pool, name) # "Exhausted"
    BY <2>1, NeverExhausted
  <2>3. DOMAIN pool.free = 1 .. Len(pool.free)
    BY <2>1, PoolFields, LenProperties
  <2>4. OneAddressPerHost
    BY <2>1, <2>3 DEF OneAddressPerHost, GoodPool, AddressesApart, Members
  <2> QED BY <2>2, <2>4 DEF PoolIsSound
<1> QED BY <1>1, PathInvariant, PTL

\* Packets of two hosts share a stream only if one of the two was evicted from the pool or
\* one of the packets has IP options.
THEOREM StreamsTellHostsApart == Spec => []StreamsOfHosts
<1>1. PathInv => StreamsOfHosts
  <2> SUFFICES ASSUME PathInv, NEW i \in DOMAIN records, NEW j \in DOMAIN records,
                      records[i].stream = records[j].stream,
                      records[i].packet.host # NoHost, records[j].packet.host # NoHost,
                      records[i].packet.host # records[j].packet.host,
                      records[i].packet.host \notin evicted, records[j].packet.host \notin evicted,
                      records[i].packet.options = None, records[j].packet.options = None
               PROVE  FALSE
    BY DEF StreamsOfHosts
  <2>1. i \in 1 .. Len(records) /\ j \in 1 .. Len(records)
    BY LenProperties DEF PathInv, PacketsInv
  <2> DEFINE p == records[i].packet
             q == records[j].packet
  <2>2. /\ p.host \in DOMAIN pool.by_host /\ p.dst = pool.by_host[p.host]
        /\ q.host \in DOMAIN pool.by_host /\ q.dst = pool.by_host[q.host]
    BY <2>1 DEF PathInv, PacketsInv, ForItsHost
  <2>3. p.dst # q.dst
    BY <2>2 DEF PathInv, NamesInv, GoodPool, AddressesApart
  <2>4. FlowKey(p).dst = p.dst /\ FlowKey(q).dst = q.dst
    BY DEF FlowKey
  <2>5. /\ p.dst \in DOMAIN flows /\ records[i].stream = flows[p.dst] - 1
        /\ q.dst \in DOMAIN flows /\ records[j].stream = flows[q.dst] - 1
    <3>1. \A l \in 1 .. Len(records) :
            LET dst == FlowKey(records[l].packet).dst IN
            dst \in DOMAIN flows /\ records[l].stream = flows[dst] - 1
      BY DEF PathInv, FlowsInv
    <3> QED BY <2>1, <2>4, <3>1
  <2> HIDE DEF p, q
  <2>6. flows[p.dst] \in Nat /\ flows[q.dst] \in Nat
    BY <2>5, FS_CardinalityType DEF PathInv, FlowsInv
  <2>7. flows[p.dst] = flows[q.dst]
    <3>1. \A x, y \in Nat : x - 1 = y - 1 => x = y
      OBVIOUS
    <3>2. flows[p.dst] - 1 = flows[q.dst] - 1
      BY <2>5
    <3> QED BY <2>6, <3>1, <3>2
  <2> QED BY <2>3, <2>5, <2>7 DEF PathInv, FlowsInv
<1> QED BY <1>1, PathInvariant, PTL

\* What send answered Ok for is on its way, once and in order, or it went with a drain that
\* returned an error or with the mock; of the rest send told its caller.
THEOREM NothingEverVanishes == Spec => []NothingVanishes
<1>1. PathInv => NothingVanishes
  BY DEF PathInv, WayInv
<1> QED BY <1>1, PathInvariant, PTL

\* Packets enter the tunnel in the order they reached the device.
THEOREM DeviceOrderHolds == Spec => []DeviceOrder
<1>1. PathInv => DeviceOrder
  <2>1. PathInv => DOMAIN records = 1 .. Len(records)
    BY LenProperties DEF PathInv, PacketsInv
  <2> QED BY <2>1 DEF PathInv, OrderInv, DeviceOrder
<1> QED BY <1>1, PathInvariant, PTL

\* NoteInto never takes a milder failure for a worse one.
LEMMA NoteIsWorse ==
  ASSUME NEW slot \in Failures, NEW f \in Failures, slot # NoFailure
  PROVE  Severity(NoteInto(f, slot)) >= Severity(slot)
BY DEF NoteInto, Severity, Failures

\* Q26: until it is polled, the slot of a binding never takes a milder event for a worse one,
\* whether a send, a note or a closing fills it.
THEOREM SlotKeepsTheWorst == Spec => SlotNeverDowngrades
<1>1. PathInv /\ [Next]_vars
        => [binding.failure # NoFailure /\ binding'.failure # NoFailure
              => Severity(binding'.failure) >= Severity(binding.failure)]_vars
  <2> SUFFICES ASSUME PathInv, Next, binding.failure # NoFailure, binding'.failure # NoFailure
               PROVE  Severity(binding'.failure) >= Severity(binding.failure)
    OBVIOUS
  <2> DEFINE slot == binding.failure
             Worse(x) == Severity(x) >= Severity(slot)
  <2>1. binding \in Bindings /\ slot \in Failures
    BY DEF PathInv, BindingInv, Bindings
  <2>2. Worse(slot)
    BY <2>1 DEF Severity, Failures
  <2>3. \A f \in Failures : Worse(NoteInto(f, slot)) /\ Note(binding, f).failure = NoteInto(f, slot)
    BY <2>1, NoteIsWorse, NoteKeeps
  <2> SUFFICES Worse(binding'.failure)
    OBVIOUS
  <2> HIDE DEF Worse
  <2>4. CASE binding' = binding
    BY <2>2, <2>4
  <2>5. ASSUME NEW pad \in 0 .. PadBudget, SendsRecord(pad)
        PROVE  Worse(binding'.failure)
    <3> DEFINE f == Frame(session.next_seq, held.len, pad)
               b == IF binding.kind = "Mem" THEN [binding EXCEPT !.offered = binding.offered + 1] ELSE binding
               c == Note(binding, "Closed")
    <3>1. binding' = AfterSend(binding, held.len, f)
      BY <2>5 DEF SendsRecord
    <3>2. b \in Bindings /\ b.failure = slot
      BY <2>1 DEF Bindings
    <3>3. c \in Bindings /\ Worse(c.failure)
      BY <2>1, <2>3, NoteKeeps DEF Failures
    <3>4. binding' = SendClosed(binding) \/ binding' = b \/ binding' = [b EXCEPT !.outbox = Push(b.outbox, f)]
      BY <3>1 DEF AfterSend
    <3>5. SendClosed(binding) = binding \/ SendClosed(binding) = [c EXCEPT !.closed_reported = TRUE]
      BY DEF SendClosed
    <3> HIDE DEF b, c, f
    <3> QED BY <2>1, <2>2, <3>2, <3>3, <3>4, <3>5 DEF Bindings
  <2>6. CASE WriterTakes
    BY <2>1, <2>2, <2>6 DEF WriterTakes, Bindings
  <2>7. CASE Closes
    BY <2>1, <2>2, <2>7 DEF Closes, Bindings
  <2>8. ASSUME NEW f \in {"PeerUnresponsive", "Probed"}, Notes(f)
        PROVE  Worse(binding'.failure)
    BY <2>3, <2>8 DEF Notes, Failures
  <2>9. CASE Polls
    <3> DEFINE b == Polled(binding)
    <3>1. b \in Bindings /\ binding' = [b EXCEPT !.failure = NoFailure]
      BY <2>1, <2>9, PolledKeeps DEF Polls
    <3> HIDE DEF b
    <3> QED BY <3>1 DEF Bindings
  <2>10. \/ binding' = binding \/ WriterTakes \/ Closes \/ Polls
         \/ \E pad \in 0 .. PadBudget : SendsRecord(pad)
         \/ \E f \in {"PeerUnresponsive", "Probed"} : Notes(f)
    BY DEF Next, OpenDevice, CloseDevice, Resolve, SendsToHost, SendsToAddress, Arrives, ReadPacket,
           SendsNothing, WriterWrites, WriterFails, clientVars
  <2> QED BY <2>4, <2>5, <2>6, <2>7, <2>8, <2>9, <2>10
<1> QED BY <1>1, PathInvariant, PTL DEF Spec, SlotNeverDowngrades
=============================================================================
