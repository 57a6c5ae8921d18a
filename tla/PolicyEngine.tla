---------------------------- MODULE PolicyEngine ----------------------------
(***************************************************************************)
(* Crate policy-engine: rules over flows, and the pool of fake addresses   *)
(* that its DNS answers hosts with.  Addresses are numbers of Width bits;  *)
(* FirstIp .. LastIp of them are the pool's.  A host reaches the engine in     *)
(* some spelling; normalize_host gives the host, or nothing.               *)
(***************************************************************************)
EXTENDS Integers, Sequences, FiniteSets

CONSTANTS
  Hosts,      \* hosts in canonical form
  Width,      \* bits of an address: 32 in the code
  FirstIp,      \* FAKE_IP_FIRST
  LastIp,       \* FAKE_IP_LAST
  Cap,        \* FAKE_IP_POOL_CAP
  Rules,      \* rules of the engine, in order
  Default,    \* its default action
  NoHost      \* a rule or a flow without host, a spelling that is no host

ASSUME PoolAssumption ==
  /\ FirstIp \in Nat /\ LastIp \in Nat /\ Cap \in Nat \ {0}
  /\ Cap <= LastIp - FirstIp + 1
  /\ NoHost \notin Hosts
  /\ IsFiniteSet(Hosts)

Actions == {"Route", "Direct", "Block"}
Addresses == 0 .. 2 ^ Width - 1
Unspecified == 0

\* The pool's range is a part of the address space.
ASSUME RangeAssumption == FirstIp .. LastIp \subseteq Addresses

\* Case and one final dot do not matter; anything else that is no host is refused.
Spellings == Hosts \X {"plain", "dotted"} \union {<<NoHost, "bad">>}
NormalizeHost(name) == name[1]

\* Cidr::contains within its family; an address of the path is always IPv4.
CidrContains(cidr, address) ==
  /\ cidr.family = "v4"
  /\ cidr.bits \div 2 ^ (Width - cidr.len) = address \div 2 ^ (Width - cidr.len)

\* Rule::matches: all matchers that are set; a flow without host meets no host rule.
Matches(rule, flow) ==
  /\ rule.host # NoHost => flow.host = rule.host
  /\ rule.cidrs = {} \/ \E c \in rule.cidrs : CidrContains(c, flow.dst)

\* Engine::route: the first rule that matches, or the default.
Route(flow) ==
  LET hits == {i \in DOMAIN Rules : Matches(Rules[i], flow)}
  IN  IF hits = {} THEN Default ELSE Rules[CHOOSE i \in hits : \A j \in hits : i <= j].action

-----------------------------------------------------------------------------
\* FakeIpPool: by_host, the order the hosts came in, the next fresh address, and
\* the addresses evictions gave back.
EmptyPool == [by_host |-> <<>>, order |-> <<>>, next |-> FirstIp, free |-> <<>>]

Known(pool, host) == host \in DOMAIN pool.by_host

Full(pool) == Cardinality(DOMAIN pool.by_host) >= Cap

\* The oldest host leaves and its address is free.
Evicted(pool) ==
  LET oldest == Head(pool.order) IN
  [by_host |-> [h \in DOMAIN pool.by_host \ {oldest} |-> pool.by_host[h]],
   order |-> Tail(pool.order),
   next |-> pool.next,
   free |-> Append(pool.free, pool.by_host[oldest])]

\* Mutated form of Taken: the free address stays in the free list.
TakenButKept(pool, host) ==
  LET address == IF pool.free # <<>> THEN Head(pool.free) ELSE pool.next IN
  [by_host |-> [h \in DOMAIN pool.by_host \union {host} |->
                  IF h = host THEN address ELSE pool.by_host[h]],
   order |-> Append(pool.order, host),
   next |-> IF pool.free # <<>> THEN pool.next ELSE pool.next + 1,
   free |-> pool.free]

\* A free address first, then a fresh one.
Taken(pool, host) ==
  LET address == IF pool.free # <<>> THEN Head(pool.free) ELSE pool.next IN
  [by_host |-> [h \in DOMAIN pool.by_host \union {host} |->
                  IF h = host THEN address ELSE pool.by_host[h]],
   order |-> Append(pool.order, host),
   next |-> IF pool.free # <<>> THEN pool.next ELSE pool.next + 1,
   free |-> IF pool.free # <<>> THEN Tail(pool.free) ELSE pool.free]

\* The pool holds at most Cap hosts, so one eviction makes room: the loop of assign
\* runs once at most.
Room(pool) == IF Full(pool) /\ pool.order # <<>> THEN Evicted(pool) ELSE pool

\* assign_fake_ip: its result, and the pool it leaves.  An error leaves what was
\* evicted evicted.
AssignResult(pool, name) ==
  LET host == NormalizeHost(name) IN
  IF host = NoHost THEN "BadHost"
  ELSE IF Known(pool, host) THEN "Assigned"
  ELSE IF Full(pool) /\ pool.order = <<>> THEN "Exhausted"
  ELSE IF Room(pool).free = <<>> /\ Room(pool).next > LastIp THEN "Exhausted"
  ELSE "Assigned"

Assign(pool, name) ==
  LET host == NormalizeHost(name) IN
  IF host = NoHost \/ Known(pool, host) THEN pool
  ELSE IF AssignResult(pool, name) = "Exhausted" THEN Room(pool)
  ELSE Taken(Room(pool), host)
=============================================================================
