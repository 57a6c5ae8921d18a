----------------------------- MODULE ClientPath -----------------------------
(***************************************************************************)
(* The way of a packet through the client: device-adapter, policy-engine,  *)
(* the session, a cover binding, and the writer that drains its outbox     *)
(* (crate phase0-path glues the first four together).                      *)
(*                                                                         *)
(* Applications resolve hosts through the engine's fake DNS and go on      *)
(* using the address they were given.  The writer is whoever drains the    *)
(* binding: aether-client does it right after send, drain_binding of       *)
(* cover-masque when its owner calls it; any moment is allowed here.  The  *)
(* morph controller that polls on_failure is not in src/.                  *)
(***************************************************************************)
EXTENDS FrameSession, PolicyEngine, TransportMux, Functions

CONSTANTS
  K,            \* K_session
  Literals,     \* packets applications send without the DNS: address, options, length
  HostOptions,  \* options packets to hosts have; None: a header without options
  Before,       \* a host some application resolved before the model starts
  BindingKinds, \* kinds of binding the client may have chosen
  MaxInputs     \* bound: what comes from outside: packets, DNS calls, failures, closings

VARIABLES
  opened,    \* LinuxTunStub::inner is some
  inbound,   \* LinuxTunStub::inbound
  held,      \* the packet read_packet returned, until send_packet takes it
  pool,      \* Engine::fakeip
  flows,     \* FlowId of each address, kept by the caller of send_packet
  session,   \* Session of the client
  binding,   \* the CoverBinding
  writer,    \* frames take_pending gave to the writer
  wire,      \* frames written
  events,    \* what on_failure returned, in order
  answers,   \* history: the address an application knows for each host
  records,   \* history: per seq, the packet it was sealed from, its stream, and send's answer
  evicted,   \* history: hosts that left the pool
  lost,      \* history: numbers of the records that send answered Ok for and that are gone
  drainFailed,  \* history: a drain ended in an error its caller was given
  inputs     \* what came from outside so far

deviceVars == <<opened, inbound, held>>
nameVars == <<pool, answers, evicted>>
clientVars == <<session, flows, binding, records>>
wayVars == <<writer, wire, events, lost, drainFailed>>
vars == <<deviceVars, nameVars, clientVars, wayVars, inputs>>

\* A packet of len for an address; options, if any, are what stands four bytes
\* before the end of the IP header.
Packet(host, dst, options, len, n) ==
  [host |-> host, dst |-> dst, options |-> options, len |-> len, n |-> n]
Lens == {1, 2}

\* The path is followed while the session is within its limit; what a longer one does is
\* in RecordChannel.
ASSUME PathAssumption ==
  /\ Before \in Hosts /\ BindingKinds \subseteq Kinds
  /\ \A p \in Literals : p.dst \in Addresses /\ p.options \in Addresses \union {None} /\ p.len \in Lens
  /\ HostOptions \subseteq Addresses \union {None}
  /\ MaxInputs \in Nat /\ MaxInputs <= Limit

BytesOf(frames) == FoldFunction(LAMBDA f, n : f.size + n, 0, frames)

\* Back-pressure: the byte counter kept beside the queue is the size of its frames, and
\* stays within the cap.
OutboxCounts ==
  /\ binding.outbox.bytes = BytesOf(binding.outbox.frames)
  /\ binding.outbox.bytes <= OutboxCap

TypeOK ==
  /\ opened \in BOOLEAN
  /\ DOMAIN pool.by_host \subseteq Hosts /\ pool.next \in FirstIp .. LastIp + 1
  /\ \A h \in DOMAIN pool.by_host : pool.by_host[h] \in FirstIp .. LastIp
  /\ \A a \in DOMAIN flows : a \in Addresses /\ flows[a] \in 1 .. Cardinality(DOMAIN flows)
  /\ session.next_seq = Len(records)
  /\ OutboxCounts
  /\ binding.kind \in BindingKinds /\ binding.failure \in Failures \union {NoFailure}
  /\ \A i \in DOMAIN events : events[i] \in Failures
  /\ lost \subseteq 0 .. Len(records) - 1 /\ drainFailed \in BOOLEAN

Init ==
  /\ opened = TRUE
  /\ inbound = <<>> /\ held = None
  /\ pool = Assign(EmptyPool, <<Before, "plain">>)
  /\ flows = <<>>
  /\ session = NewSession(K)
  /\ binding \in {NewBinding(k) : k \in BindingKinds}
  /\ writer = <<>> /\ wire = <<>> /\ events = <<>>
  /\ answers = [h \in Hosts |-> IF h = Before THEN pool.by_host[h] ELSE None]
  /\ records = <<>>
  /\ evicted = {}
  /\ lost = {} /\ drainFailed = FALSE
  /\ inputs = 0

-----------------------------------------------------------------------------
Input == inputs < MaxInputs /\ inputs' = inputs + 1

\* LinuxTunStub::open refuses while it is open; close keeps what is waiting.
OpenDevice ==
  /\ ~opened
  /\ opened' = TRUE
  /\ UNCHANGED <<inbound, held, nameVars, clientVars, wayVars, inputs>>

CloseDevice ==
  /\ opened
  /\ Input
  /\ opened' = FALSE
  /\ UNCHANGED <<inbound, held, nameVars, clientVars, wayVars>>

\* An application asks for a host, and keeps the answer.
Resolve(name) ==
  LET host == NormalizeHost(name) IN
  /\ Input
  /\ pool' = Assign(pool, name)
  /\ answers' = IF AssignResult(pool, name) = "Assigned"
                THEN [answers EXCEPT ![host] = pool'.by_host[host]] ELSE answers
  /\ evicted' = evicted \union (DOMAIN pool.by_host \ DOMAIN pool'.by_host)
  /\ UNCHANGED <<deviceVars, clientVars, wayVars>>

Arrives(packet) ==
  /\ Input
  /\ inbound' = Append(inbound, packet)
  /\ UNCHANGED <<opened, held, nameVars, clientVars, wayVars>>

\* An application sends to a host at the address it was given, or to an address.
SendsToHost(h, options) ==
  answers[h] # None /\ Arrives(Packet(h, answers[h], options, 1, inputs))

SendsToAddress(p) == Arrives(Packet(NoHost, p.dst, p.options, p.len, inputs))

\* Mutated form of AfterRead: the packet goes to the end of the queue.
ReadRequeues(queue, buffer) ==
  IF Head(queue).len > buffer THEN Append(Tail(queue), Head(queue)) ELSE Tail(queue)

\* read_packet with a buffer: a packet that does not fit is put back in front.
AfterRead(queue, buffer) ==
  IF Head(queue).len > buffer THEN <<Head(queue)>> \o Tail(queue) ELSE Tail(queue)

ReadPacket(buffer) ==
  /\ opened /\ inbound # <<>> /\ held = None
  /\ inbound' = AfterRead(inbound, buffer)
  /\ held' = IF Head(inbound).len > buffer THEN None ELSE Head(inbound)
  /\ UNCHANGED <<opened, nameVars, clientVars, wayVars, inputs>>

-----------------------------------------------------------------------------
\* packet_flow_key: the address is read at the end of the header, port and host
\* are not known.
FlowKey(packet) ==
  [dst |-> IF packet.options = None THEN packet.dst ELSE packet.options, host |-> NoHost]

\* Mutated form of FlowOf: the new flow is not counted, so that the next gets its number too.
FlowTwice(key) ==
  IF key.dst \in DOMAIN flows THEN flows[key.dst] ELSE Max({1, Cardinality(DOMAIN flows)})

\* The flow of the address; a new address gets the next number.
FlowOf(key) == IF key.dst \in DOMAIN flows THEN flows[key.dst] ELSE Cardinality(DOMAIN flows) + 1

StreamOf(s, flow) == (CHOOSE i \in DOMAIN s.streams : s.streams[i] = flow) - 1

\* send_packet on Block and Direct: nothing enters the tunnel.
SendsNothing ==
  /\ held # None /\ Route(FlowKey(held)) # "Route"
  /\ held' = None
  /\ UNCHANGED <<opened, inbound, nameVars, clientVars, wayVars, inputs>>

\* send_packet on Route: the seq is taken and the record sealed before the binding
\* is asked.
SendsRecord(pad) ==
  LET key == FlowKey(held)
      known == OpenStream(session, FlowOf(key))
      frame == Frame(session.next_seq, held.len, pad) IN
  /\ held # None /\ Route(key) = "Route" /\ pad \in Paddings(binding)
  /\ flows' = [a \in DOMAIN flows \union {key.dst} |-> IF a = key.dst THEN FlowOf(key) ELSE flows[a]]
  /\ session' = AfterSealRecord(known)
  /\ binding' = AfterSend(binding, held.len, frame)
  /\ records' = Append(records, [packet |-> held, stream |-> StreamOf(known, FlowOf(key)),
                                 answer |-> Answer(binding, held.len, frame)])
  /\ lost' = IF Answer(binding, held.len, frame) = "Ok" /\ LosesNext(binding)
             THEN lost \union {session.next_seq} ELSE lost
  /\ held' = None
  /\ UNCHANGED <<opened, inbound, nameVars, writer, wire, events, drainFailed, inputs>>

-----------------------------------------------------------------------------
Seqs(frames) == {frames[i].seq : i \in DOMAIN frames}

\* take_pending, then one write after the other; a write needs the channel.
WriterTakes ==
  /\ writer = <<>> /\ binding.outbox.frames # <<>>
  /\ writer' = binding.outbox.frames
  /\ binding' = [binding EXCEPT !.outbox = Drained(@)]
  /\ UNCHANGED <<deviceVars, nameVars, flows, session, records, wire, events, lost, drainFailed, inputs>>

WriterWrites ==
  /\ ~binding.closed /\ writer # <<>>
  /\ wire' = Append(wire, Head(writer))
  /\ writer' = Tail(writer)
  /\ UNCHANGED <<deviceVars, nameVars, clientVars, events, lost, drainFailed, inputs>>

\* The first write that fails, with the channel there or not, ends the drain in an
\* error; what was taken and not written goes with it.
WriterFails ==
  /\ writer # <<>>
  /\ Input
  /\ writer' = <<>>
  /\ lost' = lost \union Seqs(writer)
  /\ drainFailed' = TRUE
  /\ UNCHANGED <<deviceVars, nameVars, clientVars, wire, events>>

\* The connection closes: close_reason of the Quic binding, mark_closed of the others.
Closes ==
  /\ ~binding.closed
  /\ Input
  /\ binding' = [binding EXCEPT !.closed = TRUE]
  /\ UNCHANGED <<deviceVars, nameVars, flows, session, records, wayVars>>

\* note_unresponsive, note_probed and inject_failure.
Notes(f) ==
  /\ Input
  /\ binding' = Note(binding, f)
  /\ UNCHANGED <<deviceVars, nameVars, flows, session, records, wayVars>>

\* The morph controller polls; an event of the Quic binding comes again on every
\* poll, of which the model keeps the first two.
Polls ==
  LET b == Polled(binding) IN
  /\ b.failure # NoFailure
  /\ Len(SelectSeq(events, LAMBDA e : e = "Closed")) < 2
  /\ events' = Append(events, b.failure)
  /\ binding' = [b EXCEPT !.failure = NoFailure]
  /\ UNCHANGED <<deviceVars, nameVars, flows, session, records, writer, wire, lost, drainFailed, inputs>>

Next ==
  \/ OpenDevice
  \/ CloseDevice
  \/ \E name \in Spellings : Resolve(name)
  \/ \E h \in Hosts, options \in HostOptions : SendsToHost(h, options)
  \/ \E p \in Literals : SendsToAddress(p)
  \/ \E buffer \in Lens : ReadPacket(buffer)
  \/ SendsNothing
  \/ \E pad \in 0 .. PadBudget : SendsRecord(pad)
  \/ WriterTakes
  \/ WriterWrites
  \/ WriterFails
  \/ Closes
  \/ \E f \in {"PeerUnresponsive", "Probed"} : Notes(f)
  \/ Polls

\* The morph controller polls for ever.
Fairness == WF_vars(Polls)

Spec == Init /\ [][Next]_vars /\ Fairness

-----------------------------------------------------------------------------
\* "One host, one stable address" (FakeIpPool): two hosts never hold the same
\* address, whatever was evicted and handed out again, and a free address is nobody's.
OneAddressPerHost ==
  /\ \A g, h \in DOMAIN pool.by_host : g # h => pool.by_host[g] # pool.by_host[h]
  /\ \A h \in DOMAIN pool.by_host, i \in DOMAIN pool.free : pool.by_host[h] # pool.free[i]

\* The pool keeps its addresses apart, and (F-03) with Cap addresses in its range none
\* is lost on the way through evictions: a host always gets an address.
PoolIsSound ==
  /\ OneAddressPerHost
  /\ \A name \in Spellings : AssignResult(pool, name) # "Exhausted"

\* The address stands for the flow: packets of two hosts share a stream only if the
\* pool evicted one of the two, whose address an application still uses, or one of
\* them has IP options, which packet_flow_key reads in place of the address.
StreamsOfHosts ==
  \A i, j \in DOMAIN records :
    LET p == records[i].packet
        q == records[j].packet IN
    records[i].stream = records[j].stream /\ p.host # NoHost /\ q.host # NoHost /\ p.host # q.host
      => {p.host, q.host} \intersect evicted # {} \/ p.options # None \/ q.options # None

\* send_packet ("flows: the table of fake-ip and FlowId ... FlowId is the stable key of the
\* flow"): two packets have one stream exactly if they go to one address.
FlowsFollowAddresses ==
  \A i, j \in DOMAIN records :
    records[i].stream = records[j].stream <=> records[i].packet.dst = records[j].packet.dst

Way == wire \o writer \o binding.outbox.frames

\* A sealed record, whose seq is taken, is on its way once and in order exactly if
\* send answered Ok for it and it is not lost.  It is lost only by the mock, which
\* says so of none, or with a drain whose caller was given the error; send told
\* its caller of all the others.
NothingVanishes ==
  /\ Seqs(Way) \union lost = {i - 1 : i \in {j \in DOMAIN records : records[j].answer = "Ok"}}
  /\ Seqs(Way) \intersect lost = {}
  /\ \A i, j \in DOMAIN Way : i < j => Way[i].seq < Way[j].seq
  /\ lost # {} => drainFailed \/ binding.kind = "Mem"

\* Packets enter the tunnel in the order they reached the device, also when a read
\* failed because its buffer was too short.
DeviceOrder ==
  \A i, j \in DOMAIN records : i < j => records[i].packet.n < records[j].packet.n

\* Q26, the slot of on_failure: until it is polled a worse event is never replaced
\* by a milder one.
SlotNeverDowngrades ==
  [][binding.failure # NoFailure /\ binding'.failure # NoFailure
       => Severity(binding'.failure) >= Severity(binding.failure)]_vars

\* The end of a Quic channel reaches the morph controller without a send.
ClosedIsReported ==
  binding.kind = "Quic" /\ binding.closed ~> \E i \in DOMAIN events : events[i] = "Closed"
=============================================================================
