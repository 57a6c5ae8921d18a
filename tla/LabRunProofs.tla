---------------------------- MODULE LabRunProofs ----------------------------
(***************************************************************************)
(* Proofs about LabRun, for any number of runs, records and faults.  The   *)
(* nodes keep one key and one mirror for all connections, so what a run    *)
(* may rely on is: as long as it is the owner of a node's state, that      *)
(* state has its key.  The invariant follows each run through its          *)
(* exchanges, and says of a run that was neither hit by a fault nor        *)
(* displaced that everything it waits for is as its manifest promised.     *)
(***************************************************************************)
EXTENDS LabRun, DedupWindowProofs, TLAPS

Fields == {"chain_base", "next_seq", "gen_bases", "streams", "dedup", "overlap", "ack", "nak"}

\* The base a run's records have at a node.
BaseAt(n, r) == IF n = "N1" THEN <<r>> ELSE <<Rotated(r, r, node["N2"].incarnation)>>

\* A session of a client: it never re-keys.
Plain(s) == DOMAIN s = Fields /\ s.gen_bases = <<>> /\ s.next_seq \in 0 .. RecordsN + AfterN

\* A mirror of a node, with room for every record of the lab.
Serving(s) ==
  /\ DOMAIN s = Fields /\ s.gen_bases = <<>> /\ s.streams = <<Flow>>
  /\ s.dedup \in Window /\ s.dedup.lo = SlideLo(s.dedup.floor, s.dedup.hi)
  /\ s.dedup.floor <= s.dedup.hi /\ s.dedup.hi <= Limit

Shapes ==
  /\ DOMAIN run = Runs /\ DOMAIN stream = Runs /\ DOMAIN node = Nodes /\ DOMAIN owner = Nodes
  /\ \A r \in Runs : /\ DOMAIN run[r] = {"pc", "session", "manifest"}
                     /\ DOMAIN stream[r] = {"tag", "ask", "answer"}
  /\ \A n \in Nodes : DOMAIN node[n] = {"k_session", "session", "incarnation"}

\* A run has the key of its handshake, then the one it shares with N2.
SessionOf(r) ==
  /\ run[r].pc \in {"Sending", "Mint", "Resume"} =>
       /\ Plain(run[r].session) /\ run[r].session.chain_base = <<r>>
       /\ run[r].session.next_seq <= RecordsN
  /\ run[r].pc = "Rotated" =>
       /\ Plain(run[r].session)
       /\ <<r, "N2">> \in linked => run[r].session.chain_base = BaseAt("N2", r)

TicketFits(t, last_seq) == t # None => t.lo \in Nat /\ t.lo <= last_seq

\* What a run asks for, and what it may have been answered.
ExchangeOf(r) ==
  /\ stream[r].tag = IF run[r].pc \in Asking THEN run[r].pc ELSE None
  /\ run[r].pc = "Handshake" => stream[r].ask.eph = r
  /\ run[r].pc = "Mint" =>
       /\ stream[r].ask.last_seq = LastSeq(run[r].session)
       /\ stream[r].answer # None => TicketFits(stream[r].answer.ticket, LastSeq(run[r].session))
  /\ run[r].pc = "Resume" =>
       /\ stream[r].ask.key = KResume(r) /\ stream[r].ask.last_seq = LastSeq(run[r].session)
       /\ TicketFits(stream[r].ask.ticket, LastSeq(run[r].session))
       /\ stream[r].answer # None /\ stream[r].answer.kind = "Ack" /\ <<r, "N2">> \in linked
            => stream[r].answer.eph_node = node["N2"].incarnation

\* N1 still has the key of the run.
OwnsN1(r) == owner["N1"] = r /\ node["N1"].k_session = r

NeedsN1(r) ==
  run[r].pc \in {"Handshake", "Sending"} \/ (run[r].pc = "Mint" /\ stream[r].answer = None)

Running(r) == run[r].pc \notin {"Idle", "Done", "Failed"}

\* A run that nothing happened to finds what it needs.
Blameless(r) ==
  r \notin blame =>
    /\ run[r].pc # "Failed"
    /\ Running(r) => run[r].manifest = [n \in Nodes |-> NodeManifest(n)]
    /\ run[r].pc \in {"Handshake", "Sending", "Mint"} => <<r, "N1">> \in linked
    /\ run[r].pc \in {"Resume", "Rotated"} => <<r, "N2">> \in linked
    /\ run[r].pc = "Handshake" => stream[r].answer = None \/ OwnsN1(r)
    /\ run[r].pc = "Sending" => OwnsN1(r)
    /\ run[r].pc = "Mint" =>
         IF stream[r].answer = None THEN OwnsN1(r)
         ELSE stream[r].answer.ticket # None /\ stream[r].answer.ticket.key = r
    /\ run[r].pc = "Resume" =>
         /\ stream[r].ask.ticket # None /\ stream[r].ask.ticket.key = r
         /\ stream[r].answer # None =>
              stream[r].answer.kind = "Ack" /\ stream[r].answer.key = KResume(r)

RunInv(r) == SessionOf(r) /\ ExchangeOf(r) /\ Blameless(r)

\* The state of a node is that of its owner.
ServerInv(n) ==
  /\ owner[n] \in Runs \union {None}
  /\ owner[n] = None => node[n].session = None
  /\ owner[n] # None => /\ Serving(node[n].session)
                        /\ node[n].session.chain_base = BaseAt(n, owner[n])

Sent(d) ==
  /\ d[1] \in Runs /\ d[2] \in Nodes /\ d[3].kind = "Data" /\ d[3].stream = 0
  /\ d[3].seq \in 0 .. RecordsN + AfterN /\ d[3].base = BaseAt(d[2], d[1])

LabInv ==
  /\ Shapes
  /\ \A r \in Runs : RunInv(r)
  /\ \A n \in Nodes : ServerInv(n)
  /\ \A d \in net : Sent(d)
  /\ OnlyKeyHolderResumes

-----------------------------------------------------------------------------
\* The assumptions as the arithmetic needs them: no seq of the lab reaches the limit.
LEMMA Bounds ==
  /\ RecordsN \in Nat /\ AfterN \in Nat /\ Limit \in Nat /\ U64Max \in Nat /\ Limit < U64Max
  /\ \A q \in 0 .. RecordsN + AfterN : q \in Nat /\ q <= Limit /\ q < U64Max
  BY LabAssumption, LimitAssumption, WindowAssumption

\* The first state.
LEMMA InitLabInv == Init => LabInv
<1> SUFFICES ASSUME Init PROVE LabInv
  OBVIOUS
<1>1. /\ run = [r \in Runs |-> [pc |-> "Idle", session |-> None, manifest |-> None]]
      /\ stream = [r \in Runs |-> [tag |-> None, ask |-> None, answer |-> None]]
      /\ node = [n \in Nodes |-> [k_session |-> None, session |-> None, incarnation |-> 0]]
      /\ owner = [n \in Nodes |-> None] /\ net = {} /\ resumed = {} /\ blame = {}
  BY DEF Init, Idle, NoStream, FreshNode
<1>2. Shapes
  BY <1>1 DEF Shapes
<1>3. \A r \in Runs : RunInv(r)
  BY <1>1 DEF RunInv, SessionOf, ExchangeOf, Blameless, Running, Asking
<1>4. \A n \in Nodes : ServerInv(n)
  BY <1>1 DEF ServerInv
<1>5. OnlyKeyHolderResumes
  BY <1>1 DEF OnlyKeyHolderResumes
<1> QED BY <1>1, <1>2, <1>3, <1>4, <1>5 DEF LabInv

\* Whatever leaves a run, its exchange, its connections and the state it relies on
\* alone keeps what is known of it.
LEMMA RunUntouched ==
  ASSUME NEW s \in Runs, RunInv(s), run'[s] = run[s], stream'[s] = stream[s],
         \A n \in Nodes : <<s, n>> \in linked' <=> <<s, n>> \in linked,
         \A n \in Nodes : node'[n].incarnation = node[n].incarnation,
         s \notin blame' => s \notin blame /\ (OwnsN1(s) /\ NeedsN1(s) => OwnsN1(s)')
  PROVE  RunInv(s)'
<1>1. SessionOf(s)'
  BY DEF RunInv, SessionOf, BaseAt, Plain, Nodes
<1>2. ExchangeOf(s)'
  BY DEF RunInv, ExchangeOf, TicketFits, Nodes
<1>3. \A n \in Nodes : NodeManifest(n)' = NodeManifest(n)
  BY DEF NodeManifest
<1>4. Blameless(s)'
  BY <1>3 DEF RunInv, Blameless, Running, Nodes, NeedsN1
<1> QED BY <1>1, <1>2, <1>4 DEF RunInv

\* A step of one client keeps all but what it changes of its own run.
LEMMA ClientKeeps ==
  ASSUME LabInv, NEW r \in Runs, UNCHANGED <<node, owner, resumed, blame>>,
         Shapes', RunInv(r)', \A d \in net' : Sent(d) \/ d \in net,
         \A s \in Runs \ {r} :
           /\ run'[s] = run[s] /\ stream'[s] = stream[s]
           /\ \A n \in Nodes : <<s, n>> \in linked' <=> <<s, n>> \in linked
  PROVE  LabInv'
<1>1. \A s \in Runs : RunInv(s)'
  <2>1. ASSUME NEW s \in Runs \ {r} PROVE RunInv(s)'
    BY <2>1, RunUntouched DEF LabInv, OwnsN1
  <2> QED BY <2>1
<1>2. \A n \in Nodes : ServerInv(n)'
  BY DEF LabInv, ServerInv, Serving, BaseAt
<1>3. \A d \in net' : Sent(d)'
  BY DEF LabInv, Sent, BaseAt
<1>4. OnlyKeyHolderResumes'
  BY DEF LabInv, OnlyKeyHolderResumes
<1> QED BY <1>1, <1>2, <1>3, <1>4 DEF LabInv

\* The end of a run: a failed one was blamed before.
LEMMA EndKeeps ==
  ASSUME LabInv, NEW r \in Runs, NEW pc \in {"Done", "Failed"}, End(r, pc),
         pc = "Failed" => r \in blame
  PROVE  LabInv'
<1>1. /\ run' = [run EXCEPT ![r].pc = pc] /\ stream' = [stream EXCEPT ![r] = NoStream]
      /\ linked' = {l \in linked : l[1] # r} /\ net' = net
      /\ UNCHANGED <<node, net, owner, resumed, blame>> /\ Shapes
  BY DEF End, LabInv
<1>2. Shapes'
  BY <1>1 DEF Shapes, NoStream
<1>3. run'[r].pc = pc /\ stream'[r].tag = None
  BY <1>1 DEF Shapes, NoStream
<1>4. RunInv(r)'
  BY <1>1, <1>3 DEF RunInv, SessionOf, ExchangeOf, Blameless, Running, Asking
<1>5. \A s \in Runs \ {r} :
        /\ run'[s] = run[s] /\ stream'[s] = stream[s]
        /\ \A n \in Nodes : <<s, n>> \in linked' <=> <<s, n>> \in linked
  BY <1>1 DEF Shapes
<1> QED BY <1>1, <1>2, <1>4, <1>5, ClientKeeps

\* A run reads both manifests.
LEMMA BeginKeeps ==
  ASSUME LabInv, NEW r \in Runs, Begin(r)
  PROVE  LabInv'
<1>1. /\ run[r].pc = "Idle"
      /\ run' = [run EXCEPT ![r].pc = "Dial", ![r].manifest = [n \in Nodes |-> NodeManifest(n)]]
      /\ UNCHANGED <<stream, linked, node, net, owner, resumed, blame>>
      /\ Shapes /\ RunInv(r)
  BY DEF Begin, LabInv
<1>2. Shapes'
  BY <1>1 DEF Shapes
<1>3. run'[r].pc = "Dial" /\ run'[r].manifest = [n \in Nodes |-> NodeManifest(n)]
  BY <1>1 DEF Shapes
<1>4. \A n \in Nodes : NodeManifest(n)' = NodeManifest(n)
  BY <1>1 DEF NodeManifest
<1>5. RunInv(r)'
  BY <1>1, <1>3, <1>4 DEF RunInv, SessionOf, ExchangeOf, Blameless, Running, Asking
<1>6. \A s \in Runs \ {r} : run'[s] = run[s]
  BY <1>1 DEF Shapes
<1> QED BY <1>1, <1>2, <1>5, <1>6, ClientKeeps

\* It dials N1 and starts the handshake.
LEMMA DialKeeps ==
  ASSUME LabInv, NEW r \in Runs, DialN1(r)
  PROVE  LabInv'
<1> DEFINE ask == Initiate(r)
<1>1. /\ run[r].pc = "Dial"
      /\ linked' = linked \union {<<r, "N1">>} /\ run' = [run EXCEPT ![r].pc = "Handshake"]
      /\ stream' = [stream EXCEPT ![r] = [tag |-> "Handshake", ask |-> ask, answer |-> None]]
      /\ UNCHANGED <<node, net, owner, resumed, blame>>
      /\ Shapes /\ RunInv(r)
  BY DEF DialN1, Ask, LabInv
<1>2. ask.eph = r
  BY DEF Initiate
<1> HIDE DEF ask
<1>3. Shapes'
  BY <1>1 DEF Shapes
<1>4. /\ run'[r].pc = "Handshake" /\ run'[r].manifest = run[r].manifest
      /\ stream'[r] = [tag |-> "Handshake", ask |-> ask, answer |-> None]
  BY <1>1 DEF Shapes
<1>5. \A n \in Nodes : NodeManifest(n)' = NodeManifest(n)
  BY <1>1 DEF NodeManifest
<1>6. SessionOf(r)' /\ ExchangeOf(r)'
  BY <1>2, <1>4 DEF SessionOf, ExchangeOf, Asking
<1>7. Blameless(r)'
  BY <1>1, <1>4, <1>5 DEF RunInv, Blameless, Running
<1>8. RunInv(r)'
  BY <1>6, <1>7 DEF RunInv
<1>9. \A s \in Runs \ {r} :
        /\ run'[s] = run[s] /\ stream'[s] = stream[s]
        /\ \A n \in Nodes : <<s, n>> \in linked' <=> <<s, n>> \in linked
  BY <1>1 DEF Shapes
<1> QED BY <1>1, <1>3, <1>8, <1>9, ClientKeeps

\* A session right after its handshake.
LEMMA FreshSession ==
  ASSUME NEW k
  PROVE  LET s == OpenStream(NewSession(k), Flow) IN
         /\ DOMAIN s = Fields /\ s.gen_bases = <<>> /\ s.next_seq = 0 /\ s.chain_base = <<k>>
         /\ s.streams = <<Flow>> /\ s.dedup = NewWindow(0, 0)
<1> DEFINE fresh == NewSession(k)
<1>1. /\ DOMAIN fresh = Fields /\ fresh.gen_bases = <<>> /\ fresh.next_seq = 0
      /\ fresh.chain_base = <<k>> /\ fresh.streams = <<>> /\ fresh.dedup = NewWindow(0, 0)
  BY DEF NewSession, Fields
<1> HIDE DEF fresh
<1>2. ~ \E i \in DOMAIN fresh.streams : fresh.streams[i] = Flow
  BY <1>1
<1>3. OpenStream(fresh, Flow) = [fresh EXCEPT !.streams = Append(@, Flow)]
  BY <1>2 DEF OpenStream
<1>4. Append(fresh.streams, Flow) = <<Flow>>
  BY <1>1
<1>5. LET s == OpenStream(fresh, Flow) IN
      /\ DOMAIN s = Fields /\ s.gen_bases = <<>> /\ s.next_seq = 0 /\ s.chain_base = <<k>>
      /\ s.streams = <<Flow>> /\ s.dedup = NewWindow(0, 0)
  BY <1>1, <1>3, <1>4 DEF Fields
<1> QED BY <1>5 DEF fresh

\* It takes msg2 and opens its flow.
LEMMA FinishHandshakeKeeps ==
  ASSUME LabInv, NEW r \in Runs, FinishHandshake(r)
  PROVE  LabInv'
<1> DEFINE session == OpenStream(NewSession(r), Flow)
<1>1. /\ run[r].pc = "Handshake" /\ stream[r].answer # None
      /\ run' = [run EXCEPT ![r].pc = "Sending", ![r].session = session]
      /\ stream' = [stream EXCEPT ![r] = NoStream]
      /\ UNCHANGED <<linked, node, net, owner, resumed, blame>>
      /\ Shapes /\ RunInv(r)
  BY DEF FinishHandshake, LabInv, DeriveSession, Initiate
<1>2. /\ DOMAIN session = Fields /\ session.gen_bases = <<>> /\ session.next_seq = 0
      /\ session.chain_base = <<r>>
  BY FreshSession
<1> HIDE DEF session
<1>3. Shapes'
  BY <1>1 DEF Shapes, NoStream
<1>4. /\ run'[r].pc = "Sending" /\ run'[r].manifest = run[r].manifest
      /\ run'[r].session = session /\ stream'[r].tag = None
  BY <1>1 DEF Shapes, NoStream
<1>5. \A n \in Nodes : NodeManifest(n)' = NodeManifest(n)
  BY <1>1 DEF NodeManifest
<1>6. SessionOf(r)' /\ ExchangeOf(r)'
  BY <1>2, <1>4, Bounds DEF SessionOf, ExchangeOf, Asking, Plain
<1>7. Blameless(r)'
  BY <1>1, <1>4, <1>5 DEF RunInv, Blameless, Running, OwnsN1
<1>8. RunInv(r)'
  BY <1>6, <1>7 DEF RunInv
<1>9. \A s \in Runs \ {r} : run'[s] = run[s] /\ stream'[s] = stream[s]
  BY <1>1 DEF Shapes
<1> QED BY <1>1, <1>3, <1>8, <1>9, ClientKeeps

\* Without generations every seq has the session's base.
LEMMA BaseWithoutGenerations ==
  ASSUME NEW s, s.gen_bases = <<>>, NEW seq
  PROVE  BaseFor(s, seq) = s.chain_base
<1>1. DOMAIN s.gen_bases = {}
  OBVIOUS
<1> QED BY <1>1 DEF BaseFor

\* A session takes a seq.
LEMMA SeqTaken ==
  ASSUME NEW s, Plain(s), s.next_seq < RecordsN + AfterN
  PROVE  /\ Plain(AfterSealRecord(s))
         /\ AfterSealRecord(s).next_seq = s.next_seq + 1
         /\ AfterSealRecord(s).chain_base = s.chain_base
<1>1. s.next_seq \in Nat /\ SatInc(s.next_seq) = s.next_seq + 1 /\ RecordsN + AfterN \in Nat
  BY Bounds DEF Plain, SatInc
<1> QED BY <1>1 DEF Plain, AfterSealRecord, TakeSeq, Fields

\* What both send actions do.
LEMMA SendKeeps ==
  ASSUME LabInv, NEW r \in Runs, NEW n \in Nodes, Send(r, n),
         \/ n = "N1" /\ run[r].pc = "Sending" /\ run[r].session.next_seq < RecordsN
         \/ n = "N2" /\ run[r].pc = "Rotated" /\ run[r].session.next_seq < RecordsN + AfterN
  PROVE  LabInv'
<1> DEFINE d == <<r, n, Sealed(run[r].session, "Data", 0, None)>>
           session == AfterSealRecord(run[r].session)
<1>1. /\ <<r, n>> \in linked /\ net' = net \union {d}
      /\ run' = [run EXCEPT ![r].session = session]
      /\ UNCHANGED <<stream, linked, node, owner, resumed, blame>>
      /\ Shapes /\ RunInv(r)
  BY DEF Send, LabInv
<1>2. /\ Plain(run[r].session) /\ run[r].session.next_seq < RecordsN + AfterN
      /\ run[r].session.chain_base = BaseAt(n, r)
  <2>1. CASE n = "N1" /\ run[r].pc = "Sending" /\ run[r].session.next_seq < RecordsN
    <3>1. Plain(run[r].session) /\ run[r].session.chain_base = <<r>>
      BY <1>1, <2>1 DEF RunInv, SessionOf
    <3>2. run[r].session.next_seq < RecordsN + AfterN
      BY <2>1, <3>1, Bounds DEF Plain
    <3> QED BY <2>1, <3>1, <3>2 DEF BaseAt
  <2>2. CASE n = "N2" /\ run[r].pc = "Rotated" /\ run[r].session.next_seq < RecordsN + AfterN
    BY <1>1, <2>2 DEF RunInv, SessionOf
  <2> QED BY <2>1, <2>2
<1>3. Sent(d)
  <2>1. BaseFor(run[r].session, run[r].session.next_seq) = BaseAt(n, r)
    <3>1. run[r].session.gen_bases = <<>>
      BY <1>2 DEF Plain
    <3> QED BY <1>2, <3>1, BaseWithoutGenerations
  <2>2. /\ d[1] = r /\ d[2] = n /\ d[3].kind = "Data" /\ d[3].stream = 0
        /\ d[3].seq = run[r].session.next_seq /\ d[3].base = BaseAt(n, r)
    BY <2>1 DEF Sealed
  <2> HIDE DEF d
  <2> QED BY <1>2, <2>2 DEF Sent, Plain
<1>4. /\ Plain(session) /\ session.next_seq = run[r].session.next_seq + 1
      /\ session.chain_base = run[r].session.chain_base
  BY <1>2, SeqTaken
<1> HIDE DEF d, session
<1>5. Shapes'
  BY <1>1 DEF Shapes
<1>6. /\ run'[r].pc = run[r].pc /\ run'[r].manifest = run[r].manifest
      /\ run'[r].session = session
  BY <1>1 DEF Shapes
<1>7. \A m \in Nodes : NodeManifest(m)' = NodeManifest(m)
  BY <1>1 DEF NodeManifest
<1>8. SessionOf(r)'
  <2>1. CASE run[r].pc = "Sending"
    <3>1. session.next_seq <= RecordsN
      BY <1>2, <1>4, <2>1, Bounds DEF Plain
    <3> QED BY <1>1, <1>4, <1>6, <2>1, <3>1 DEF RunInv, SessionOf, Plain
  <2>2. CASE run[r].pc = "Rotated"
    BY <1>1, <1>4, <1>6, <2>2 DEF RunInv, SessionOf, Plain, BaseAt
  <2> QED BY <2>1, <2>2
<1>9. ExchangeOf(r)' /\ Blameless(r)'
  BY <1>1, <1>6, <1>7 DEF RunInv, ExchangeOf, Blameless, Running, OwnsN1, Asking
<1>10. RunInv(r)'
  BY <1>8, <1>9 DEF RunInv
<1>11. \A s \in Runs \ {r} : run'[s] = run[s]
  BY <1>1 DEF Shapes
<1> QED BY <1>1, <1>3, <1>5, <1>10, <1>11, ClientKeeps

\* It asks for its ticket.
LEMMA AskTicketKeeps ==
  ASSUME LabInv, NEW r \in Runs, AskTicket(r)
  PROVE  LabInv'
<1> DEFINE ask == MintRequest(r)
<1>1. /\ run[r].pc = "Sending" /\ run' = [run EXCEPT ![r].pc = "Mint"]
      /\ stream' = [stream EXCEPT ![r] = [tag |-> "Mint", ask |-> ask, answer |-> None]]
      /\ UNCHANGED <<linked, node, net, owner, resumed, blame>>
      /\ Shapes /\ RunInv(r)
  BY DEF AskTicket, Ask, LabInv
<1>2. ask.last_seq = LastSeq(run[r].session)
  BY DEF MintRequest
<1> HIDE DEF ask
<1>3. Shapes'
  BY <1>1 DEF Shapes
<1>4. /\ run'[r].pc = "Mint" /\ run'[r].manifest = run[r].manifest
      /\ run'[r].session = run[r].session
      /\ stream'[r] = [tag |-> "Mint", ask |-> ask, answer |-> None]
  BY <1>1 DEF Shapes
<1>5. \A n \in Nodes : NodeManifest(n)' = NodeManifest(n)
  BY <1>1 DEF NodeManifest
<1>6. SessionOf(r)' /\ ExchangeOf(r)'
  BY <1>1, <1>2, <1>4 DEF RunInv, SessionOf, ExchangeOf, Asking, Plain
<1>7. Blameless(r)'
  BY <1>1, <1>4, <1>5 DEF RunInv, Blameless, Running, OwnsN1
<1>8. RunInv(r)'
  BY <1>6, <1>7 DEF RunInv
<1>9. \A s \in Runs \ {r} : run'[s] = run[s] /\ stream'[s] = stream[s]
  BY <1>1 DEF Shapes
<1> QED BY <1>1, <1>3, <1>8, <1>9, ClientKeeps

\* It takes what N1 answered to N2.
LEMMA TakeTicketKeeps ==
  ASSUME LabInv, NEW r \in Runs, TakeTicket(r)
  PROVE  LabInv'
<1> DEFINE ask == BuildResume(r, stream[r].answer.ticket)
<1>1. /\ run[r].pc = "Mint" /\ stream[r].answer # None
      /\ linked' = linked \union {<<r, "N2">>} /\ run' = [run EXCEPT ![r].pc = "Resume"]
      /\ stream' = [stream EXCEPT ![r] = [tag |-> "Resume", ask |-> ask, answer |-> None]]
      /\ UNCHANGED <<node, net, owner, resumed, blame>>
      /\ Shapes /\ RunInv(r)
  BY DEF TakeTicket, Ask, LabInv
<1>2. /\ ask.ticket = stream[r].answer.ticket /\ ask.last_seq = LastSeq(run[r].session)
      /\ ask.key = KResume(r)
  BY <1>1 DEF BuildResume, RunInv, SessionOf
<1> HIDE DEF ask
<1>3. Shapes'
  BY <1>1 DEF Shapes
<1>4. /\ run'[r].pc = "Resume" /\ run'[r].manifest = run[r].manifest
      /\ run'[r].session = run[r].session
      /\ stream'[r] = [tag |-> "Resume", ask |-> ask, answer |-> None]
  BY <1>1 DEF Shapes
<1>5. \A n \in Nodes : NodeManifest(n)' = NodeManifest(n)
  BY <1>1 DEF NodeManifest
<1>6. SessionOf(r)'
  BY <1>1, <1>4 DEF RunInv, SessionOf, Plain
<1>7. ExchangeOf(r)'
  BY <1>1, <1>2, <1>4 DEF RunInv, ExchangeOf, Asking, TicketFits
<1>8. Blameless(r)'
  BY <1>1, <1>2, <1>4, <1>5 DEF RunInv, Blameless, Running
<1>9. RunInv(r)'
  BY <1>6, <1>7, <1>8 DEF RunInv
<1>10. \A s \in Runs \ {r} :
        /\ run'[s] = run[s] /\ stream'[s] = stream[s]
        /\ \A n \in Nodes : <<s, n>> \in linked' <=> <<s, n>> \in linked
  BY <1>1 DEF Shapes
<1> QED BY <1>1, <1>3, <1>9, <1>10, ClientKeeps

\* An ACK and the ratchet leave the counter alone and set the base.
LEMMA RatchetAfterAck ==
  ASSUME NEW s, Plain(s), NEW point, NEW window_lo, NEW k
  PROVE  LET t == RatchetFrom(OnResumeAck(s, point, window_lo), k) IN
         Plain(t) /\ t.next_seq = s.next_seq /\ t.chain_base = <<k>>
<1> DEFINE acked == OnResumeAck(s, point, window_lo)
<1>1. DOMAIN acked = Fields /\ acked.next_seq = s.next_seq /\ acked.gen_bases = <<>>
  BY DEF OnResumeAck, Plain, Fields
<1> HIDE DEF acked
<1>2. LET t == RatchetFrom(acked, k) IN
      Plain(t) /\ t.next_seq = s.next_seq /\ t.chain_base = <<k>>
  BY <1>1 DEF RatchetFrom, Plain, Fields
<1> QED BY <1>2 DEF acked

\* It opens the ACK and continues under the new key.
LEMMA TakeAckKeeps ==
  ASSUME LabInv, NEW r \in Runs, TakeAck(r)
  PROVE  LabInv'
<1> DEFINE a == stream[r].answer
           session == RatchetFrom(OnResumeAck(run[r].session, a.point, a.window_lo),
                                  Rotated(r, r, a.eph_node))
<1>1. /\ run[r].pc = "Resume" /\ a # None /\ a.kind = "Ack"
      /\ run' = [run EXCEPT ![r].pc = "Rotated", ![r].session = session]
      /\ stream' = [stream EXCEPT ![r] = NoStream]
      /\ UNCHANGED <<linked, node, net, owner, resumed, blame>>
      /\ Shapes /\ RunInv(r)
  BY DEF TakeAck, Acked, LabInv, Shapes
<1>2. Plain(session) /\ session.chain_base = <<Rotated(r, r, a.eph_node)>>
  <2>1. Plain(run[r].session)
    BY <1>1 DEF RunInv, SessionOf
  <2> QED BY <2>1, RatchetAfterAck
<1> HIDE DEF session
<1>3. Shapes'
  BY <1>1 DEF Shapes, NoStream
<1>4. /\ run'[r].pc = "Rotated" /\ run'[r].manifest = run[r].manifest
      /\ run'[r].session = session /\ stream'[r].tag = None
  BY <1>1 DEF Shapes, NoStream
<1>5. \A n \in Nodes : NodeManifest(n)' = NodeManifest(n)
  BY <1>1 DEF NodeManifest
<1>6. <<r, "N2">> \in linked => session.chain_base = BaseAt("N2", r)
  <2>1. <<r, "N2">> \in linked => a.eph_node = node["N2"].incarnation
    BY <1>1 DEF RunInv, ExchangeOf
  <2> QED BY <1>2, <2>1 DEF BaseAt
<1>7. SessionOf(r)' /\ ExchangeOf(r)'
  <2>1. BaseAt("N2", r)' = BaseAt("N2", r) /\ linked' = linked
    BY <1>1 DEF BaseAt
  <2>2. run'[r].pc = "Rotated" /\ run'[r].session = session
    BY <1>4
  <2>3. SessionOf(r)'
    BY <1>2, <1>6, <2>1, <2>2 DEF SessionOf, Plain
  <2>4. ExchangeOf(r)'
    BY <1>4 DEF ExchangeOf, Asking
  <2> QED BY <2>3, <2>4
<1>8. Blameless(r)'
  BY <1>1, <1>4, <1>5 DEF RunInv, Blameless, Running
<1>9. RunInv(r)'
  BY <1>7, <1>8 DEF RunInv
<1>10. \A s \in Runs \ {r} : run'[s] = run[s] /\ stream'[s] = stream[s]
  BY <1>1 DEF Shapes
<1> QED BY <1>1, <1>3, <1>9, <1>10, ClientKeeps

\* A blamelessly running run finds both nodes as it read them.
LEMMA FailsKeeps ==
  ASSUME LabInv, NEW r \in Runs, Fails(r)
  PROVE  LabInv'
<1>1. RunInv(r) /\ Shapes
  BY DEF LabInv
<1>2. ASSUME r \notin blame PROVE FALSE
  <2>1. ASSUME NEW n \in Nodes, Running(r) PROVE Dials(r, n)
    <3>1. run[r].manifest = [m \in Nodes |-> NodeManifest(m)]
      BY <1>1, <1>2, <2>1 DEF RunInv, Blameless
    <3>2. run[r].manifest[n] = NodeManifest(n)
      BY <3>1
    <3> QED BY <3>2 DEF Dials, NodeManifest
  <2>2. "N1" \in Nodes /\ "N2" \in Nodes
    BY DEF Nodes
  <2>3. CASE run[r].pc = "Dial" /\ ~Dials(r, "N1")
    BY <2>1, <2>2, <2>3 DEF Running
  <2>4. CASE run[r].pc = "Mint" /\ stream[r].answer # None /\ ~Dials(r, "N2")
    BY <2>1, <2>2, <2>4 DEF Running
  <2>5. CASE run[r].pc = "Resume" /\ stream[r].answer # None /\ ~Acked(r)
    <3>1. run[r].session.chain_base = <<r>>
      BY <1>1, <2>5 DEF RunInv, SessionOf
    <3>2. stream[r].answer.kind = "Ack" /\ stream[r].answer.key = KResume(r)
      BY <1>1, <1>2, <2>5 DEF RunInv, Blameless
    <3> QED BY <2>5, <3>1, <3>2 DEF Acked
  <2>6. CASE run[r].pc \in Asking \union {"Sending", "Rotated"} /\ <<r, Needs(r)>> \notin linked
    BY <1>1, <1>2, <2>6 DEF RunInv, Blameless, Needs, Asking
  <2> QED BY <2>3, <2>4, <2>5, <2>6 DEF Fails
<1>3. End(r, "Failed")
  BY DEF Fails
<1> QED BY <1>2, <1>3, EndKeeps

\* Every step of a client.
LEMMA ClientStepKeeps ==
  ASSUME LabInv, NEW r \in Runs, ClientStep(r)
  PROVE  LabInv'
<1>1. CASE SendToN1(r)
  BY <1>1, SendKeeps DEF SendToN1, Nodes
<1>2. CASE SendToN2(r)
  BY <1>2, SendKeeps DEF SendToN2, Nodes
<1>3. CASE Finish(r)
  BY <1>3, EndKeeps DEF Finish
<1> QED BY <1>1, <1>2, <1>3, DialKeeps, FinishHandshakeKeeps, AskTicketKeeps, TakeTicketKeeps,
           TakeAckKeeps, FailsKeeps DEF ClientStep

-----------------------------------------------------------------------------
\* The exchange a node serves is the one its run waits in.
LEMMA ServedRun ==
  ASSUME LabInv, NEW r \in Runs, NEW tag \in Asking, stream[r].tag = tag
  PROVE  run[r].pc = tag
<1>1. tag # None
  BY LabAssumption DEF Asking
<1> QED BY <1>1 DEF LabInv, RunInv, ExchangeOf

\* A window of a new or a rebuilt mirror.
LEMMA NewWindowServes ==
  ASSUME NEW floor \in Nat, NEW last_seq \in Nat, floor <= last_seq, last_seq <= Limit,
         NEW w \in {NewWindow(floor, last_seq), RestoreFromSignedLastSeq(floor, last_seq)}
  PROVE  /\ w \in Window /\ w.lo = SlideLo(w.floor, w.hi)
         /\ w.floor <= w.hi /\ w.hi <= Limit
<1>1. SlideLo(floor, last_seq) \in Nat
  BY SlideLoBounds, Bounds
<1>2. PICK restored \in BOOLEAN :
        w = [floor |-> floor, lo |-> SlideLo(floor, last_seq), hi |-> last_seq,
             seen |-> {}, anomalies |-> 0, restored |-> restored]
  <2>1. CASE w = NewWindow(floor, last_seq)
    BY <2>1 DEF NewWindow
  <2>2. CASE w = RestoreFromSignedLastSeq(floor, last_seq)
    BY <2>2 DEF NewWindow, RestoreFromSignedLastSeq
  <2> QED BY <2>1, <2>2
<1>3. w \in Window
  BY <1>1, <1>2 DEF Window
<1> QED BY <1>2, <1>3

\* last_seq of a run that has not rotated.
LEMMA LastSeqOfRun ==
  ASSUME NEW s, Plain(s), s.next_seq <= RecordsN
  PROVE  LastSeq(s) \in 0 .. RecordsN
  BY Bounds DEF Plain, LastSeq, SatSub

\* N1 takes the key of the handshake; the run that had it before is displaced.
LEMMA ServeHandshakeKeeps ==
  ASSUME LabInv, NEW r \in Runs, ServeHandshake(r)
  PROVE  LabInv'
<1> DEFINE session == OpenStream(NewSession(r), Flow)
<1>1. run[r].pc = "Handshake"
  BY ServedRun DEF ServeHandshake, Serves, Asking
<1>2. stream[r].ask.eph = r
  BY <1>1 DEF LabInv, RunInv, ExchangeOf
<1>3. /\ node' = [node EXCEPT !["N1"].k_session = r, !["N1"].session = session]
      /\ stream' = [stream EXCEPT ![r].answer = "msg2"]
      /\ owner' = [owner EXCEPT !["N1"] = r]
      /\ blame' = blame \union Displaced(r)
      /\ UNCHANGED <<run, linked, net, resumed>> /\ Shapes
  BY <1>2 DEF ServeHandshake, DeriveSession, Answer, LabInv
<1>4. /\ Serving(session) /\ session.chain_base = <<r>>
  <2>1. /\ DOMAIN session = Fields /\ session.gen_bases = <<>> /\ session.chain_base = <<r>>
        /\ session.streams = <<Flow>> /\ session.dedup = NewWindow(0, 0)
    BY FreshSession
  <2> HIDE DEF session
  <2> QED BY <2>1, NewWindowServes, Bounds DEF Serving
<1> HIDE DEF session
<1>5. Shapes'
  BY <1>3 DEF Shapes
<1>6. /\ node'["N1"].k_session = r /\ node'["N1"].session = session
      /\ node'["N1"].incarnation = node["N1"].incarnation
      /\ node'["N2"] = node["N2"] /\ owner'["N1"] = r /\ owner'["N2"] = owner["N2"]
  BY <1>3 DEF Shapes, Nodes
<1>7. \A n \in Nodes : node'[n].incarnation = node[n].incarnation
  BY <1>6 DEF Nodes
<1>8. \A s \in Runs : RunInv(s)'
  <2>1. ASSUME NEW s \in Runs \ {r} PROVE RunInv(s)'
    <3>1. s \notin blame' => s \notin blame /\ (OwnsN1(s) /\ NeedsN1(s) => OwnsN1(s)')
      BY <1>3, <2>1 DEF Displaced, OwnsN1, NeedsN1
    <3>2. stream'[s] = stream[s] /\ run'[s] = run[s] /\ RunInv(s)
      BY <1>3, <2>1 DEF Shapes, LabInv
    <3> QED BY <1>3, <1>7, <3>1, <3>2, RunUntouched
  <2>2. stream'[r].tag = stream[r].tag /\ stream'[r].ask = stream[r].ask
    BY <1>3 DEF Shapes
  <2>3. RunInv(r)
    BY DEF LabInv
  <2>4. SessionOf(r)' /\ ExchangeOf(r)'
    BY <1>1, <1>3, <2>2, <2>3 DEF RunInv, SessionOf, ExchangeOf, Asking
  <2>5. \A n \in Nodes : NodeManifest(n)' = NodeManifest(n)
    BY <1>7 DEF NodeManifest
  <2>6. Blameless(r)'
    BY <1>1, <1>3, <1>6, <2>3, <2>5 DEF RunInv, Blameless, Running, OwnsN1
  <2> QED BY <2>1, <2>4, <2>6 DEF RunInv
<1>9. \A n \in Nodes : ServerInv(n)'
  <2>1. ServerInv("N1")'
    BY <1>4, <1>6, LabAssumption DEF ServerInv, BaseAt, Serving
  <2>2. ServerInv("N2")'
    BY <1>6 DEF LabInv, ServerInv, BaseAt, Nodes, Serving
  <2> QED BY <2>1, <2>2 DEF Nodes
<1>10. \A d \in net' : Sent(d)'
  BY <1>3, <1>6 DEF LabInv, Sent, BaseAt
<1>11. OnlyKeyHolderResumes'
  BY <1>3 DEF LabInv, OnlyKeyHolderResumes
<1> QED BY <1>5, <1>8, <1>9, <1>10, <1>11 DEF LabInv

\* N1 wraps the key it has, which is that of a run it still belongs to.
LEMMA ServeMintKeeps ==
  ASSUME LabInv, NEW r \in Runs, ServeMint(r)
  PROVE  LabInv'
<1> DEFINE ticket == TicketOf(node["N1"].k_session, stream[r].ask.last_seq)
<1>1. run[r].pc = "Mint"
  BY ServedRun DEF ServeMint, Serves, Asking
<1>2. /\ stream[r].answer = None
      /\ stream' = [stream EXCEPT ![r].answer = [ticket |-> ticket]]
      /\ UNCHANGED <<run, linked, node, net, owner, resumed, blame>>
      /\ Shapes /\ RunInv(r)
  BY DEF ServeMint, Serves, Answer, LabInv
<1>3. /\ stream[r].ask.last_seq = LastSeq(run[r].session)
      /\ stream[r].ask.last_seq \in 0 .. RecordsN
  BY <1>1, <1>2, LastSeqOfRun DEF RunInv, SessionOf, ExchangeOf
<1>4. TicketFits(ticket, LastSeq(run[r].session))
  BY <1>3, WindowAssumption, Bounds DEF TicketFits, TicketOf, SatSub
<1>5. OwnsN1(r) => ticket # None /\ ticket.key = r
  <2>1. r # None
    BY LabAssumption
  <2>2. SatSub(stream[r].ask.last_seq, W) \in 0 .. RecordsN
    BY <1>3, WindowAssumption, Bounds DEF SatSub
  <2> QED BY <1>3, <2>1, <2>2, LabAssumption DEF OwnsN1, TicketOf
<1> HIDE DEF ticket
<1>6. Shapes'
  BY <1>2 DEF Shapes
<1>7. /\ stream'[r].tag = stream[r].tag /\ stream'[r].ask = stream[r].ask
      /\ stream'[r].answer = [ticket |-> ticket]
  BY <1>2 DEF Shapes
<1>8. \A n \in Nodes : NodeManifest(n)' = NodeManifest(n)
  BY <1>2 DEF NodeManifest
<1>9. SessionOf(r)'
  BY <1>1, <1>2 DEF RunInv, SessionOf, Plain
<1>10. ExchangeOf(r)'
  BY <1>1, <1>2, <1>4, <1>7 DEF RunInv, ExchangeOf, Asking, TicketFits
<1>11. Blameless(r)'
  <2>1. r \notin blame => OwnsN1(r)
    BY <1>1, <1>2 DEF RunInv, Blameless
  <2> QED BY <1>1, <1>2, <1>5, <1>7, <1>8, <2>1 DEF RunInv, Blameless, Running, OwnsN1
<1>12. RunInv(r)'
  BY <1>9, <1>10, <1>11 DEF RunInv
<1>13. \A s \in Runs \ {r} : stream'[s] = stream[s]
  BY <1>2 DEF Shapes
<1> QED BY <1>2, <1>6, <1>12, <1>13, ClientKeeps

\* The mirror N2 builds for a request it accepts.
LEMMA MirrorServes ==
  ASSUME NEW q, NEW k, q.ticket.lo \in Nat, q.last_seq \in Nat, q.ticket.lo <= q.last_seq,
         q.last_seq <= Limit
  PROVE  Serving(Mirror(q, k)) /\ Mirror(q, k).chain_base = <<k>>
<1> DEFINE w == RestoreFromSignedLastSeq(q.ticket.lo, q.last_seq)
           fresh == RestoreDedup(NewSession(k), q.ticket.lo, q.last_seq)
<1>1. /\ DOMAIN fresh = Fields /\ fresh.gen_bases = <<>> /\ fresh.chain_base = <<k>>
      /\ fresh.streams = <<>> /\ fresh.dedup = w
  BY DEF RestoreDedup, NewSession, Fields
<1>2. /\ w \in Window /\ w.lo = SlideLo(w.floor, w.hi) /\ w.floor <= w.hi /\ w.hi <= Limit
  BY NewWindowServes
<1> HIDE DEF fresh, w
<1>3. ~ \E i \in DOMAIN fresh.streams : fresh.streams[i] = Flow
  BY <1>1
<1>4. OpenStream(fresh, Flow) = [fresh EXCEPT !.streams = Append(@, Flow)]
  BY <1>3 DEF OpenStream
<1>5. Append(fresh.streams, Flow) = <<Flow>>
  BY <1>1
<1>6. LET s == OpenStream(fresh, Flow) IN
      /\ DOMAIN s = Fields /\ s.gen_bases = <<>> /\ s.chain_base = <<k>>
      /\ s.streams = <<Flow>> /\ s.dedup = w
  BY <1>1, <1>4, <1>5 DEF Fields
<1> QED BY <1>2, <1>6 DEF Serving, Mirror, fresh

\* N2 builds a mirror for the run whose key the ticket holds, or answers with a NAK.
LEMMA ServeResumeKeeps ==
  ASSUME LabInv, NEW r \in Runs, ServeResume(r)
  PROVE  LabInv'
<1>1. run[r].pc = "Resume"
  BY ServedRun DEF ServeResume, Serves, Asking
<1>2. /\ UNCHANGED <<run, linked, net, blame>> /\ Shapes /\ RunInv(r)
  BY DEF ServeResume, LabInv
<1>3. PICK q : q = stream[r].ask
  OBVIOUS
<1>4. /\ q.key = KResume(r) /\ q.last_seq \in 0 .. RecordsN /\ TicketFits(q.ticket, q.last_seq)
  BY <1>1, <1>2, <1>3, LastSeqOfRun DEF RunInv, SessionOf, ExchangeOf
<1>5. CASE ~Accepts(q)
  <2>1. /\ UNCHANGED <<node, owner, resumed>>
        /\ stream' = [stream EXCEPT ![r].answer = [kind |-> "Nak"]]
    BY <1>3, <1>5 DEF ServeResume, Answer
  <2>2. r \in blame
    BY <1>1, <1>2, <1>3, <1>4, <1>5 DEF RunInv, Blameless, Accepts
  <2>3. Shapes'
    BY <1>2, <2>1 DEF Shapes
  <2>4. /\ stream'[r].tag = stream[r].tag /\ stream'[r].ask = stream[r].ask
        /\ stream'[r].answer = [kind |-> "Nak"]
    BY <1>2, <2>1 DEF Shapes
  <2>5. SessionOf(r)' /\ ExchangeOf(r)'
    BY <1>1, <1>2, <2>1, <2>4 DEF RunInv, SessionOf, ExchangeOf, Asking, Plain, TicketFits
  <2>6. RunInv(r)'
    BY <1>2, <2>2, <2>5 DEF RunInv, Blameless
  <2>7. \A s \in Runs \ {r} : stream'[s] = stream[s]
    BY <1>2, <2>1 DEF Shapes
  <2> QED BY <1>2, <2>1, <2>3, <2>6, <2>7, ClientKeeps
<1>6. CASE Accepts(q)
  <2> DEFINE k == Rotated(r, r, node["N2"].incarnation)
             mirror == Mirror(q, k)
             ack == Ack("N2", r, q)
  <2>1. q.ticket # None /\ q.ticket.key = r
    BY <1>4, <1>6 DEF Accepts, KResume
  <2>2. /\ node' = [node EXCEPT !["N2"].k_session = k, !["N2"].session = mirror]
        /\ owner' = [owner EXCEPT !["N2"] = r]
        /\ resumed' = resumed \union {<<r, r>>}
        /\ stream' = [stream EXCEPT ![r].answer = ack]
    BY <1>3, <1>6, <2>1 DEF ServeResume, Answer, NodeRotates
  <2>3. Serving(mirror) /\ mirror.chain_base = BaseAt("N2", r)
    <3>1. /\ q.ticket.lo \in Nat /\ q.last_seq \in Nat /\ q.ticket.lo <= q.last_seq
          /\ q.last_seq <= Limit
      BY <1>4, <2>1, Bounds DEF TicketFits
    <3>2. Serving(mirror) /\ mirror.chain_base = <<k>>
      BY <3>1, MirrorServes
    <3> QED BY <3>2 DEF BaseAt
  <2>4. /\ ack.kind = "Ack" /\ ack.key = KResume(r)
        /\ ack.eph_node = node["N2"].incarnation
    BY <2>1 DEF Ack, AckKey
  <2> HIDE DEF mirror, ack, k
  <2>5. Shapes'
    BY <1>2, <2>2 DEF Shapes
  <2>6. /\ node'["N2"].session = mirror
        /\ node'["N2"].incarnation = node["N2"].incarnation
        /\ node'["N1"] = node["N1"] /\ owner'["N2"] = r /\ owner'["N1"] = owner["N1"]
    BY <1>2, <2>2 DEF Shapes, Nodes
  <2>7. \A n \in Nodes : node'[n].incarnation = node[n].incarnation
    BY <2>6 DEF Nodes
  <2>8. \A s \in Runs : RunInv(s)'
    <3>1. ASSUME NEW s \in Runs \ {r} PROVE RunInv(s)'
      <4>1. s \notin blame' => s \notin blame /\ (OwnsN1(s) /\ NeedsN1(s) => OwnsN1(s)')
        BY <1>2, <2>6 DEF OwnsN1
      <4>2. stream'[s] = stream[s] /\ run'[s] = run[s] /\ RunInv(s)
        BY <1>2, <2>2, <3>1 DEF Shapes, LabInv
      <4> QED BY <1>2, <2>7, <4>1, <4>2, RunUntouched
    <3>2. /\ stream'[r].tag = stream[r].tag /\ stream'[r].ask = stream[r].ask
          /\ stream'[r].answer = ack
      BY <1>2, <2>2 DEF Shapes
    <3>3. SessionOf(r)'
      BY <1>1, <1>2 DEF RunInv, SessionOf, Plain
    <3>4. ExchangeOf(r)'
      BY <1>1, <1>2, <2>4, <2>6, <3>2 DEF RunInv, ExchangeOf, Asking, TicketFits
    <3>5. \A n \in Nodes : NodeManifest(n)' = NodeManifest(n)
      BY <2>7 DEF NodeManifest
    <3>6. Blameless(r)'
      BY <1>1, <1>2, <2>4, <3>2, <3>5 DEF RunInv, Blameless, Running
    <3> QED BY <3>1, <3>3, <3>4, <3>6 DEF RunInv
  <2>9. \A n \in Nodes : ServerInv(n)'
    <3>1. ServerInv("N2")'
      <4>1. BaseAt("N2", r)' = BaseAt("N2", r) /\ r # None
        BY <2>6, LabAssumption DEF BaseAt
      <4> QED BY <2>3, <2>6, <4>1 DEF ServerInv, Serving
    <3>2. ServerInv("N1")'
      BY <2>6 DEF LabInv, ServerInv, BaseAt, Nodes, Serving
    <3> QED BY <3>1, <3>2 DEF Nodes
  <2>10. \A d \in net' : Sent(d)'
    BY <1>2, <2>6 DEF LabInv, Sent, BaseAt
  <2>11. OnlyKeyHolderResumes'
    BY <2>2 DEF LabInv, OnlyKeyHolderResumes
  <2> QED BY <2>5, <2>8, <2>9, <2>10, <2>11 DEF LabInv
<1> QED BY <1>5, <1>6

\* A record that is received leaves a mirror a mirror.
LEMMA ReceivingServes ==
  ASSUME NEW s, Serving(s), NEW rec, rec.kind = "Data", rec.seq \in 0 .. RecordsN + AfterN
  PROVE  Serving(AfterRecv(s, rec)) /\ AfterRecv(s, rec).chain_base = s.chain_base
<1> DEFINE v == Accept(s.dedup, rec.seq)
<1>1. /\ rec.seq \in Nat /\ rec.seq <= Limit /\ rec.seq < U64Max
      /\ s.dedup \in Window /\ s.dedup.hi < U64Max /\ s.dedup.hi \in Nat
      /\ s.dedup.lo = SlideLo(s.dedup.floor, s.dedup.hi)
      /\ s.dedup.floor <= s.dedup.hi /\ s.dedup.hi <= Limit /\ s.dedup.floor \in Nat
  BY Bounds DEF Serving, Window
<1>2. /\ v \in Window /\ v.floor = s.dedup.floor /\ v.lo = SlideLo(v.floor, v.hi)
      /\ v.hi = s.dedup.hi \/ (v.hi = rec.seq /\ rec.seq >= s.dedup.floor)
  <2>1. /\ v \in Window /\ v.floor = s.dedup.floor /\ v.lo = SlideLo(v.floor, v.hi)
        /\ Below(s.dedup, rec.seq) => v = [s.dedup EXCEPT !.anomalies = @ + 1]
        /\ ~Below(s.dedup, rec.seq) /\ ~IsNew(s.dedup, rec.seq) => v = s.dedup
        /\ IsNew(s.dedup, rec.seq) =>
             v.hi = IF rec.seq > s.dedup.hi THEN rec.seq ELSE s.dedup.hi
    BY <1>1, AcceptCases
  <2>2. Below(s.dedup, rec.seq) => v.hi = s.dedup.hi
    BY <1>1, <2>1 DEF Window
  <2>3. IsNew(s.dedup, rec.seq) => ~Below(s.dedup, rec.seq)
    BY DEF IsNew
  <2> QED BY <1>1, <2>1, <2>2, <2>3 DEF Below
<1>3. v.floor <= v.hi /\ v.hi <= Limit
  BY <1>1, <1>2
<1> HIDE DEF v
<1>4. \/ AfterRecv(s, rec) = s
      \/ AfterRecv(s, rec) = [s EXCEPT !.dedup = v]
  BY DEF AfterRecv, v
<1>5. CASE AfterRecv(s, rec) = [s EXCEPT !.dedup = v]
  BY <1>2, <1>3, <1>5 DEF Serving, Fields
<1> QED BY <1>4, <1>5

\* A datagram reaches a mirror, whoever's it is.
LEMMA DatagramKeeps ==
  ASSUME LabInv, NEW d \in net, Datagram(d)
  PROVE  LabInv'
<1>1. PICK n \in Nodes : n = d[2] /\ Sent(d)
  BY DEF LabInv, Sent
<1>2. /\ UNCHANGED <<run, stream, linked, owner, resumed, blame>> /\ Shapes
      /\ net' = net \ {d}
  BY DEF Datagram, LabInv
<1>3. PICK session : session = AfterRecv(node[n].session, d[3])
  OBVIOUS
<1>4. \/ node' = node
      \/ node[n].session # None /\ node' = [node EXCEPT ![n].session = session]
  BY <1>1, <1>2, <1>3 DEF Datagram, Shapes
<1>5. Shapes'
  BY <1>2, <1>4 DEF Shapes
<1>6. /\ \A m \in Nodes : /\ node'[m].incarnation = node[m].incarnation
                          /\ node'[m].k_session = node[m].k_session
      /\ \A m \in Nodes \ {n} : node'[m].session = node[m].session
      /\ \/ node'[n].session = node[n].session
         \/ node[n].session # None /\ node'[n].session = session
  BY <1>2, <1>4 DEF Shapes
<1>7. \A s \in Runs : RunInv(s)'
  BY <1>2, <1>6, RunUntouched DEF LabInv, OwnsN1, Nodes
<1>8. \A m \in Nodes : ServerInv(m)'
  <2>1. ASSUME NEW m \in Nodes, NEW r PROVE BaseAt(m, r)' = BaseAt(m, r)
    BY <1>6 DEF BaseAt, Nodes
  <2>2. ASSUME NEW m \in Nodes, node'[m].session = node[m].session PROVE ServerInv(m)'
    BY <1>2, <2>1, <2>2 DEF LabInv, ServerInv, Serving
  <2>3. ASSUME node[n].session # None, node'[n].session = session PROVE ServerInv(n)'
    <3>1. /\ owner[n] \in Runs /\ owner[n] # None /\ Serving(node[n].session)
          /\ node[n].session.chain_base = BaseAt(n, owner[n])
      BY <2>3 DEF LabInv, ServerInv
    <3>2. Serving(session) /\ session.chain_base = BaseAt(n, owner[n])
      BY <1>1, <1>3, <3>1, ReceivingServes DEF Sent
    <3> QED BY <1>2, <2>1, <2>3, <3>1, <3>2 DEF ServerInv, Serving
  <2> QED BY <1>6, <2>2, <2>3
<1>9. \A e \in net' : Sent(e)'
  BY <1>2, <1>6 DEF LabInv, Sent, BaseAt, Nodes
<1>10. OnlyKeyHolderResumes'
  BY <1>2 DEF LabInv, OnlyKeyHolderResumes
<1> QED BY <1>5, <1>7, <1>8, <1>9, <1>10 DEF LabInv

\* A datagram is lost.
LEMMA LoseDatagramKeeps ==
  ASSUME LabInv, NEW d \in net, LoseDatagram(d)
  PROVE  LabInv'
<1>1. UNCHANGED <<run, stream, linked, node, owner, resumed, blame>> /\ net' = net \ {d}
  BY DEF LoseDatagram
<1>2. Shapes'
  BY <1>1 DEF LabInv, Shapes
<1>3. \A s \in Runs : RunInv(s)'
  BY <1>1, RunUntouched DEF LabInv, OwnsN1
<1>4. \A n \in Nodes : ServerInv(n)'
  BY <1>1 DEF LabInv, ServerInv, Serving, BaseAt
<1>5. \A e \in net' : Sent(e)'
  BY <1>1 DEF LabInv, Sent, BaseAt
<1>6. OnlyKeyHolderResumes'
  BY <1>1 DEF LabInv, OnlyKeyHolderResumes
<1> QED BY <1>2, <1>3, <1>4, <1>5, <1>6 DEF LabInv

\* A run that a fault hit: what it still has a connection to is as it was.
LEMMA RunBlamed ==
  ASSUME NEW s \in Runs, RunInv(s), run'[s] = run[s], stream'[s] = stream[s],
         linked' \subseteq linked, s \in blame',
         <<s, "N2">> \in linked' => node'["N2"].incarnation = node["N2"].incarnation
  PROVE  RunInv(s)'
<1>1. SessionOf(s)'
  BY DEF RunInv, SessionOf, BaseAt, Plain
<1>2. ExchangeOf(s)'
  BY DEF RunInv, ExchangeOf, TicketFits
<1> QED BY <1>1, <1>2 DEF RunInv, Blameless

\* A connection breaks.
LEMMA LoseConnectionKeeps ==
  ASSUME LabInv, NEW l \in linked, LoseConnection(l)
  PROVE  LabInv'
<1>1. /\ UNCHANGED <<run, stream, node, net, owner, resumed>>
      /\ linked' = linked \ {l} /\ blame' = blame \union {l[1]}
  BY DEF LoseConnection
<1>2. Shapes'
  BY <1>1 DEF LabInv, Shapes
<1>3. ASSUME NEW s \in Runs PROVE RunInv(s)'
  <2>1. RunInv(s)
    BY DEF LabInv
  <2>2. CASE s = l[1]
    BY <1>1, <2>1, <2>2, RunBlamed
  <2>3. CASE s # l[1]
    <3>1. \A n \in Nodes : <<s, n>> \in linked' <=> <<s, n>> \in linked
      BY <1>1, <2>3
    <3> QED BY <1>1, <2>1, <3>1, RunUntouched DEF OwnsN1
  <2> QED BY <2>2, <2>3
<1>4. \A n \in Nodes : ServerInv(n)'
  BY <1>1 DEF LabInv, ServerInv, Serving, BaseAt
<1>5. \A e \in net' : Sent(e)'
  BY <1>1 DEF LabInv, Sent, BaseAt
<1>6. OnlyKeyHolderResumes'
  BY <1>1 DEF LabInv, OnlyKeyHolderResumes
<1> QED BY <1>2, <1>3, <1>4, <1>5, <1>6 DEF LabInv

\* A node starts anew, and every run that was under way is blamed.
LEMMA RestartKeeps ==
  ASSUME LabInv, NEW n \in Nodes, Restart(n)
  PROVE  LabInv'
<1>1. /\ UNCHANGED <<run, stream, resumed>> /\ Shapes
      /\ linked' = {l \in linked : l[2] # n} /\ net' = {d \in net : d[2] # n}
      /\ node' = [node EXCEPT ![n] = FreshNode(@.incarnation + 1)]
      /\ owner' = [owner EXCEPT ![n] = None]
      /\ blame' = blame \union {r \in Runs : run[r].pc # "Idle" /\ ~Ended(r)}
  BY DEF Restart, LabInv
<1>2. Shapes'
  BY <1>1 DEF Shapes, FreshNode
<1>3. /\ \A m \in Nodes \ {n} : node'[m] = node[m] /\ owner'[m] = owner[m]
      /\ node'[n].session = None /\ owner'[n] = None
  BY <1>1 DEF Shapes, FreshNode
<1>4. ASSUME NEW s \in Runs PROVE RunInv(s)'
  <2>1. RunInv(s)
    BY DEF LabInv
  <2>2. CASE s \in blame'
    <3>1. <<s, "N2">> \in linked' => node'["N2"].incarnation = node["N2"].incarnation
      BY <1>1, <1>3 DEF Nodes
    <3> QED BY <1>1, <2>1, <2>2, <3>1, RunBlamed
  <2>3. CASE s \notin blame'
    <3>1. ~Running(s) /\ s \notin blame
      BY <1>1, <2>3 DEF Running, Ended
    <3>2. SessionOf(s)' /\ ExchangeOf(s)'
      BY <1>1, <2>1, <3>1 DEF RunInv, SessionOf, ExchangeOf, Running, Asking
    <3>3. Blameless(s)'
      BY <1>1, <2>1, <3>1 DEF RunInv, Blameless, Running
    <3> QED BY <3>2, <3>3 DEF RunInv
  <2> QED BY <2>2, <2>3
<1>5. ASSUME NEW m \in Nodes \ {n}, NEW r PROVE BaseAt(m, r)' = BaseAt(m, r)
  BY <1>3, <1>5 DEF BaseAt, Nodes
<1>6. \A m \in Nodes : ServerInv(m)'
  BY <1>3, <1>5 DEF LabInv, ServerInv, Serving
<1>7. \A e \in net' : Sent(e)'
  BY <1>1, <1>5 DEF LabInv, Sent
<1>8. OnlyKeyHolderResumes'
  BY <1>1 DEF LabInv, OnlyKeyHolderResumes
<1> QED BY <1>2, <1>4, <1>6, <1>7, <1>8 DEF LabInv

-----------------------------------------------------------------------------
\* The invariant is inductive.
LEMMA StepKeepsLabInv == LabInv /\ [Next]_vars => LabInv'
<1> SUFFICES ASSUME LabInv, [Next]_vars PROVE LabInv'
  OBVIOUS
<1>1. CASE UNCHANGED vars
  <2>1. UNCHANGED <<run, stream, linked, node, net, owner, resumed, blame>>
    BY <1>1 DEF vars
  <2>2. Shapes'
    BY <2>1 DEF LabInv, Shapes
  <2>3. \A s \in Runs : RunInv(s)'
    BY <2>1, RunUntouched DEF LabInv, OwnsN1
  <2>4. \A n \in Nodes : ServerInv(n)'
    BY <2>1 DEF LabInv, ServerInv, Serving, BaseAt
  <2>5. (\A d \in net' : Sent(d)') /\ OnlyKeyHolderResumes'
    BY <2>1 DEF LabInv, Sent, BaseAt, OnlyKeyHolderResumes
  <2> QED BY <2>2, <2>3, <2>4, <2>5 DEF LabInv
<1>2. ASSUME NEW r \in Runs, Serve(r) PROVE LabInv'
  BY <1>2, ServeHandshakeKeeps, ServeMintKeeps, ServeResumeKeeps DEF Serve
<1> QED BY <1>1, <1>2, BeginKeeps, ClientStepKeeps, DatagramKeeps, LoseDatagramKeeps,
           LoseConnectionKeeps, RestartKeeps DEF Next

\* The invariant of the laboratory holds for any number of overlapping runs, of
\* records, of lost connections and of node restarts.
THEOREM LabInvariant == Spec => []LabInv
<1>1. Init => LabInv
  BY InitLabInv
<1>2. LabInv /\ [Next]_vars => LabInv'
  BY StepKeepsLabInv
<1> QED BY <1>1, <1>2, PTL DEF Spec

\* A datagram of the run whose request a node served last opens at that node when
\* it is above everything that came before, also after the rotation.
THEOREM OwnersOpen == Spec => []OwnersRecordsOpen
<1>1. LabInv => OwnersRecordsOpen
  <2> SUFFICES ASSUME LabInv, NEW d \in net, NEW s, s = node[d[2]].session,
                      owner[d[2]] = d[1], d[3].seq > s.dedup.hi
               PROVE  Verdict(s, d[3]) = "Opened"
    BY DEF OwnersRecordsOpen
  <2>1. /\ Sent(d) /\ d[1] # None
        /\ Serving(s) /\ s.chain_base = BaseAt(d[2], d[1])
    BY LabAssumption DEF LabInv, Sent, ServerInv
  <2>2. KnowsStream(s, d[3].stream)
    BY <2>1 DEF Serving, Sent, KnowsStream
  <2>3. IsNew(s.dedup, d[3].seq)
    <3>1. /\ s.dedup.floor \in Nat /\ s.dedup.hi \in Nat /\ s.dedup.hi < U64Max
          /\ s.dedup.lo = SlideLo(s.dedup.floor, s.dedup.hi) /\ s.dedup.floor <= s.dedup.hi
      BY <2>1, Bounds DEF Serving, Window
    <3>2. s.dedup.lo \in Nat /\ s.dedup.lo <= s.dedup.hi
      BY <3>1, WindowAssumption DEF SlideLo, SatInc, SatSub
    <3>3. d[3].seq \in Nat
      BY <2>1, Bounds DEF Sent
    <3> QED BY <3>1, <3>2, <3>3 DEF IsNew, Below
  <2>4. Opens(s, d[3])
    <3>1. ~TooFar(d[3].seq)
      BY <2>1, Bounds DEF Sent, TooFar
    <3>2. BaseFor(s, d[3].seq) = s.chain_base
      BY <2>1, BaseWithoutGenerations DEF Serving
    <3> QED BY <2>1, <3>1, <3>2 DEF Opens, Sent
  <2> QED BY <2>2, <2>3, <2>4 DEF Verdict
<1> QED BY <1>1, LabInvariant, PTL

\* N2 accepts a ticket from no run but the one whose key it holds, although every
\* run asks N1 for a ticket of the same session_id and identity.
THEOREM KeyHolderResumes == Spec => []OnlyKeyHolderResumes
<1>1. LabInv => OnlyKeyHolderResumes
  BY DEF LabInv
<1> QED BY <1>1, LabInvariant, PTL

\* aether-client ends with an error only after a lost connection, a restart of a
\* node, or a handshake of another run before its ticket was minted.
THEOREM FailuresHaveReasons == Spec => []FailsForAReason
<1>1. LabInv => FailsForAReason
  BY DEF LabInv, RunInv, Blameless, FailsForAReason
<1> QED BY <1>1, LabInvariant, PTL
=============================================================================
