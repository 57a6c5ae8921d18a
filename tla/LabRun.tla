------------------------------- MODULE LabRun -------------------------------
(***************************************************************************)
(* The laboratory of crate e2e-harness: runs of the program aether-client   *)
(* against two nodes aether-node.  A run does the Noise_IK handshake with  *)
(* N1, sends records, has a ticket minted at N1, resumes on N2 and sends   *)
(* the rest there.  A node serves every connection in a task of its own;   *)
(* all of them share one NodeState, that is one K_session and one mirror,  *)
(* and every run uses the session_id of LabConfig and the one authorised   *)
(* identity.  So runs that overlap work on each other's state.             *)
(*                                                                         *)
(* QUIC streams are reliable while their connection lives; datagrams get   *)
(* lost and reordered.  A handshake gives both sides a key nobody else     *)
(* has: it is named after the run.  K_session' is fixed by the key of the  *)
(* ticket, eph_client of the run and eph_node of the node's incarnation.   *)
(* One run asks for one ticket and sends it once, so the consumed set      *)
(* decides nothing here: TicketMint and Rotation have it.                  *)
(***************************************************************************)
EXTENDS FrameSession

CONSTANTS
  Runs,           \* runs of aether-client
  RecordsN,       \* --records
  AfterN,         \* --after
  Flow,           \* FlowId(1), which both programs open first
  MaxFaults       \* bound on lost connections and node restarts

\* No run seals as far as the limit, and "None" is no run, no exchange and no ticket.
ASSUME LabAssumption ==
  /\ RecordsN \in Nat /\ AfterN \in Nat /\ RecordsN + AfterN <= Limit
  /\ None \notin Runs \union {"Handshake", "Mint", "Resume"}
  /\ \A r \in Runs, lo, hi \in 0 .. RecordsN : None # [key |-> r, lo |-> lo, hi |-> hi]

Nodes == {"N1", "N2"}
Asking == {"Handshake", "Mint", "Resume"}

VARIABLES
  run,      \* where each run is, its Session, the manifests it read
  stream,   \* the exchange a run waits for: tag, request, answer
  linked,   \* connections <<r, n>> that are up
  node,     \* NodeState: k_session, mirror, incarnation (keys, certificate, eph_node)
  net,      \* datagrams in flight, <<r, n, record>>
  owner,    \* history: the run whose request wrote the state of a node last
  resumed,  \* history: <<run, key of the ticket>> of every accepted RESUME
  blame,    \* history: runs hit by a fault, or by another run's handshake before their mint
  faults

vars == <<run, stream, linked, node, net, owner, resumed, blame, faults>>

NoStream == [tag |-> None, ask |-> None, answer |-> None]
Idle == [pc |-> "Idle", session |-> None, manifest |-> None]
FreshNode(i) == [k_session |-> None, session |-> None, incarnation |-> i]

\* node_static and the identity come from the seed and outlive a restart; the KEM
\* key is drawn anew, and so is the certificate, a leaf under a CA of its own.
NodeKem(i) == <<"kem", i>>
SelfSignedCert(i) == [leaf |-> <<"leaf", i>>, ca |-> <<"CA", i>>]

\* What the node publishes when it starts: the client pins the CA.
NodeManifest(n) ==
  [ node_static_kem |-> NodeKem(node[n].incarnation),
    quic_cert |-> SelfSignedCert(node[n].incarnation).ca ]

Ended(r) == run[r].pc \in {"Done", "Failed"}

TypeOK ==
  /\ \A r \in Runs :
       /\ run[r].pc \in Asking \union {"Idle", "Dial", "Sending", "Rotated", "Done", "Failed"}
       /\ run[r].pc \in {"Sending", "Mint", "Resume", "Rotated", "Done"} => run[r].session # None
       /\ stream[r].tag \in Asking \union {None}
       /\ stream[r].tag = "Resume" => stream[r].ask.ticket = None
                                      \/ stream[r].ask.ticket.lo \in 0 .. RecordsN
  /\ linked \subseteq Runs \X Nodes
  /\ \A n \in Nodes : node[n].incarnation \in 0 .. MaxFaults
  /\ \A d \in net : d[1] \in Runs /\ d[2] \in Nodes /\ d[3].seq \in 0 .. RecordsN + AfterN
  /\ owner \in [Nodes -> Runs \union {None}]
  /\ resumed \subseteq Runs \X Runs
  /\ blame \subseteq Runs /\ faults \in 0 .. MaxFaults

Init ==
  /\ run = [r \in Runs |-> Idle]
  /\ stream = [r \in Runs |-> NoStream]
  /\ linked = {}
  /\ node = [n \in Nodes |-> FreshNode(0)]
  /\ net = {}
  /\ owner = [n \in Nodes |-> None]
  /\ resumed = {}
  /\ blame = {}
  /\ faults = 0

-----------------------------------------------------------------------------
\* The process ends and its connections close; a datagram that is already at a
\* node may still be read there.
End(r, pc) ==
  /\ run' = [run EXCEPT ![r].pc = pc]
  /\ stream' = [stream EXCEPT ![r] = NoStream]
  /\ linked' = {l \in linked : l[1] # r}
  /\ UNCHANGED <<node, net, owner, resumed, blame, faults>>

\* Both manifests are read before anything else.
Begin(r) ==
  /\ run[r].pc = "Idle"
  /\ run' = [run EXCEPT ![r].pc = "Dial", ![r].manifest = [n \in Nodes |-> NodeManifest(n)]]
  /\ UNCHANGED <<stream, linked, node, net, owner, resumed, blame, faults>>

\* The certificate the node shows hangs from the pinned CA.
Dials(r, n) == run[r].manifest[n].quic_cert = SelfSignedCert(node[n].incarnation).ca

Ask(r, tag, ask) == stream' = [stream EXCEPT ![r] = [tag |-> tag, ask |-> ask, answer |-> None]]

\* IkInitiator: msg1 has a fresh key of the run and is meant for one KEM key of the
\* node; IkResponder opens it with that key only.  The chaining key both sides come
\* to has the fresh secrets of both, so its session key is named after the run.
Initiate(r) == [eph |-> r, kem |-> run[r].manifest["N1"].node_static_kem]
Responds(n, msg1) == msg1.kem = NodeKem(node[n].incarnation)
DeriveSession(msg1) == msg1.eph

DialN1(r) ==
  /\ run[r].pc = "Dial" /\ Dials(r, "N1")
  /\ linked' = linked \union {<<r, "N1">>}
  /\ run' = [run EXCEPT ![r].pc = "Handshake"]
  /\ Ask(r, "Handshake", Initiate(r))
  /\ UNCHANGED <<node, net, owner, resumed, blame, faults>>

FinishHandshake(r) ==
  /\ run[r].pc = "Handshake" /\ stream[r].answer # None
  /\ run' = [run EXCEPT ![r].pc = "Sending",
                        ![r].session = OpenStream(NewSession(DeriveSession(Initiate(r))), Flow)]
  /\ stream' = [stream EXCEPT ![r] = NoStream]
  /\ UNCHANGED <<linked, node, net, owner, resumed, blame, faults>>

Send(r, n) ==
  /\ <<r, n>> \in linked
  /\ net' = net \union {<<r, n, Sealed(run[r].session, "Data", 0, None)>>}
  /\ run' = [run EXCEPT ![r].session = AfterSealRecord(@)]
  /\ UNCHANGED <<stream, linked, node, owner, resumed, blame, faults>>

SendToN1(r) == run[r].pc = "Sending" /\ run[r].session.next_seq < RecordsN /\ Send(r, "N1")

\* sid and client_auth are the same in every request of the lab; K_session is not in it.
MintRequest(r) == [last_seq |-> LastSeq(run[r].session)]

AskTicket(r) ==
  /\ run[r].pc = "Sending" /\ run[r].session.next_seq = RecordsN
  /\ <<r, "N1">> \in linked
  /\ run' = [run EXCEPT ![r].pc = "Mint"]
  /\ Ask(r, "Mint", MintRequest(r))
  /\ UNCHANGED <<linked, node, net, owner, resumed, blame, faults>>

\* K_resume and K_session' are set apart by their labels; K_session' is fixed by
\* the ticket's key, the eph_client of a run and the eph_node of a node.
KResume(k_session) == <<"resume", k_session>>
Rotated(k_session, r, incarnation) == <<"rotate", k_session, r, incarnation>>

\* build_resume: the blob in the open, the rest under K_resume of the run's own key.
BuildResume(r, blob) ==
  [ ticket |-> blob, key |-> KResume(run[r].session.chain_base[1]),
    last_seq |-> LastSeq(run[r].session) ]

\* Whatever came back is the blob of the ticket, a RESUME_NAK too (ticket None).
TakeTicket(r) ==
  /\ run[r].pc = "Mint" /\ stream[r].answer # None /\ Dials(r, "N2")
  /\ linked' = linked \union {<<r, "N2">>}
  /\ run' = [run EXCEPT ![r].pc = "Resume"]
  /\ Ask(r, "Resume", BuildResume(r, stream[r].answer.ticket))
  /\ UNCHANGED <<node, net, owner, resumed, blame, faults>>

\* accept_response opens the ACK with K_resume; then on_resume_ack,
\* post_rotation_rekey and ratchet_from.
Acked(r) ==
  stream[r].answer.kind = "Ack" /\ stream[r].answer.key = KResume(run[r].session.chain_base[1])

TakeAck(r) ==
  LET a == stream[r].answer IN
  /\ run[r].pc = "Resume" /\ a # None /\ Acked(r)
  /\ run' = [run EXCEPT ![r].pc = "Rotated",
       ![r].session = RatchetFrom(OnResumeAck(@, a.point, a.window_lo), Rotated(r, r, a.eph_node))]
  /\ stream' = [stream EXCEPT ![r] = NoStream]
  /\ UNCHANGED <<linked, node, net, owner, resumed, blame, faults>>

SendToN2(r) ==
  run[r].pc = "Rotated" /\ run[r].session.next_seq < RecordsN + AfterN /\ Send(r, "N2")

Finish(r) ==
  run[r].pc = "Rotated" /\ run[r].session.next_seq = RecordsN + AfterN /\ End(r, "Done")

\* Every error ends the program: a node that does not answer to its manifest, a
\* connection that broke under an exchange or a datagram, a RESUME_NAK or an ACK
\* that does not open.  N1 is not looked at again once the RESUME is on its way.
Needs(r) == IF run[r].pc \in {"Resume", "Rotated"} THEN "N2" ELSE "N1"

Fails(r) ==
  /\ \/ run[r].pc = "Dial" /\ ~Dials(r, "N1")
     \/ run[r].pc = "Mint" /\ stream[r].answer # None /\ ~Dials(r, "N2")
     \/ run[r].pc = "Resume" /\ stream[r].answer # None /\ ~Acked(r)
     \/ run[r].pc \in Asking \union {"Sending", "Rotated"} /\ <<r, Needs(r)>> \notin linked
  /\ End(r, "Failed")

-----------------------------------------------------------------------------
Answer(r, a) == stream' = [stream EXCEPT ![r].answer = a]

\* Mutated form of Serves: the loop over the streams of a connection ends after the first.
ServesFirstStream(n, r, tag) ==
  <<r, n>> \in linked /\ stream[r].tag = tag /\ tag = (IF n = "N1" THEN "Handshake" ELSE "Resume")
  /\ stream[r].answer = None

\* serve_connection takes the streams of a connection one after the other.
Serves(n, r, tag) == <<r, n>> \in linked /\ stream[r].tag = tag /\ stream[r].answer = None

\* Runs that have the key of N1 for themselves until their ticket is minted.
Displaced(r) ==
  {s \in Runs \ {r} :
     /\ owner["N1"] = s
     /\ run[s].pc \in {"Handshake", "Sending"} \/ (run[s].pc = "Mint" /\ stream[s].answer = None)}

\* TAG_HANDSHAKE: the new key and a new mirror replace those of NodeState before msg2 is sent.
ServeHandshake(r) ==
  /\ Serves("N1", r, "Handshake") /\ Responds("N1", stream[r].ask)
  /\ LET k == DeriveSession(stream[r].ask) IN
     node' = [node EXCEPT !["N1"].k_session = k, !["N1"].session = OpenStream(NewSession(k), Flow)]
  /\ Answer(r, "msg2")
  /\ owner' = [owner EXCEPT !["N1"] = r]
  /\ blame' = blame \union Displaced(r)
  /\ UNCHANGED <<run, linked, net, resumed, faults>>

\* What handle_mint wraps: the K_session of NodeState, whoever's it is; a RESUME_NAK without one.
TicketOf(k_session, last_seq) ==
  IF k_session = None THEN None
  ELSE [key |-> k_session, lo |-> SatSub(last_seq, W), hi |-> last_seq]

ServeMint(r) ==
  /\ Serves("N1", r, "Mint")
  /\ Answer(r, [ticket |-> TicketOf(node["N1"].k_session, stream[r].ask.last_seq)])
  /\ UNCHANGED <<run, linked, node, net, owner, resumed, blame, faults>>

\* Mutated forms: the RESUME is not opened under the ticket's key; the mirror
\* knows no stream; the node ratchets what it had; the ACK is sealed under the new key.
AcceptsTicket(q) == q.ticket # None
MirrorWithoutStream(q, k) == RestoreDedup(NewSession(k), q.ticket.lo, q.last_seq)
AckUnderNewKey(n, r, q) == KResume(Rotated(q.ticket.key, r, node[n].incarnation))

\* The blob unwraps, and the request opens under K_resume of the key inside.
Accepts(q) == q.ticket # None /\ KResume(q.ticket.key) = q.key
Mirror(q, k) == OpenStream(RestoreDedup(NewSession(k), q.ticket.lo, q.last_seq), Flow)
NodeRotates(n, r, q) == Rotated(q.ticket.key, r, node[n].incarnation)
AckKey(n, r, q) == KResume(q.ticket.key)

\* The ACK handle_resume sends for an accepted request; its window is that of the ticket.
Ack(n, r, q) ==
  [ kind |-> "Ack", key |-> AckKey(n, r, q), point |-> q.last_seq,
    window_lo |-> NewWindow(q.ticket.lo, q.last_seq).lo, eph_node |-> node[n].incarnation ]

ServeResume(r) ==
  LET q == stream[r].ask
      k == NodeRotates("N2", r, q) IN
  /\ Serves("N2", r, "Resume")
  /\ IF Accepts(q)
     THEN /\ node' = [node EXCEPT !["N2"].k_session = k, !["N2"].session = Mirror(q, k)]
          /\ owner' = [owner EXCEPT !["N2"] = r]
          /\ resumed' = resumed \union {<<r, q.ticket.key>>}
          /\ Answer(r, Ack("N2", r, q))
     ELSE /\ Answer(r, [kind |-> "Nak"])
          /\ UNCHANGED <<node, owner, resumed>>
  /\ UNCHANGED <<run, linked, net, blame, faults>>

\* datagram_loop: a record that finds no mirror is dropped.
Datagram(d) ==
  LET n == d[2] IN
  /\ net' = net \ {d}
  /\ node' = IF node[n].session = None THEN node
             ELSE [node EXCEPT ![n].session = AfterRecv(@, d[3])]
  /\ UNCHANGED <<run, stream, linked, owner, resumed, blame, faults>>

LoseDatagram(d) ==
  /\ net' = net \ {d}
  /\ UNCHANGED <<run, stream, linked, node, owner, resumed, blame, faults>>

-----------------------------------------------------------------------------
LoseConnection(l) ==
  /\ faults < MaxFaults
  /\ linked' = linked \ {l}
  /\ blame' = blame \union {l[1]}
  /\ faults' = faults + 1
  /\ UNCHANGED <<run, stream, node, net, owner, resumed>>

\* NodeState::new: another eph_node, KEM key and certificate; the old manifests are void.
Restart(n) ==
  /\ faults < MaxFaults
  /\ linked' = {l \in linked : l[2] # n}
  /\ net' = {d \in net : d[2] # n}
  /\ faults' = faults + 1
  /\ node' = [node EXCEPT ![n] = FreshNode(@.incarnation + 1)]
  /\ owner' = [owner EXCEPT ![n] = None]
  /\ blame' = blame \union {r \in Runs : run[r].pc # "Idle" /\ ~Ended(r)}
  /\ UNCHANGED <<run, stream, resumed>>

ClientStep(r) ==
  \/ DialN1(r)
  \/ FinishHandshake(r)
  \/ SendToN1(r)
  \/ AskTicket(r)
  \/ TakeTicket(r)
  \/ TakeAck(r)
  \/ SendToN2(r)
  \/ Finish(r)
  \/ Fails(r)

Serve(r) == ServeHandshake(r) \/ ServeMint(r) \/ ServeResume(r)

Next ==
  \/ \E r \in Runs : Begin(r)
  \/ \E r \in Runs : ClientStep(r)
  \/ \E r \in Runs : Serve(r)
  \/ \E d \in net : Datagram(d)
  \/ \E d \in net : LoseDatagram(d)
  \/ \E l \in linked : LoseConnection(l)
  \/ \E n \in Nodes : Restart(n)

\* Tasks that can run do run; whether a run begins, a datagram comes or a fault
\* happens is open.
Fairness == \A r \in Runs : WF_vars(ClientStep(r)) /\ WF_vars(Serve(r))

Spec == Init /\ [][Next]_vars /\ Fairness

-----------------------------------------------------------------------------
\* aether-client.rs:14-15: the numbering goes on across the rotation and the
\* node takes it: a datagram of the owner opens if it is above all that came before.
OwnersRecordsOpen ==
  \A d \in net :
    LET s == node[d[2]].session IN
    owner[d[2]] = d[1] /\ d[3].seq > s.dedup.hi => Verdict(s, d[3]) = "Opened"

\* A ticket minted after another run's handshake carries the other run's key; N2
\* accepts a ticket only from the run whose key is inside.
OnlyKeyHolderResumes == \A a \in resumed : a[1] = a[2]

\* A run fails only if a fault hit it or another handshake took N1 from it
\* before its ticket was minted.
FailsForAReason == \A r \in Runs : run[r].pc = "Failed" => r \in blame

\* exchange and read_tagged have no timer, and still no run waits forever: each
\* request is answered, or its connection breaks.
RunsEnd == \A r \in Runs : run[r].pc # "Idle" ~> Ended(r)
=============================================================================
