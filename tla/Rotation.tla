------------------------------ MODULE Rotation -----------------------------
(***************************************************************************)
(* One rotation of a session from its old node N1 to a new node N2: the    *)
(* Session and the ClientRotation of the client (crates frame-session and  *)
(* key-coordinator), driven as RotationDriver drives them; the mirror of   *)
(* each node (e2e-harness, aether-node), and N2's consumed set.  Between   *)
(* them are two record channels and a control channel.                     *)
(*                                                                         *)
(* What was sent stays on its channel: it may arrive never, repeatedly and *)
(* in any order.  T_ack lets the client retry while its first request is   *)
(* still under way, so the retry may overtake it.                          *)
(*                                                                         *)
(* ss_rotate, the DH of the two ephemeral keys, is fixed by the client's   *)
(* key, since N2 has one; so K_session' is the pair K, eph_client.         *)
(***************************************************************************)
EXTENDS FrameSession

CONSTANTS
  K,            \* K_session
  Flow,         \* the application flow; stream 0 of every session
  Ephs,         \* eph_client keys the client can generate
  MaxAttempts,  \* MAX_RESUME_ATTEMPTS
  MaxSeq        \* bound: records the client seals

Consumed == INSTANCE ConsumedSet

\* No seq of the model is too far to seal, and a rotated key is no older key.
ASSUME RotationAssumption ==
  /\ MaxAttempts \in Nat \ {0} /\ MaxSeq \in 1 .. Limit + 1
  /\ \A eph \in Ephs : K # <<K, eph>>

VARIABLES
  client,    \* Session of the client
  phase,     \* where the client sends: N1 only, both (overlap), N2 only
  resume,    \* ClientRotation: attempts, eph_client, the last_seq it signs
  waiting,   \* the client is in exchange(), its last request unanswered
  requests,  \* RESUME requests sent to N2, in order
  arrived,   \* index of the last request that reached N2
  replies,   \* what N2 answered; an answer comes back on the stream of its request
  entry,     \* N2's consumed entry for the ticket
  node1,     \* mirror of N1
  node2,     \* mirror of N2: Option<Session>
  net1, net2,  \* records sent to N1 and to N2
  delivered, \* history: how often N1 and N2 delivered each seq
  rotatedAt, \* history: next_seq of the client when it took K_session'
  overtaken  \* history: N2 accepted a request after a later one

vars == <<client, phase, resume, waiting, requests, arrived, replies, entry, node1, node2,
          net1, net2, delivered, rotatedAt, overtaken>>

Seqs == 0 .. MaxSeq - 1
Nodes == {"N1", "N2"}
Rotated(eph) == <<K, eph>>

TypeOK ==
  /\ phase \in {"Old", "Overlap", "New"}
  /\ client.next_seq \in 0 .. MaxSeq
  /\ resume.attempts \in 0 .. MaxAttempts /\ resume.eph \in Ephs \union {None}
  /\ resume.last_seq \in Seqs
  /\ waiting \in BOOLEAN
  /\ Len(requests) = resume.attempts /\ arrived \in 0 .. Len(requests)
  /\ \A a \in replies :
       /\ a.to \in 1 .. Len(requests) /\ a.kind \in {"Accept", "NakReplay", "NakBudget"}
       /\ (a.ack = None) = (a.kind # "Accept")
  /\ entry.attempts \in 0 .. MaxAttempts
  /\ delivered \in [Nodes -> [Seqs -> Nat]]
  /\ rotatedAt \in Seqs \union {None, MaxSeq}
  /\ overtaken \in BOOLEAN

\* ClientRotation::new; every rotation has a coordinator of its own, which is told the
\* last issued seq.
NewRotation == [attempts |-> 0, eph |-> None, last_seq |-> 0]
Coordinator(last_seq) == [NewRotation EXCEPT !.last_seq = last_seq]

Init ==
  /\ client = OpenStream(NewSession(K), Flow)
  /\ phase = "Old"
  /\ resume = NewRotation
  /\ waiting = FALSE
  /\ requests = <<>>
  /\ arrived = 0
  /\ replies = {}
  /\ entry = Consumed!NoEntry
  /\ node1 = OpenStream(NewSession(K), Flow)
  /\ node2 = None
  /\ net1 = {}
  /\ net2 = {}
  /\ delivered = [n \in Nodes |-> [q \in Seqs |-> 0]]
  /\ rotatedAt = None
  /\ overtaken = FALSE

-----------------------------------------------------------------------------
\* RotationDriver::emit and emit_after_rotation.
EmitOld ==
  /\ phase = "Old" /\ client.next_seq < MaxSeq
  /\ net1' = net1 \union {Sealed(client, "Data", 0, None)}
  /\ client' = AfterSealRecord(client)
  /\ UNCHANGED <<phase, resume, waiting, requests, arrived, replies, entry, node1, node2, net2,
                 delivered, rotatedAt, overtaken>>

EmitBoth(late) ==
  /\ phase = "Overlap" /\ client.next_seq < MaxSeq
  /\ net1' = net1 \union {Sealed(client, "Data", 0, None)}
  /\ client' = AfterDuplicate(AfterSealRecord(client), late)
  /\ net2' = IF MayDuplicate(client, late)
             THEN net2 \union {Sealed(client, "Data", 0, None)} ELSE net2
  /\ UNCHANGED <<phase, resume, waiting, requests, arrived, replies, entry, node1, node2,
                 delivered, rotatedAt, overtaken>>

EmitNew ==
  /\ phase = "New" /\ client.next_seq < MaxSeq
  /\ net2' = net2 \union {Sealed(client, "Data", 0, None)}
  /\ client' = AfterSealRecord(client)
  /\ UNCHANGED <<phase, resume, waiting, requests, arrived, replies, entry, node1, node2, net1,
                 delivered, rotatedAt, overtaken>>

\* The session re-keys on the old channel.
RekeyOld ==
  /\ phase = "Old" /\ client.next_seq < MaxSeq /\ client.gen_bases = <<>>
  /\ net1' = net1 \union {Sealed(client, "Rekey", 0, client.next_seq)}
  /\ client' = AfterRekey(client, client.next_seq)
  /\ UNCHANGED <<phase, resume, waiting, requests, arrived, replies, entry, node1, node2, net2,
                 delivered, rotatedAt, overtaken>>

\* N1 mints the ticket with the bound the coordinator has, and start_overlap connects N2.
StartOverlap ==
  /\ phase = "Old" /\ resume.attempts = 0
  /\ client' = BeginOverlap(client)
  /\ phase' = "Overlap"
  /\ resume' = Coordinator(LastSeq(client))
  /\ UNCHANGED <<waiting, requests, arrived, replies, entry, node1, node2, net1, net2,
                 delivered, rotatedAt, overtaken>>

\* build_resume: what sig_client covers, and K_resume seals.
ResumeRequest(eph) == [nonce |-> Len(requests) + 1, eph |-> eph, last_seq |-> resume.last_seq]

\* ClientRotation::resume up to exchange(): a fresh client_nonce, the index of the
\* request, and an eph_client the caller generated for this attempt.
Resume(eph) ==
  /\ phase = "Overlap" /\ ~waiting
  /\ resume.attempts < MaxAttempts
  /\ \A i \in DOMAIN requests : requests[i].eph # eph
  /\ resume' = [resume EXCEPT !.attempts = @ + 1, !.eph = eph]
  /\ requests' = Append(requests, ResumeRequest(eph))
  /\ waiting' = TRUE
  /\ UNCHANGED <<client, phase, arrived, replies, entry, node1, node2, net1, net2, delivered,
                 rotatedAt, overtaken>>

\* window_lo of the ticket: handle_mint takes last_seq - 4096.
Floor == SatSub(resume.last_seq, W)

\* Mutated form of Mirror: the mirror keeps the K_session of the ticket.
MirrorOfTicket(q) ==
  OpenStream(RestoreDedup(NewSession(K), Floor, q.last_seq), Flow)

\* The mirror handle_resume of the node puts into its only slot.
Mirror(q) == OpenStream(RestoreDedup(NewSession(Rotated(q.eph)), Floor, q.last_seq), Flow)

\* What sig_client and sig_node cover.
ResumeSigned(q) == <<"resume", q.last_seq, q.eph, q.nonce>>
AckSigned(q, point, window_lo) == <<"resume-ack", ResumeSigned(q), point, window_lo>>

\* build_resume_ack: the signed last_seq comes back as continuity_point.
AckOf(q) ==
  LET lo == NewWindow(Floor, q.last_seq).lo IN
  [point |-> q.last_seq, window_lo |-> lo, signs |-> AckSigned(q, q.last_seq, lo)]

ReplyTo(q, verdict) ==
  [to |-> q.nonce, kind |-> verdict, ack |-> IF verdict = "Accept" THEN AckOf(q) ELSE None]

\* The node's handle_resume for a valid ticket and signature; a repeated frame comes again.
NodeHandlesResume(i) ==
  LET q == requests[i]
      verdict == Consumed!EntryVerdict(entry, q) IN
  /\ arrived' = Max({i, arrived})
  /\ entry' = Consumed!EntryAfter(entry, q, verdict)
  /\ node2' = IF verdict = "Accept" THEN Mirror(q) ELSE node2
  /\ replies' = replies \union {ReplyTo(q, verdict)}
  /\ overtaken' = (overtaken \/ (verdict = "Accept" /\ i < arrived))
  /\ UNCHANGED <<client, phase, resume, waiting, requests, node1, net1, net2, delivered, rotatedAt>>

\* exchange() fails: no answer within T_ack.
AckTimeout ==
  /\ waiting
  /\ waiting' = FALSE
  /\ UNCHANGED <<client, phase, resume, requests, arrived, replies, entry, node1, node2, net1,
                 net2, delivered, rotatedAt, overtaken>>

NakArrives ==
  /\ waiting
  /\ \E a \in replies :
       a.to = Len(requests) /\ a.kind # "Accept" /\ client' = OnResumeNak(client, a.kind)
  /\ waiting' = FALSE
  /\ UNCHANGED <<phase, resume, requests, arrived, replies, entry, node1, node2, net1, net2,
                 delivered, rotatedAt, overtaken>>

\* accept_response checks sig_node over its own request and what the ACK says; then
\* the caller runs on_resume_ack, post_rotation_rekey and ratchet_from and promotes N2.
Verifies(a, q) == a.kind = "Accept" /\ a.ack.signs = AckSigned(q, a.ack.point, a.ack.window_lo)

AckArrives ==
  LET q == requests[Len(requests)] IN
  /\ waiting
  /\ \E a \in replies :
       /\ a.to = Len(requests) /\ Verifies(a, q)
       /\ client' = RatchetFrom(OnResumeAck(client, a.ack.point, a.ack.window_lo), Rotated(resume.eph))
  /\ phase' = "New"
  /\ waiting' = FALSE
  /\ rotatedAt' = client.next_seq
  /\ UNCHANGED <<resume, requests, arrived, replies, entry, node1, node2, net1, net2, delivered, overtaken>>

\* Both attempts are spent: resume refuses, and its caller goes back to the old channel.
RollBack ==
  /\ phase = "Overlap" /\ ~waiting /\ resume.attempts = MaxAttempts
  /\ phase' = "Old"
  /\ UNCHANGED <<client, resume, waiting, requests, arrived, replies, entry, node1, node2, net1,
                 net2, delivered, rotatedAt, overtaken>>

Deliver(node, s, r) ==
  IF Verdict(s, r) = "Opened" THEN [delivered EXCEPT ![node][r.seq] = @ + 1] ELSE delivered

RecvOld(r) ==
  /\ node1' = AfterRecv(node1, r)
  /\ delivered' = Deliver("N1", node1, r)
  /\ UNCHANGED <<client, phase, resume, waiting, requests, arrived, replies, entry, node2, net1,
                 net2, rotatedAt, overtaken>>

\* A record that comes before the mirror exists is dropped.
RecvNew(r) ==
  /\ node2 # None
  /\ node2' = AfterRecv(node2, r)
  /\ delivered' = Deliver("N2", node2, r)
  /\ UNCHANGED <<client, phase, resume, waiting, requests, arrived, replies, entry, node1, net1,
                 net2, rotatedAt, overtaken>>

Next ==
  \/ EmitOld
  \/ \E late \in BOOLEAN : EmitBoth(late)
  \/ EmitNew
  \/ RekeyOld
  \/ StartOverlap
  \/ \E eph \in Ephs : Resume(eph)
  \/ \E i \in DOMAIN requests : NodeHandlesResume(i)
  \/ AckTimeout
  \/ NakArrives
  \/ AckArrives
  \/ RollBack
  \/ \E r \in net1 : RecvOld(r)
  \/ \E r \in net2 : RecvNew(r)

Spec == Init /\ [][Next]_vars

-----------------------------------------------------------------------------
\* A record sealed after the rotation opens at N2 as long as it is above
\* everything N2 has taken: key, stream table and window of the new mirror are
\* those the client continues with.
ContinuationOpens ==
  \A r \in net2 :
    phase = "New" /\ ~overtaken /\ r.seq >= rotatedAt /\ r.seq > node2.dedup.hi
    => Verdict(node2, r) = "Opened"

\* At most once, over both nodes together: a copy on the second channel never
\* becomes a second delivery, and a new mirror with an empty window never
\* delivers again what the one before it delivered.
DeliveredOnce == \A q \in Seqs : delivered["N1"][q] + delivered["N2"][q] <= 1

-----------------------------------------------------------------------------
\* 02-protocols 3.3 without a condition: after the ACK both sides have one K_session'.
MirrorAlwaysFollows == phase = "New" => node2 # None /\ node2.chain_base = client.chain_base

\* 02-protocols 3.3: after the ACK the client continues with seq above
\* ACK.continuity_point.
ContinuesAboveAck == phase = "New" => client.next_seq > client.ack

\* 02-protocols 3.8 and the contract of FrameSession: at least once across a rotation.
\* A copy of an overlap record that reaches N2's mirror is of use there.
CopiesAreUsable ==
  \A r \in net2 :
    phase = "New" /\ r.seq < rotatedAt /\ delivered["N1"][r.seq] = 0 => Opens(node2, r)
=============================================================================
