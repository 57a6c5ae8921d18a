----------------------------- MODULE TicketMint ----------------------------
(***************************************************************************)
(* The nodes of a fleet, each with its TicketFactory (crate ticket-mint):  *)
(* tickets are minted at any node, presented at any node in signed RESUME  *)
(* requests that the network may repeat and reorder, and the consumed set  *)
(* of each node decides which requests are accepted.                       *)
(*                                                                         *)
(* A ticket blob is its id: mint_at draws a random nonce, so no two blobs  *)
(* are equal.  A request is the transcript the client signs, reduced to    *)
(* the ticket and the client_nonce; whether the signature that comes with  *)
(* it verifies is a parameter of the handler.  The window in the ticket is *)
(* passed through unread and the anomaly flag is only logged: left out.    *)
(***************************************************************************)
EXTENDS ConsumedSet, FiniteSets

CONSTANTS
  Nodes,
  NodeSetOf,    \* the node_set_id each node is configured with
  Tickets,      \* ids of the blobs that can be minted
  Nonces,       \* client_nonces
  Tfk,          \* TFK_epoch of each epoch
  MaxEpoch,
  Ttl,          \* ttl_seconds
  MaxNow,       \* bound on the clocks
  MaxRestarts   \* bound on the restarts of nodes

Epochs == 0 .. MaxEpoch

ASSUME TicketAssumption ==
  MaxEpoch \in Nat /\ MaxNow \in Nat /\ MaxRestarts \in Nat /\ Ttl \in Nat

VARIABLES
  tickets,   \* what each blob decrypts to, None before it is minted
  signed,    \* transcripts the holder of client_auth has signed
  epoch,     \* epoch_id of each node's factory, which fixes its tfk_epoch
  now,       \* clock of each node
  consumed,  \* consumed set of each node: an entry per ticket
  accepts,   \* history: accepts per transcript since the node's last start
  restarts

vars == <<tickets, signed, epoch, now, consumed, accepts, restarts>>

Transcripts == [ticket : Tickets, nonce : Nonces]
TicketPlain == [epoch : Epochs, node_set : {NodeSetOf[n] : n \in Nodes}, exp : 0 .. MaxNow + Ttl]
ConsumedEntry == [attempts : 0 .. MaxAttempts, last_transcript : Transcripts \union {None}]

TypeOK ==
  /\ tickets \in [Tickets -> TicketPlain \union {None}]
  /\ signed \subseteq Transcripts
  /\ epoch \in [Nodes -> Epochs]
  /\ now \in [Nodes -> 0 .. MaxNow]
  /\ consumed \in [Nodes -> [Tickets -> ConsumedEntry]]
  /\ accepts \in [Nodes -> [Transcripts -> Nat]]
  /\ restarts \in 0 .. MaxRestarts

Init ==
  /\ tickets = [t \in Tickets |-> None]
  /\ signed = {}
  /\ epoch = [n \in Nodes |-> 0]
  /\ now = [n \in Nodes |-> 0]
  /\ consumed = [n \in Nodes |-> [t \in Tickets |-> NoEntry]]
  /\ accepts = [n \in Nodes |-> [q \in Transcripts |-> 0]]
  /\ restarts = 0

Mint(n, t) ==
  /\ tickets[t] = None
  /\ tickets' = [tickets EXCEPT ![t] =
       [epoch |-> epoch[n], node_set |-> NodeSetOf[n], exp |-> now[n] + Ttl]]
  /\ UNCHANGED <<signed, epoch, now, consumed, accepts, restarts>>

\* The client signs a RESUME for a ticket it holds: fresh client_nonce, fresh eph_client.
SignResume(q) ==
  /\ tickets[q.ticket] # None
  /\ q \notin signed
  /\ signed' = signed \union {q}
  /\ UNCHANGED <<tickets, epoch, now, consumed, accepts, restarts>>

-----------------------------------------------------------------------------
\* unwrap_at, in the order of its checks.
Unwrap(n, t) ==
  IF Tfk[tickets[t].epoch] # Tfk[epoch[n]] THEN "BadWrap"
  ELSE IF tickets[t].epoch # epoch[n] THEN "EpochMismatch"
  ELSE IF tickets[t].node_set # NodeSetOf[n] THEN "NodeSetMismatch"
  ELSE IF now[n] >= tickets[t].exp THEN "Expired"
  ELSE "Ok"

UnwrapNak(unwrapped) ==
  IF unwrapped = "EpochMismatch" THEN "NakEpoch"
  ELSE IF unwrapped = "Expired" THEN "NakExpired"
  ELSE "Drop"

\* The ResumeVerdict of handle_resume; pop says whether sig_client verifies for
\* this transcript and this blob.
Verdict(n, q, pop) ==
  LET unwrapped == Unwrap(n, q.ticket)
  IN  IF unwrapped # "Ok" THEN UnwrapNak(unwrapped)
      ELSE IF ~pop THEN "NakBadPop"
      ELSE EntryVerdict(consumed[n][q.ticket], q)

HandleResume(n, q, pop) ==
  /\ tickets[q.ticket] # None
  /\ consumed' = [consumed EXCEPT ![n][q.ticket] = EntryAfter(@, q, Verdict(n, q, pop))]
  /\ accepts' = IF Verdict(n, q, pop) = "Accept" THEN [accepts EXCEPT ![n][q] = @ + 1] ELSE accepts
  /\ UNCHANGED <<tickets, signed, epoch, now, restarts>>

SetNow(n) ==
  /\ now[n] < MaxNow
  /\ now' = [now EXCEPT ![n] = @ + 1]
  /\ UNCHANGED <<tickets, signed, epoch, consumed, accepts, restarts>>

\* A node starts again with TicketFactory::new, in its epoch or a later one: the
\* consumed set is lost.
Restart(n, e) ==
  /\ restarts < MaxRestarts
  /\ e >= epoch[n]
  /\ epoch' = [epoch EXCEPT ![n] = e]
  /\ consumed' = [consumed EXCEPT ![n] = [t \in Tickets |-> NoEntry]]
  /\ accepts' = [accepts EXCEPT ![n] = [q \in Transcripts |-> 0]]
  /\ restarts' = restarts + 1
  /\ UNCHANGED <<tickets, signed, now>>

Next ==
  \/ \E n \in Nodes, t \in Tickets : Mint(n, t)
  \/ \E q \in Transcripts : SignResume(q)
  \/ \E n \in Nodes, q \in signed : HandleResume(n, q, TRUE)
  \/ \E n \in Nodes, q \in Transcripts : HandleResume(n, q, FALSE)
  \/ \E n \in Nodes : SetNow(n)
  \/ \E n \in Nodes, e \in Epochs : Restart(n, e)

Spec == Init /\ [][Next]_vars

-----------------------------------------------------------------------------
AcceptedFor(n, t) == {q \in Transcripts : q.ticket = t /\ accepts[n][q] > 0}

\* 02-protocols 3.6: a repeated frame is never accepted again.  A node remembers
\* only the last transcript of a ticket, so an earlier one is kept out by the
\* budget alone; between its starts a node accepts a transcript at most once.
NeverAcceptedTwice == \A n \in Nodes, q \in Transcripts : accepts[n][q] <= 1

\* Q18: between its starts a node accepts at most MAX_RESUME_ATTEMPTS requests for a ticket.
BudgetHeld ==
  \A n \in Nodes, t \in Tickets : Cardinality(AcceptedFor(n, t)) <= MaxAttempts

\* Nobody but the holder of client_auth spends the budget: while he has signed no
\* more than MAX_RESUME_ATTEMPTS requests for a ticket, each of them that the node has not
\* accepted yet is accepted when it comes, whatever copies and requests with a
\* wrong signature came before.
OwnerKeepsBudget ==
  \A n \in Nodes, q \in signed :
    /\ Unwrap(n, q.ticket) = "Ok"
    /\ accepts[n][q] = 0
    /\ Cardinality({r \in signed : r.ticket = q.ticket}) <= MaxAttempts
    => Verdict(n, q, TRUE) = "Accept"

-----------------------------------------------------------------------------
\* 02-protocols 3.7: a ticket of another epoch is answered with RESUME_NAK epoch.
OtherEpochIsNamed ==
  \A n \in Nodes, q \in signed :
    tickets[q.ticket].epoch # epoch[n] => Verdict(n, q, TRUE) = "NakEpoch"
=============================================================================
