--------------------------- MODULE RecordChannel ---------------------------
(***************************************************************************)
(* Two sessions of one K_session and one direction of records between      *)
(* them.  The network is the set of all records ever sealed: a record may  *)
(* arrive never, once or many times, and in any order.  The owner of the   *)
(* sending session re-keys when it likes, and may crash and come back      *)
(* through resume_as_sender with the counter it saved on every seal.       *)
(***************************************************************************)
EXTENDS FrameSession

CONSTANTS
  K,            \* K_session of both sides
  Flow,         \* the application flow; it is stream 0 of both sides
  MaxRestarts,  \* bound on the crashes of the sender
  Obedient      \* the owner calls begin_rekey whenever needs_rekey says so

VARIABLES
  sender,     \* Session of the client
  saved,      \* next_seq in the client's store, written synchronously after each seal
  receiver,   \* Session of the node
  net,        \* all records sealed so far
  panicked,   \* seal_record hit its expect
  opened,     \* history: how often each seq was opened by the receiver
  born,       \* history: next_seq of the sender when it last came back
  restarts

vars == <<sender, saved, receiver, net, panicked, opened, born, restarts>>

Seqs == 0 .. Limit

Nonces == Seqs
Records == [kind : {"Data", "Rekey"}, seq : Seqs, stream : {0}, data : Nonces \union {None},
            base : Seq({K} \union Nonces)]

TypeOK ==
  /\ net \subseteq Records
  /\ sender.next_seq \in 0 .. Limit + 2
  /\ saved \in 0 .. Limit + 1
  /\ receiver.dedup \in Window
  /\ \A s \in {sender, receiver} : \A i \in DOMAIN s.gen_bases : s.gen_bases[i].at \in Seqs
  /\ panicked \in BOOLEAN /\ restarts \in 0 .. MaxRestarts
  /\ opened \in [Seqs -> Nat] /\ born \in 0 .. Limit + 2

Init ==
  /\ sender = OpenStream(NewSession(K), Flow)
  /\ saved = 0
  /\ receiver = NewSession(K)
  /\ net = {}
  /\ panicked = FALSE
  /\ opened = [q \in Seqs |-> 0]
  /\ born = 0
  /\ restarts = 0

ReceiverOpensStream ==
  /\ receiver' = OpenStream(receiver, Flow)
  /\ UNCHANGED <<sender, saved, net, panicked, opened, born, restarts>>

\* An obedient owner does not seal data while a re-key is due and possible.
SealRecord ==
  /\ ~panicked
  /\ ~(Obedient /\ NeedsRekey(sender) /\ CanRekey(sender))
  /\ sender' = AfterSealRecord(sender)
  /\ panicked' = SealPanics(sender)
  /\ net' = IF SealPanics(sender) THEN net
            ELSE net \union {Sealed(sender, "Data", 0, None)}
  /\ saved' = IF SealPanics(sender) THEN saved ELSE sender'.next_seq
  /\ UNCHANGED <<receiver, opened, born, restarts>>

\* The nonce is fresh randomness; the seq of the REKEY stands for it.
BeginRekey ==
  /\ ~panicked
  /\ Obedient => NeedsRekey(sender)
  /\ CanRekey(sender)
  /\ sender' = AfterRekey(sender, sender.next_seq)
  /\ net' = net \union {Sealed(sender, "Rekey", 0, sender.next_seq)}
  /\ saved' = sender'.next_seq
  /\ UNCHANGED <<receiver, panicked, opened, born, restarts>>

Recv(r) ==
  /\ receiver' = AfterRecv(receiver, r)
  /\ opened' = IF Verdict(receiver, r) = "Opened" THEN [opened EXCEPT ![r.seq] = @ + 1] ELSE opened
  /\ UNCHANGED <<sender, saved, net, panicked, born, restarts>>

\* The owner of the sender crashes and resumes from its store: K_session and
\* next_seq.  A counter of 0 is refused, the owner then needs a new session.
SenderRestarts ==
  /\ restarts < MaxRestarts
  /\ saved > 0
  /\ sender' = ResumeAsSender(K, saved, 0, saved - 1)
  /\ panicked' = FALSE
  /\ born' = saved
  /\ restarts' = restarts + 1
  /\ UNCHANGED <<saved, receiver, net, opened>>

Next ==
  \/ ReceiverOpensStream
  \/ SealRecord
  \/ BeginRekey
  \/ \E r \in net : Recv(r)
  \/ SenderRestarts

Spec == Init /\ [][Next]_vars

-----------------------------------------------------------------------------
\* No K_record and no nonce is used twice (resume_as_sender: "repeated seal under
\* the same (sid, seq)" must not happen): a seq stands for one record, and the
\* counter is ahead of everything on the wire, across re-keys and restarts.
NoSeqReuse ==
  /\ \A r \in net : r.seq < sender.next_seq
  /\ \A r1, r2 \in net : r1.seq = r2.seq => r1 = r2

\* The receiver opens no seq twice, so no record is delivered twice and no REKEY
\* is applied twice.
OpenedAtMostOnce == \A q \in Seqs : opened[q] <= 1

\* F-02 in recv_record: a record that could not be opened (its REKEY is still
\* under way) does not use up its slot; while it is in the window it can still
\* be taken.
SlotsOnlyForOpened ==
  \A r \in net : opened[r.seq] = 0 /\ ~Below(receiver.dedup, r.seq) => IsNew(receiver.dedup, r.seq)

RekeysOpened(from, seq) ==
  \A r \in net : r.kind = "Rekey" /\ from <= r.seq /\ r.seq < seq => opened[r.seq] = 1

\* base_for, the seq split of generations: without a restart a receiver that has
\* opened every REKEY below a record has the key of that record, however many
\* later REKEYs it has opened too.
SeqSplit ==
  restarts = 0 => \A r \in net : RekeysOpened(0, r.seq) => Opens(receiver, r)

-----------------------------------------------------------------------------
\* base_for and Q25 say that after resume_as_sender only records of the previous
\* generation are lost, and that the empty stack does not roll the base back: a
\* record sealed after the restart opens at a receiver that has opened every
\* REKEY sealed since.
RestartKeepsNewRecords ==
  \A r \in net : r.seq >= born /\ RekeysOpened(born, r.seq) => Opens(receiver, r)

\* The expect in seal_record: the session issues seqs inside the policy limit.
SealsInsideLimit == ~panicked
=============================================================================
