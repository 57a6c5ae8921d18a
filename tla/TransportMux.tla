---------------------------- MODULE TransportMux ----------------------------
(***************************************************************************)
(* The cover bindings of the client: crate transport-mux with its bounded  *)
(* outbox, its one slot for asynchronous failures and its bindings Quic    *)
(* and Mem, and the bindings of the covers cover-ss2022, cover-masque and  *)
(* cover-reality, which have the same parts.                               *)
(*                                                                         *)
(* A frame is the record's seq and the frame's size; the layout of frames  *)
(* is in CoverFrames.  Sizes are in units of which the prefix of a frame,  *)
(* its capsule head or its AEAD envelope takes one.                        *)
(***************************************************************************)
EXTENDS Naturals, Sequences, FiniteSets

CONSTANTS
  OutboxCap,    \* cap_bytes; DEFAULT_OUTBOX_BYTES in the code
  MaxUdp,       \* MAX_UDP_PAYLOAD of the masque binding
  PadBudget,    \* padding_budget of the padded binding
  LossEvery,    \* loss_every of the mock binding; 0: no loss
  NoFailure     \* the empty slot

ASSUME MuxAssumption == OutboxCap \in Nat /\ MaxUdp \in Nat /\ PadBudget \in Nat /\ LossEvery \in Nat

Kinds == {"Quic", "Mem", "SsPadded", "Masque", "Reality"}
Failures == {"Closed", "PeerUnresponsive", "Probed"}

Severity(f) ==
  CASE f = "Closed" -> 2 [] f = "PeerUnresponsive" -> 1 [] f = "Probed" -> 0

\* Mutated form of NoteInto: the last event wins, whatever it is.
NoteLast(f, slot) == f

\* BindingFailure::note_into: the slot keeps the most severe event.
NoteInto(f, slot) ==
  IF slot # NoFailure /\ Severity(f) < Severity(slot) THEN slot ELSE f

-----------------------------------------------------------------------------
EmptyOutbox == [frames |-> <<>>, bytes |-> 0]

Fits(box, frame) == box.bytes + frame.size <= OutboxCap

\* Mutated form of Push: the frame goes to the front.
PushInFront(box, frame) == [frames |-> <<frame>> \o box.frames, bytes |-> box.bytes + frame.size]

\* Outbox::push of a frame that fits; otherwise it is WouldBlock.
Push(box, frame) == [frames |-> Append(box.frames, frame), bytes |-> box.bytes + frame.size]

\* Mutated form of Drained: the frames go, their bytes stay counted.
DrainedUncounted(box) == [box EXCEPT !.frames = <<>>]

\* Outbox::drain; the caller has the frames.
Drained(box) == [frames |-> <<>>, bytes |-> 0]

-----------------------------------------------------------------------------
NewBinding(kind) ==
  [kind |-> kind, outbox |-> EmptyOutbox, failure |-> NoFailure, closed |-> FALSE,
   closed_reported |-> FALSE, offered |-> 0]

Note(b, f) == [b EXCEPT !.failure = NoteInto(f, @)]

\* send on a closed binding: TransportDown.  The Reality binding notes the end of
\* its channel once, the others on every send.
NotesClosed(b) == b.kind # "Reality" \/ ~b.closed_reported
SendClosed(b) ==
  IF NotesClosed(b) THEN [Note(b, "Closed") EXCEPT !.closed_reported = TRUE] ELSE b

\* The mock loses every LossEvery-th record it is offered, after an Ok.
LosesNext(b) == b.kind = "Mem" /\ LossEvery # 0 /\ (b.offered + 1) % LossEvery = 0

\* The frame of a record for this binding; the padded one draws its padding.
Frame(seq, len, pad) == [seq |-> seq, size |-> 1 + len + pad]
Paddings(b) == IF b.kind = "SsPadded" THEN 0 .. PadBudget ELSE {0}
TooLong(b, len) == b.kind = "Masque" /\ len > MaxUdp

\* CoverBinding::send: what it answers, and the binding after it.
Answer(b, len, frame) ==
  IF b.closed THEN "TransportDown"
  ELSE IF TooLong(b, len) THEN "Unsupported"
  ELSE IF LosesNext(b) \/ Fits(b.outbox, frame) THEN "Ok"
  ELSE "WouldBlock"

Queues(b, len, frame) == Answer(b, len, frame) = "Ok" /\ ~LosesNext(b)

AfterSend(b, len, frame) ==
  LET counted == IF b.kind = "Mem" THEN [b EXCEPT !.offered = @ + 1] ELSE b IN
  CASE Answer(b, len, frame) = "TransportDown" -> SendClosed(b)
    [] Queues(b, len, frame) -> [counted EXCEPT !.outbox = Push(@, frame)]
    [] OTHER -> counted

\* Mutated form of Polled: the connection is not looked at.
PolledSlotOnly(b) == b

\* on_failure: the Quic binding looks at its connection first, on every poll; the
\* slot is taken.
Polled(b) == IF b.kind = "Quic" /\ b.closed THEN Note(b, "Closed") ELSE b
=============================================================================
