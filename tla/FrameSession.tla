---------------------------- MODULE FrameSession ---------------------------
(***************************************************************************)
(* A session of crate frame-session (type Session): the sender's counter,  *)
(* the base of the record keys, the re-key generations, the stream table,  *)
(* the duplicate window, and what RESUME left behind.  One Session is both *)
(* a sender and a receiver; every operation is an operator from the old    *)
(* session to the new one.                                                 *)
(*                                                                         *)
(* Keys.  A base is the sequence of what it was derived from: a K_session, *)
(* then the nonces of the re-keys.  K_record[seq] of a base opens a record *)
(* exactly if it was sealed under the same base and seq, so a record       *)
(* carries its base where the code has a ciphertext.                       *)
(* ratchet_restarts is a diagnostic counter nothing reads: left out.       *)
(***************************************************************************)
EXTENDS DedupWindow, Sequences, FiniteSetsExt

CONSTANTS
  Limit,   \* REKEY_POLICY_LIMIT: 2^20 in the code
  None     \* no overlap window, no ack, no nak

ASSUME LimitAssumption == Limit \in Nat \ {0} /\ Limit < U64Max

\* REKEY_TRIGGER_BYTES, counted in records.
Trigger == (Limit \div 4) * 3

\* OverlapWindow::new; the timer is in the caller's hands.
NewOverlap == [duplicated |-> 0, closed |-> FALSE, exhausted |-> FALSE]

NewSession(k_session) ==
  [ chain_base |-> <<k_session>>, next_seq |-> 0, gen_bases |-> <<>>, streams |-> <<>>,
    dedup |-> NewWindow(0, 0), overlap |-> None, ack |-> None, nak |-> None ]

\* The last issued seq, and 0 if there is none.
LastSeq(s) == SatSub(s.next_seq, 1)

OpenStream(s, flow) ==
  IF \E i \in DOMAIN s.streams : s.streams[i] = flow THEN s
  ELSE [s EXCEPT !.streams = Append(@, flow)]

KnowsStream(s, id) == id + 1 \in DOMAIN s.streams

\* Mutated form of BaseFor: the newest generation opens everything, also the
\* records that were in flight when the REKEY arrived.
NewestBase(s, seq) ==
  IF s.gen_bases = <<>> THEN s.chain_base ELSE s.gen_bases[Len(s.gen_bases)].base

\* The generation of a seq: the newest re-key strictly below it.
BaseFor(s, seq) ==
  LET older == {i \in DOMAIN s.gen_bases : seq > s.gen_bases[i].at}
  IN  IF older = {} THEN s.chain_base ELSE s.gen_bases[Max(older)].base

\* record_key_for refuses a seq above REKEY_POLICY_LIMIT.
TooFar(seq) == seq > Limit

\* derive_rekey_generation: both sides get the same base from the old one and the nonce.
Generation(base, nonce) == Append(base, nonce)

PushGeneration(s, seq, base) == [s EXCEPT !.gen_bases = Append(@, [at |-> seq, base |-> base])]

Sealed(s, kind, stream, data) ==
  [ kind |-> kind, seq |-> s.next_seq, stream |-> stream, data |-> data,
    base |-> BaseFor(s, s.next_seq) ]

TakeSeq(s) == [s EXCEPT !.next_seq = SatInc(@)]

\* seal_record returns Sealed(s, "Data", ...) and leaves this session behind; it
\* panics, the seq already taken, when that seq is TooFar.
AfterSealRecord(s) == TakeSeq(s)
SealPanics(s) == TooFar(s.next_seq)

\* Mutated form of AfterRekey: the REKEY does not take a seq of its own.
RekeyWithoutSeq(s, nonce) ==
  PushGeneration(s, s.next_seq, Generation(BaseFor(s, s.next_seq), nonce))

\* begin_rekey: refused at the limit, otherwise a REKEY sealed under the old base.
CanRekey(s) == s.next_seq < Limit
AfterRekey(s, nonce) ==
  PushGeneration(TakeSeq(s), s.next_seq, Generation(BaseFor(s, s.next_seq), nonce))

NeedsRekey(s) ==
  LET last_rekey == IF s.gen_bases = <<>> THEN 0 ELSE s.gen_bases[Len(s.gen_bases)].at
  IN  SatSub(s.next_seq, last_rekey) > Trigger

\* What recv_record makes of a record, in the order of its checks.
Opens(s, r) == ~TooFar(r.seq) /\ r.base = BaseFor(s, r.seq)

Verdict(s, r) ==
  IF r.kind = "Data" /\ ~KnowsStream(s, r.stream) THEN "StreamUnknown"
  ELSE IF ~IsNew(s.dedup, r.seq) THEN "Dropped"
  ELSE IF ~Opens(s, r) THEN "NotOpened"
  ELSE "Opened"

\* Mutated forms of AfterRecv: the slot is taken before the record is opened; a
\* REKEY is handled before the window sees it.
RecvTakesSlotFirst(s, r) ==
  LET t == IF Verdict(s, r) \in {"NotOpened", "Opened"}
           THEN [s EXCEPT !.dedup = Accept(@, r.seq)] ELSE s
  IN  IF Verdict(s, r) = "Opened" /\ r.kind = "Rekey"
      THEN PushGeneration(t, r.seq, Generation(r.base, r.data)) ELSE t

RecvRekeyUnmarked(s, r) ==
  IF Verdict(s, r) # "Opened" THEN s
  ELSE IF r.kind = "Rekey" THEN PushGeneration(s, r.seq, Generation(r.base, r.data))
  ELSE [s EXCEPT !.dedup = Accept(@, r.seq)]

\* recv_record: only a record that opened takes its slot, and a REKEY then pushes its generation.
AfterRecv(s, r) ==
  LET t == [s EXCEPT !.dedup = Accept(@, r.seq)]
  IN  IF Verdict(s, r) # "Opened" THEN s
      ELSE IF r.kind = "Rekey" THEN PushGeneration(t, r.seq, Generation(r.base, r.data))
      ELSE t

\* begin_overlap, and duplicate: one record more in the budget, unless the window
\* is absent, was exhausted before, is late (T_morph is over), or is full.
BeginOverlap(s) == [s EXCEPT !.overlap = NewOverlap]

MayDuplicate(s, late) ==
  s.overlap # None /\ ~s.overlap.exhausted /\ ~late /\ s.overlap.duplicated < W

AfterDuplicate(s, late) ==
  IF s.overlap = None THEN s
  ELSE IF MayDuplicate(s, late) THEN [s EXCEPT !.overlap.duplicated = @ + 1]
  ELSE [s EXCEPT !.overlap.exhausted = TRUE]

\* on_resume_ack: the window is built anew from the ACK, the continuity point never
\* goes back, and the overlap closes.
OnResumeAck(s, continuity_point, window_lo) ==
  LET confirmed == Max({continuity_point, s.dedup.hi})
      t == [s EXCEPT !.dedup = NewWindow(window_lo, confirmed), !.ack = confirmed, !.nak = None]
  IN  IF s.overlap = None THEN t ELSE [t EXCEPT !.overlap.closed = TRUE]

OnResumeNak(s, nak) == [s EXCEPT !.nak = nak]

\* Mutated form of RatchetFrom: the generations of the old base stay.
RatchetKeepsGenerations(s, k_session) == [s EXCEPT !.chain_base = <<k_session>>]

\* ratchet_from(K_session'): new base, no generations, the counter goes on.
RatchetFrom(s, k_session) == [s EXCEPT !.chain_base = <<k_session>>, !.gen_bases = <<>>]

\* restore_dedup_from_signed_last_seq
RestoreDedup(s, floor, last_seq) == [s EXCEPT !.dedup = RestoreFromSignedLastSeq(floor, last_seq)]

\* Mutated form of ResumeAsSender: the sender continues at the last issued seq.
ResumeAtLastSeq(k_session, next_seq, floor, resume_from) ==
  [RestoreDedup(NewSession(k_session), floor, resume_from) EXCEPT !.next_seq = next_seq - 1]

\* resume_as_sender, for the next_seq > 0 it asserts: counter and window come
\* back, the generations and the stream table do not.
ResumeAsSender(k_session, next_seq, floor, resume_from) ==
  [RestoreDedup(NewSession(k_session), floor, resume_from) EXCEPT !.next_seq = next_seq]
=============================================================================
