------------------------- MODULE SessionStoreProofs -------------------------
(***************************************************************************)
(* Proofs about SessionStore, for any number of sessions, records and      *)
(* faults.  What keeps a nonce from being used twice is not one entry of   *)
(* the backend but the pair of two: the stored key and the stored counter  *)
(* may come from different sessions after a save that stopped half-way,    *)
(* and the invariant says that whatever pair lies there, no record of that *)
(* key left at or above that counter.  The same is said of the running     *)
(* session, of its own counter and of the stored one, since the next save  *)
(* puts its key beside it.                                                 *)
(***************************************************************************)
EXTENDS SessionStore, TLAPS

\* The calls save and wipe may still have to make: a rest of the order of both.
Rests == {SaveOrder, <<"static", "k_session", "descriptor">>,
          <<"k_session", "descriptor">>, <<"descriptor">>}

\* The keys a rest names: the last ones of the order.
Left(todo) ==
  IF Len(todo) = 4 THEN Keys
  ELSE IF Len(todo) = 3 THEN Keys \ {"identity"}
  ELSE IF Len(todo) = 2 THEN {"k_session", "descriptor"}
  ELSE {"descriptor"}

Saving == job # None /\ job.op = "save"
Wiping == job # None /\ job.op = "wipe"

\* While save runs its state is the running one, and what it need not put any more
\* is stored; while wipe runs what it need not delete any more is gone.
JobOfOwner ==
  /\ job # None => job.todo \in Rests /\ job.op \in {"save", "wipe"}
  /\ Saving => /\ running # None /\ job.state = running
               /\ \A k \in Keys \ Left(job.todo) : backend[k] = EntryOf(running, k)
  /\ Wiping => /\ running = None /\ pending = None
               /\ \A k \in Keys \ Left(job.todo) : backend[k] = None

\* No record of session k left with the number seq or a later one.
Unused(k, seq) == \A q \in 0 .. MaxSeq : seq <= q => wire[<<k, q>>] = 0

\* Keys that no session has yet are nowhere.
NewKeysAreNew ==
  /\ \A k \in Sids : k > sids => Unused(k, 0)
  /\ running # None => running.k_session <= sids
  /\ backend["k_session"] \in Sids => backend["k_session"] <= sids

\* Key and counter in the store, whether they belong together or not.
StoredAhead ==
  backend["k_session"] \in Sids /\ backend["descriptor"] \in Descriptors
    => Unused(backend["k_session"], backend["descriptor"].next_seq)

\* The running key with its own counter, and beside the stored counter.
RunningAhead ==
  running # None =>
    /\ Unused(running.k_session, running.next_seq)
    /\ backend["descriptor"] \in Descriptors
         => Unused(running.k_session, backend["descriptor"].next_seq)

\* The record that waits for its save is the last one sealed, and has not left.
PendingIsLast ==
  pending # None =>
    /\ Saving
    /\ running.next_seq > 0 /\ pending = <<running.k_session, running.next_seq - 1>>
    /\ wire[pending] = 0

\* Erased keys are neither stored nor used.
ErasedIsGone ==
  /\ erased \subseteq 1 .. sids
  /\ running # None => running.k_session \notin erased
  /\ backend["k_session"] \in Sids => backend["k_session"] \notin erased

\* Between operations, and unless one stopped half-way, the store is empty or holds
\* one saved state, damaged here or there.
StoredWhole ==
  job = None /\ ~broken =>
    \/ \A k \in Keys : backend[k] = None
    \/ \E s \in saved : \A k \in Keys : backend[k] \in {EntryOf(s, k), Damaged}

StoreInv ==
  /\ TypeOK
  /\ JobOfOwner
  /\ NewKeysAreNew
  /\ StoredAhead
  /\ RunningAhead
  /\ PendingIsLast
  /\ ErasedIsGone
  /\ StoredWhole
  /\ NoSeqReuse

-----------------------------------------------------------------------------
\* The cases of Left.
LEMMA LeftByLength ==
  ASSUME NEW t
  PROVE  /\ Len(t) = 4 => Left(t) = Keys
         /\ Len(t) = 3 => Left(t) = Keys \ {"identity"}
         /\ Len(t) = 2 => Left(t) = {"k_session", "descriptor"}
         /\ Len(t) = 1 => Left(t) = {"descriptor"}
<1> DEFINE n == Len(t)
<1>1. Left(t) = IF n = 4 THEN Keys ELSE IF n = 3 THEN Keys \ {"identity"}
                ELSE IF n = 2 THEN {"k_session", "descriptor"} ELSE {"descriptor"}
  BY DEF Left
<1> HIDE DEF n
<1>2. /\ n = 4 => Left(t) = Keys
      /\ n = 3 => Left(t) = Keys \ {"identity"}
      /\ n = 2 => Left(t) = {"k_session", "descriptor"}
      /\ n = 1 => Left(t) = {"descriptor"}
  BY <1>1
<1> QED BY <1>2 DEF n

\* Taking the head off a rest leaves a rest, which names one key less.
LEMMA RestFacts ==
  ASSUME NEW t \in Rests
  PROVE  /\ t \in Seq(Keys) /\ Head(t) \in Left(t) /\ Left(t) \subseteq Keys
         /\ Len(t) > 1 => Tail(t) \in Rests /\ Left(Tail(t)) = Left(t) \ {Head(t)}
         /\ ~(Len(t) > 1) => Left(t) = {Head(t)} /\ Head(t) = "descriptor"
<1>1. CASE t = SaveOrder
  <2>1. /\ Head(t) = "identity" /\ Tail(t) = <<"static", "k_session", "descriptor">>
        /\ Len(t) = 4 /\ Len(Tail(t)) = 3
    BY <1>1 DEF SaveOrder
  <2>2. Left(t) = Keys /\ Left(Tail(t)) = Keys \ {"identity"}
    BY <2>1, LeftByLength
  <2>3. t \in Seq(Keys)
    BY <1>1 DEF SaveOrder, Keys
  <2> QED BY <2>1, <2>2, <2>3 DEF Rests, Keys
<1>2. CASE t = <<"static", "k_session", "descriptor">>
  <2>1. /\ Head(t) = "static" /\ Tail(t) = <<"k_session", "descriptor">>
        /\ Len(t) = 3 /\ Len(Tail(t)) = 2
    BY <1>2
  <2>2. Left(t) = Keys \ {"identity"}
    BY <2>1, LeftByLength
  <2>4. Left(Tail(t)) = {"k_session", "descriptor"}
    BY <2>1, LeftByLength
  <2>3. t \in Seq(Keys)
    BY <1>2 DEF Keys
  <2> QED BY <2>1, <2>2, <2>3, <2>4 DEF Rests, Keys
<1>3. CASE t = <<"k_session", "descriptor">>
  <2>1. /\ Head(t) = "k_session" /\ Tail(t) = <<"descriptor">>
        /\ Len(t) = 2 /\ Len(Tail(t)) = 1
    BY <1>3
  <2>2. Left(t) = {"k_session", "descriptor"}
    BY <2>1, LeftByLength
  <2>4. Left(Tail(t)) = {"descriptor"}
    BY <2>1, LeftByLength
  <2>3. t \in Seq(Keys)
    BY <1>3 DEF Keys
  <2> QED BY <2>1, <2>2, <2>3, <2>4 DEF Rests, Keys
<1>4. CASE t = <<"descriptor">>
  <2>1. Head(t) = "descriptor" /\ Len(t) = 1
    BY <1>4
  <2>2. Left(t) = {"descriptor"}
    BY <2>1, LeftByLength
  <2>3. t \in Seq(Keys)
    BY <1>4 DEF Keys
  <2> QED BY <2>1, <2>2, <2>3 DEF Keys
<1> QED BY <1>1, <1>2, <1>3, <1>4 DEF Rests

-----------------------------------------------------------------------------
\* The store starts empty.
LEMMA InitStoreInv == Init => StoreInv
<1> SUFFICES ASSUME Init PROVE StoreInv
  OBVIOUS
<1>1. TypeOK
  <2>1. /\ DOMAIN backend = Keys
        /\ \A k \in Keys : backend[k] = None
    BY DEF Init
  <2>2. wire \in [Records -> Nat]
    BY DEF Init
  <2>3. sids \in 0 .. MaxSid /\ faults \in 0 .. MaxFaults
    BY StoreAssumption DEF Init
  <2>4. /\ job = None /\ cached = None /\ tickets = {} /\ running = None /\ pending = None
        /\ saved = {} /\ erased = {} /\ broken \in BOOLEAN
    BY DEF Init
  <2> QED BY <2>1, <2>2, <2>3, <2>4 DEF TypeOK, Keys
<1>2. NewKeysAreNew
  BY StoreAssumption, MarkersAssumption DEF Init, NewKeysAreNew, Unused, Records, Sids, Keys
<1>3. StoredAhead /\ RunningAhead /\ PendingIsLast
  BY MarkersAssumption DEF Init, StoredAhead, RunningAhead, PendingIsLast, Keys
<1>4. ErasedIsGone
  BY MarkersAssumption DEF Init, ErasedIsGone, Keys
<1>5. StoredWhole /\ JobOfOwner /\ NoSeqReuse
  BY DEF Init, StoredWhole, JobOfOwner, Saving, Wiping, NoSeqReuse
<1> QED BY <1>1, <1>2, <1>3, <1>4, <1>5 DEF StoreInv

\* The state a handshake brings, and its save.
LEMMA SaveJobFacts ==
  ASSUME NEW s \in States
  PROVE  /\ SaveJob(s) \in Jobs /\ SaveJob(s) # None
         /\ SaveJob(s).op = "save" /\ SaveJob(s).state = s
         /\ SaveJob(s).todo \in Rests /\ Left(SaveJob(s).todo) = Keys
<1>1. SaveOrder \in Rests /\ Len(SaveOrder) = 4
  BY DEF Rests, SaveOrder
<1>2. SaveOrder \in Seq(Keys) /\ Left(SaveOrder) = Keys
  BY <1>1, RestFacts, LeftByLength
<1>3. SaveJob(s) \in Jobs
  BY <1>2 DEF SaveJob, Jobs
<1> QED BY <1>1, <1>2, <1>3, MarkersAssumption DEF SaveJob

\* A new session: its key is one no record, entry or wipe has seen.
LEMMA ConnectKeepsInv ==
  ASSUME StoreInv, NEW c \in Clients, Connect(c)
  PROVE  StoreInv'
<1> DEFINE s == NewState(c)
<1>1. /\ s \in States /\ s.k_session = sids + 1 /\ s.next_seq = 0 /\ s # None
      /\ sids \in 0 .. MaxSid /\ sids' = sids + 1 /\ sids + 1 \in Sids
  BY StoreAssumption, MarkersAssumption DEF StoreInv, TypeOK, Connect, NewState, States, Sids
<1>2. job' = None \/ job' = SaveJob(s)
  BY DEF Connect
<1>3. SaveJob(s) \in Jobs /\ SaveJob(s) # None /\ SaveJob(s).op = "save"
      /\ SaveJob(s).state = s /\ SaveJob(s).todo \in Rests /\ Left(SaveJob(s).todo) = Keys
  BY <1>1, SaveJobFacts
<1>4. running' = s /\ pending = None
  BY DEF Connect, StoreInv, PendingIsLast, Saving
<1> HIDE DEF s
<1>5. TypeOK'
  <2>1. job' \in Jobs \union {None} /\ running' \in States \union {None}
    BY <1>1, <1>2, <1>3, <1>4
  <2>2. sids' \in 0 .. MaxSid
    BY <1>1, StoreAssumption DEF Sids
  <2> QED BY <2>1, <2>2 DEF StoreInv, TypeOK, Connect
<1>6. JobOfOwner'
  BY <1>1, <1>2, <1>3, <1>4 DEF JobOfOwner, Saving, Wiping, Connect
<1>7. NewKeysAreNew'
  BY <1>1, <1>4 DEF StoreInv, TypeOK, NewKeysAreNew, Unused, Connect, Sids
<1>8. StoredAhead'
  BY DEF StoreInv, StoredAhead, Unused, Connect
<1>9. RunningAhead'
  <2>1. \A q \in 0 .. MaxSeq : wire[<<sids + 1, q>>] = 0
    BY <1>1 DEF StoreInv, NewKeysAreNew, Unused
  <2> QED BY <1>1, <1>4, <2>1 DEF RunningAhead, Unused, Connect
<1>10. PendingIsLast'
  BY <1>4 DEF PendingIsLast, Connect
<1>11. ErasedIsGone'
  BY <1>1, <1>4 DEF StoreInv, ErasedIsGone, Connect, Sids
<1>12. StoredWhole'
  BY <1>3 DEF StoreInv, StoredWhole, Connect, EntryOf
<1>13. NoSeqReuse'
  BY DEF StoreInv, NoSeqReuse, Connect
<1> QED BY <1>5, <1>6, <1>7, <1>8, <1>9, <1>10, <1>11, <1>12, <1>13 DEF StoreInv

\* A ticket changes nothing the invariant speaks of.
LEMMA StoreTicketKeepsInv ==
  ASSUME StoreInv, NEW kept \in BOOLEAN, StoreTicket(kept)
  PROVE  StoreInv'
<1>1. /\ running \in States /\ running' \in States /\ running' # None
      /\ running'.k_session = running.k_session /\ running'.next_seq = running.next_seq
      /\ running.sid \in Sids
  BY MarkersAssumption DEF StoreInv, TypeOK, StoreTicket, States
<1>2. job = None /\ job' = None /\ pending = None /\ pending' = None
  BY DEF StoreInv, PendingIsLast, Saving, StoreTicket
<1>3. TypeOK'
  BY <1>1 DEF StoreInv, TypeOK, StoreTicket
<1>4. JobOfOwner' /\ PendingIsLast'
  BY <1>2 DEF JobOfOwner, Saving, Wiping, PendingIsLast
<1>5. NewKeysAreNew' /\ ErasedIsGone'
  BY <1>1 DEF StoreInv, NewKeysAreNew, ErasedIsGone, Unused, StoreTicket
<1>6. StoredAhead' /\ RunningAhead'
  BY <1>1 DEF StoreInv, StoredAhead, RunningAhead, Unused, StoreTicket
<1>7. StoredWhole' /\ NoSeqReuse'
  BY DEF StoreInv, StoredWhole, NoSeqReuse, StoreTicket, EntryOf
<1> QED BY <1>3, <1>4, <1>5, <1>6, <1>7 DEF StoreInv

\* Sealing takes a number no record left with, and sets the counter past it.
LEMMA SealKeepsInv ==
  ASSUME StoreInv, Seal
  PROVE  StoreInv'
<1> DEFINE s == [running EXCEPT !.next_seq = @ + 1]
<1>1. running \in States /\ running # None /\ job = None /\ running.next_seq < MaxSeq
  BY DEF StoreInv, TypeOK, Seal
<1>2. /\ s \in States /\ s.k_session = running.k_session /\ s.next_seq = running.next_seq + 1
      /\ running.k_session \in Sids /\ running.next_seq \in 0 .. MaxSeq
      /\ s # None
  BY <1>1, StoreAssumption, MarkersAssumption DEF States
<1>3. /\ running' = s /\ job' = SaveJob(s)
      /\ pending' = <<running.k_session, running.next_seq>>
      /\ UNCHANGED <<backend, sids, wire, saved, erased, broken>>
  BY DEF Seal
<1>4. SaveJob(s) \in Jobs /\ SaveJob(s) # None /\ SaveJob(s).op = "save"
      /\ SaveJob(s).state = s /\ SaveJob(s).todo \in Rests /\ Left(SaveJob(s).todo) = Keys
  BY <1>2, SaveJobFacts
<1> HIDE DEF s
<1>5. TypeOK'
  <2>1. pending' \in Records
    BY <1>2, <1>3 DEF Records
  <2> QED BY <1>2, <1>3, <1>4, <2>1 DEF StoreInv, TypeOK, Seal
<1>6. JobOfOwner'
  BY <1>2, <1>3, <1>4 DEF JobOfOwner, Saving, Wiping
<1>7. NewKeysAreNew' /\ ErasedIsGone'
  BY <1>1, <1>2, <1>3 DEF StoreInv, NewKeysAreNew, ErasedIsGone, Unused
<1>8. StoredAhead'
  BY <1>3 DEF StoreInv, StoredAhead, Unused
<1>9. RunningAhead'
  BY <1>1, <1>2, <1>3, StoreAssumption DEF StoreInv, RunningAhead, Unused
<1>10. PendingIsLast'
  <2>1. wire[<<running.k_session, running.next_seq>>] = 0
    BY <1>1, <1>2 DEF StoreInv, RunningAhead, Unused
  <2> QED BY <1>2, <1>3, <1>4, <2>1 DEF PendingIsLast, Saving
<1>11. StoredWhole' /\ NoSeqReuse'
  BY <1>3, <1>4 DEF StoreInv, StoredWhole, NoSeqReuse
<1> QED BY <1>5, <1>6, <1>7, <1>8, <1>9, <1>10, <1>11 DEF StoreInv

\* wipe begins: the session is gone from memory, and nothing is deleted yet.
LEMMA WipeKeepsInv ==
  ASSUME StoreInv, Wipe
  PROVE  StoreInv'
<1> DEFINE j == [op |-> "wipe", todo |-> WipeOrder, state |-> None]
<1>1. WipeOrder \in Rests /\ Len(WipeOrder) = 4
  BY DEF Rests, SaveOrder, WipeOrder
<1>2. WipeOrder \in Seq(Keys) /\ Left(WipeOrder) = Keys
  BY <1>1, RestFacts, LeftByLength
<1>3. j \in Jobs
  BY <1>2 DEF Jobs
<1>4. j # None /\ j.op = "wipe" /\ j.todo = WipeOrder
  BY <1>3, MarkersAssumption
<1>5. job' = j /\ running' = None /\ pending = None /\ pending' = None
      /\ UNCHANGED <<backend, sids, wire, saved, erased, broken>>
  BY DEF Wipe, StoreInv, PendingIsLast, Saving
<1> HIDE DEF j
<1>6. TypeOK'
  BY <1>3, <1>5 DEF StoreInv, TypeOK, Wipe
<1>7. JobOfOwner'
  BY <1>1, <1>2, <1>4, <1>5 DEF JobOfOwner, Saving, Wiping
<1>8. NewKeysAreNew' /\ ErasedIsGone'
  BY <1>5 DEF StoreInv, NewKeysAreNew, ErasedIsGone, Unused
<1>9. StoredAhead' /\ RunningAhead' /\ PendingIsLast'
  BY <1>5 DEF StoreInv, StoredAhead, RunningAhead, PendingIsLast, Unused
<1>10. StoredWhole' /\ NoSeqReuse'
  BY <1>4, <1>5 DEF StoreInv, StoredWhole, NoSeqReuse
<1> QED BY <1>6, <1>7, <1>8, <1>9, <1>10 DEF StoreInv

\* A call that fails ends the operation; the record that waited is dropped.
LEMMA CallFailsKeepsInv ==
  ASSUME StoreInv, CallFails
  PROVE  StoreInv'
<1>1. /\ job' = None /\ pending' = None /\ broken' = TRUE
      /\ UNCHANGED <<backend, running, sids, wire, saved, erased>>
  BY DEF CallFails
<1>2. TypeOK'
  BY <1>1, StoreAssumption DEF StoreInv, TypeOK, CallFails
<1>3. JobOfOwner' /\ PendingIsLast' /\ StoredWhole'
  BY <1>1 DEF JobOfOwner, PendingIsLast, StoredWhole, Saving, Wiping
<1>4. NewKeysAreNew' /\ ErasedIsGone' /\ NoSeqReuse'
  BY <1>1 DEF StoreInv, NewKeysAreNew, ErasedIsGone, NoSeqReuse, Unused
<1>5. StoredAhead' /\ RunningAhead'
  BY <1>1 DEF StoreInv, StoredAhead, RunningAhead, Unused
<1> QED BY <1>2, <1>3, <1>4, <1>5 DEF StoreInv

\* A crash leaves the backend and what is on the wire.
LEMMA CrashKeepsInv ==
  ASSUME StoreInv, Crash
  PROVE  StoreInv'
<1>1. /\ job' = None /\ pending' = None /\ running' = None
      /\ broken' = (broken \/ job # None)
      /\ UNCHANGED <<backend, sids, wire, saved, erased>>
  BY DEF Crash
<1>2. TypeOK'
  BY <1>1, StoreAssumption DEF StoreInv, TypeOK, Crash
<1>3. JobOfOwner' /\ PendingIsLast' /\ RunningAhead'
  BY <1>1 DEF JobOfOwner, PendingIsLast, RunningAhead, Saving, Wiping
<1>4. NewKeysAreNew' /\ ErasedIsGone' /\ NoSeqReuse' /\ StoredAhead'
  BY <1>1 DEF StoreInv, NewKeysAreNew, ErasedIsGone, NoSeqReuse, StoredAhead, Unused
<1>5. StoredWhole'
  BY <1>1 DEF StoreInv, StoredWhole
<1> QED BY <1>2, <1>3, <1>4, <1>5 DEF StoreInv

\* A damaged entry is neither a key nor a counter.
LEMMA DamageKeepsInv ==
  ASSUME StoreInv, NEW k \in Keys, Damage(k)
  PROVE  StoreInv'
<1>1. /\ job = None /\ job' = None /\ backend[k] # None
      /\ backend' = [backend EXCEPT ![k] = Damaged]
      /\ UNCHANGED <<running, pending, sids, wire, saved, erased, broken>>
  BY DEF Damage
<1>2. DOMAIN backend = Keys /\ DOMAIN backend' = Keys
      /\ \A x \in Keys : backend'[x] = backend[x] \/ backend'[x] = Damaged
  BY <1>1 DEF StoreInv, TypeOK
<1>3. Damaged \notin Sids /\ Damaged \notin Descriptors
  BY MarkersAssumption
<1>4. TypeOK'
  BY <1>1, <1>2, StoreAssumption DEF StoreInv, TypeOK, Damage, Keys
<1>5. JobOfOwner' /\ PendingIsLast' /\ NoSeqReuse'
  BY <1>1 DEF StoreInv, JobOfOwner, PendingIsLast, NoSeqReuse, Saving, Wiping
<1>6. NewKeysAreNew' /\ ErasedIsGone'
  BY <1>1, <1>2, <1>3 DEF StoreInv, NewKeysAreNew, ErasedIsGone, Unused, Keys
<1>7. StoredAhead' /\ RunningAhead'
  BY <1>1, <1>2, <1>3 DEF StoreInv, StoredAhead, RunningAhead, Unused, Keys
<1>8. StoredWhole'
  BY <1>1, <1>2 DEF StoreInv, StoredWhole
<1> QED BY <1>4, <1>5, <1>6, <1>7, <1>8 DEF StoreInv

\* A process resumes under whatever key and counter the store holds.
LEMMA ResumeKeepsInv ==
  ASSUME StoreInv, Resume
  PROVE  StoreInv'
<1> DEFINE s == Load(backend).state
           found == Load(backend).verdict = "Session" /\ s.next_seq > 0
<1>1. /\ job = None /\ job' = None /\ running = None /\ pending = None /\ pending' = None
      /\ running' = IF found THEN s ELSE None
      /\ UNCHANGED <<backend, cached, tickets, sids, faults, wire, saved, erased, broken>>
  BY DEF StoreInv, Resume, PendingIsLast, Saving
<1>2. CASE found
  <2>1. /\ Loadable(backend)
        /\ s = [identity |-> backend["identity"], static |-> backend["static"],
                k_session |-> backend["k_session"], sid |-> backend["descriptor"].sid,
                next_seq |-> backend["descriptor"].next_seq, tickets |-> {}]
    BY <1>2 DEF Load
  <2>2. /\ backend["identity"] \in Clients /\ backend["static"] \in Clients
        /\ backend["k_session"] \in Sids /\ backend["descriptor"] \in Descriptors
    BY <2>1 DEF StoreInv, TypeOK, Loadable, Keys
  <2>3. /\ s \in States /\ s.k_session = backend["k_session"]
        /\ s.next_seq = backend["descriptor"].next_seq
    BY <2>1, <2>2 DEF States, Descriptors
  <2>4. running' = s /\ s # None
    BY <1>1, <1>2, <2>3, MarkersAssumption
  <2> HIDE DEF s
  <2>5. TypeOK'
    BY <1>1, <2>3, <2>4 DEF StoreInv, TypeOK
  <2>6. JobOfOwner' /\ PendingIsLast'
    BY <1>1 DEF JobOfOwner, PendingIsLast, Saving, Wiping
  <2>7. NewKeysAreNew' /\ ErasedIsGone'
    BY <1>1, <2>2, <2>3, <2>4 DEF StoreInv, NewKeysAreNew, ErasedIsGone, Unused
  <2>8. StoredAhead' /\ RunningAhead'
    BY <1>1, <2>2, <2>3, <2>4 DEF StoreInv, StoredAhead, RunningAhead, Unused
  <2>9. StoredWhole' /\ NoSeqReuse'
    BY <1>1 DEF StoreInv, StoredWhole, NoSeqReuse
  <2> QED BY <2>5, <2>6, <2>7, <2>8, <2>9 DEF StoreInv
<1>3. CASE ~found
  <2>1. running' = running
    BY <1>1, <1>3
  <2> QED BY <1>1, <2>1 DEF StoreInv, TypeOK, JobOfOwner, NewKeysAreNew, StoredAhead,
       RunningAhead, PendingIsLast, ErasedIsGone, StoredWhole, NoSeqReuse, Saving, Wiping, Unused
<1> QED BY <1>2, <1>3

\* The entry a put leaves has the type of its key.
LEMMA EntryTypes ==
  ASSUME NEW s \in States
  PROVE  /\ EntryOf(s, "identity") \in Clients /\ EntryOf(s, "static") \in Clients
         /\ EntryOf(s, "k_session") = s.k_session /\ s.k_session \in Sids
         /\ EntryOf(s, "descriptor") \in Descriptors
         /\ EntryOf(s, "descriptor").next_seq = s.next_seq
         /\ EntryOf(s, "descriptor").sid = s.sid
  BY DEF EntryOf, EncodeDescriptor, States, Descriptors

\* A put brings an entry of the running session beside the entries of another one; the
\* last put makes all four its own, and the record leaves.
LEMMA PutKeepsInv ==
  ASSUME StoreInv, PutNext
  PROVE  StoreInv'
<1> DEFINE h == Head(job.todo)
<1>1. /\ job \in Jobs /\ job # None /\ job.op = "save" /\ job.todo \in Rests
      /\ running \in States /\ running # None /\ job.state = running
      /\ \A k \in Keys \ Left(job.todo) : backend[k] = EntryOf(running, k)
  BY DEF StoreInv, TypeOK, PutNext, JobOfOwner, Saving
<1>2. /\ h \in Left(job.todo) /\ h \in Keys
      /\ Len(job.todo) > 1 => /\ Tail(job.todo) \in Rests /\ Tail(job.todo) \in Seq(Keys)
                              /\ Left(Tail(job.todo)) = Left(job.todo) \ {h}
      /\ ~(Len(job.todo) > 1) => Left(job.todo) = {h} /\ h = "descriptor"
  BY <1>1, RestFacts
<1>3. /\ backend' = [backend EXCEPT ![h] = EntryOf(running, h)]
      /\ UNCHANGED <<running, sids, faults, erased>>
  BY <1>1 DEF PutNext
<1> HIDE DEF h
<1>4. /\ DOMAIN backend = Keys /\ DOMAIN backend' = Keys
      /\ backend'[h] = EntryOf(running, h)
      /\ \A k \in Keys : k # h => backend'[k] = backend[k]
  BY <1>2, <1>3 DEF StoreInv, TypeOK
<1>5. /\ running.k_session \in Sids /\ running.next_seq \in 0 .. MaxSeq
      /\ EntryOf(running, "identity") \in Clients /\ EntryOf(running, "static") \in Clients
      /\ EntryOf(running, "k_session") = running.k_session
      /\ EntryOf(running, "descriptor") \in Descriptors
      /\ EntryOf(running, "descriptor").next_seq = running.next_seq
  BY <1>1, EntryTypes DEF States
<1>6. /\ backend'["identity"] \in Clients \union {None, Damaged}
      /\ backend'["static"] \in Clients \union {None, Damaged}
      /\ backend'["k_session"] \in Sids \union {None, Damaged}
      /\ backend'["descriptor"] \in Descriptors \union {None, Damaged}
  BY <1>2, <1>4, <1>5 DEF StoreInv, TypeOK, Keys
<1>7. /\ backend'["k_session"] \in {backend["k_session"], running.k_session}
      /\ \/ backend'["descriptor"] = backend["descriptor"]
         \/ /\ backend'["descriptor"] \in Descriptors
            /\ backend'["descriptor"].next_seq = running.next_seq
  BY <1>2, <1>4, <1>5 DEF Keys
<1>8. CASE Len(job.todo) > 1
  <2>1. /\ job' = [job EXCEPT !.todo = Tail(job.todo)]
        /\ UNCHANGED <<cached, tickets, pending, wire, saved, broken>>
    BY <1>8 DEF PutNext
  <2>2. /\ job' \in Jobs /\ job' # None /\ job'.op = "save" /\ job'.state = running
        /\ job'.todo = Tail(job.todo)
    BY <1>1, <1>2, <1>8, <2>1, MarkersAssumption DEF Jobs
  <2>3. TypeOK'
    BY <1>3, <1>4, <1>6, <2>1, <2>2 DEF StoreInv, TypeOK
  <2>4. JobOfOwner'
    BY <1>1, <1>2, <1>3, <1>4, <1>8, <2>2 DEF JobOfOwner, Saving, Wiping
  <2>5. NewKeysAreNew' /\ ErasedIsGone'
    BY <1>1, <1>3, <1>7, <2>1 DEF StoreInv, NewKeysAreNew, ErasedIsGone, Unused
  <2>6. StoredAhead'
    <3>1. CASE h = "descriptor"
      <4>1. FALSE
        BY <1>2, <1>8, <3>1, <1>1 DEF Left
      <4> QED BY <4>1
    <3>2. CASE h # "descriptor"
      <4>1. backend'["descriptor"] = backend["descriptor"]
        BY <1>4, <3>2 DEF Keys
      <4> QED BY <1>1, <1>7, <2>1, <4>1 DEF StoreInv, StoredAhead, RunningAhead, Unused
    <3> QED BY <3>1, <3>2
  <2>7. RunningAhead'
    BY <1>1, <1>3, <1>7, <2>1 DEF StoreInv, RunningAhead, Unused
  <2>8. PendingIsLast' /\ StoredWhole' /\ NoSeqReuse'
    BY <1>1, <1>3, <2>1, <2>2 DEF StoreInv, PendingIsLast, StoredWhole, NoSeqReuse, Saving
  <2> QED BY <2>3, <2>4, <2>5, <2>6, <2>7, <2>8 DEF StoreInv
<1>9. CASE ~(Len(job.todo) > 1)
  <2>1. /\ job' = None /\ pending' = None /\ broken' = FALSE
        /\ cached' = running /\ tickets' = running.tickets
        /\ saved' = saved \union {running}
        /\ wire' = IF pending = None THEN wire ELSE [wire EXCEPT ![pending] = @ + 1]
    BY <1>1, <1>9 DEF PutNext
  <2>2. \A k \in Keys : backend'[k] = EntryOf(running, k)
    BY <1>1, <1>2, <1>4, <1>9
  <2>3. wire \in [Records -> Nat] /\ pending \in Records \union {None}
    BY DEF StoreInv, TypeOK
  <2>4. wire' \in [Records -> Nat]
    BY <2>1, <2>3
  <2>5. \A k \in Sids, q \in 0 .. MaxSeq :
          \/ wire'[<<k, q>>] = wire[<<k, q>>]
          \/ /\ k = running.k_session /\ q + 1 = running.next_seq
             /\ wire[<<k, q>>] = 0 /\ wire'[<<k, q>>] = 1
    <3>1. CASE pending = None
      BY <2>1, <3>1
    <3>2. CASE pending # None
      <4>1. /\ pending = <<running.k_session, running.next_seq - 1>> /\ wire[pending] = 0
            /\ running.next_seq > 0 /\ pending \in Records
        BY <2>3, <3>2 DEF StoreInv, PendingIsLast
      <4>2. TAKE k \in Sids, q \in 0 .. MaxSeq
      <4>3. <<k, q>> \in Records
        BY DEF Records
      <4>4. CASE <<k, q>> = pending
        BY <1>5, <2>1, <2>3, <3>2, <4>1, <4>3, <4>4, StoreAssumption
      <4>5. CASE <<k, q>> # pending
        BY <2>1, <2>3, <3>2, <4>1, <4>3, <4>5
      <4> QED BY <4>4, <4>5
    <3> QED BY <3>1, <3>2
  <2>6. \A k \in Sids, n \in 0 .. MaxSeq :
          Unused(k, n) /\ (k = running.k_session => running.next_seq <= n) => Unused(k, n)'
    BY <1>5, <2>5, StoreAssumption DEF Unused
  <2>7. TypeOK'
    <3>1. running.tickets \subseteq Sids
      BY <1>1 DEF States
    <3> QED BY <1>1, <1>3, <1>4, <1>6, <2>1, <2>4, <3>1 DEF StoreInv, TypeOK
  <2>8. JobOfOwner' /\ PendingIsLast'
    BY <2>1 DEF JobOfOwner, PendingIsLast, Saving, Wiping
  <2>9. NewKeysAreNew'
    <3>1. \A k \in Sids : k > sids => k # running.k_session
      BY <1>1, <1>5 DEF StoreInv, NewKeysAreNew, TypeOK, Sids
    <3>2. \A k \in Sids : k > sids => Unused(k, 0)'
      BY <2>6, <3>1, StoreAssumption DEF StoreInv, NewKeysAreNew
    <3> QED BY <1>1, <1>3, <1>7, <3>2 DEF StoreInv, NewKeysAreNew
  <2>10. Unused(running.k_session, running.next_seq)'
    <3>1. Unused(running.k_session, running.next_seq)
      BY <1>1 DEF StoreInv, RunningAhead
    <3>2. running.next_seq <= running.next_seq
      BY <1>5, StoreAssumption
    <3>3. running' = running
      BY <1>3
    <3>4. \A q \in 0 .. MaxSeq : running.next_seq <= q => wire'[<<running.k_session, q>>] = 0
      BY <1>5, <2>5, <3>1, StoreAssumption DEF Unused
    <3> QED BY <3>3, <3>4 DEF Unused
  <2>11. StoredAhead' /\ RunningAhead'
    BY <1>3, <1>5, <2>2, <2>10 DEF StoredAhead, RunningAhead, Keys
  <2>12. ErasedIsGone'
    BY <1>1, <1>3, <1>7 DEF StoreInv, ErasedIsGone
  <2>13. StoredWhole'
    BY <2>1, <2>2 DEF StoredWhole
  <2>14. NoSeqReuse'
    BY <2>3, <2>4, <2>5 DEF StoreInv, NoSeqReuse, Records
  <2> QED BY <2>7, <2>8, <2>9, <2>11, <2>12, <2>13, <2>14 DEF StoreInv
<1> QED BY <1>8, <1>9

\* A delete takes an entry away; after the last one no key of before is stored or used.
LEMMA DeleteKeepsInv ==
  ASSUME StoreInv, DeleteNext
  PROVE  StoreInv'
<1> DEFINE h == Head(job.todo)
<1>1. /\ job \in Jobs /\ job # None /\ job.op = "wipe" /\ job.todo \in Rests
      /\ running = None /\ pending = None
      /\ \A k \in Keys \ Left(job.todo) : backend[k] = None
  BY DEF StoreInv, TypeOK, DeleteNext, JobOfOwner, Wiping
<1>2. /\ h \in Left(job.todo) /\ h \in Keys
      /\ Len(job.todo) > 1 => /\ Tail(job.todo) \in Rests /\ Tail(job.todo) \in Seq(Keys)
                              /\ Left(Tail(job.todo)) = Left(job.todo) \ {h}
      /\ ~(Len(job.todo) > 1) => Left(job.todo) = {h} /\ h = "descriptor"
  BY <1>1, RestFacts
<1>3. /\ backend' = [backend EXCEPT ![h] = None]
      /\ UNCHANGED <<running, pending, sids, faults, wire, saved>>
  BY DEF DeleteNext
<1> HIDE DEF h
<1>4. /\ DOMAIN backend = Keys /\ DOMAIN backend' = Keys
      /\ backend'[h] = None
      /\ \A k \in Keys : k # h => backend'[k] = backend[k]
  BY <1>2, <1>3 DEF StoreInv, TypeOK
<1>5. None \notin Sids /\ None \notin Descriptors
  BY MarkersAssumption
<1>6. /\ backend'["identity"] \in Clients \union {None, Damaged}
      /\ backend'["static"] \in Clients \union {None, Damaged}
      /\ backend'["k_session"] \in Sids \union {None, Damaged}
      /\ backend'["descriptor"] \in Descriptors \union {None, Damaged}
  BY <1>2, <1>4 DEF StoreInv, TypeOK, Keys
<1>7. /\ backend'["k_session"] \in {backend["k_session"], None}
      /\ backend'["descriptor"] \in {backend["descriptor"], None}
  BY <1>2, <1>4 DEF Keys
<1>8. NewKeysAreNew'
  BY <1>1, <1>3, <1>5, <1>7 DEF StoreInv, NewKeysAreNew, Unused
<1>9. StoredAhead' /\ RunningAhead' /\ PendingIsLast' /\ NoSeqReuse'
  BY <1>1, <1>3, <1>5, <1>7
     DEF StoreInv, StoredAhead, RunningAhead, PendingIsLast, NoSeqReuse, Unused
<1>10. CASE Len(job.todo) > 1
  <2>1. /\ job' = [job EXCEPT !.todo = Tail(job.todo)]
        /\ UNCHANGED <<cached, tickets, erased, broken>>
    BY <1>10 DEF DeleteNext
  <2>2. /\ job' \in Jobs /\ job' # None /\ job'.op = "wipe" /\ job'.todo = Tail(job.todo)
    BY <1>1, <1>2, <1>10, <2>1, MarkersAssumption DEF Jobs
  <2>3. TypeOK'
    BY <1>3, <1>4, <1>6, <2>1, <2>2 DEF StoreInv, TypeOK
  <2>4. JobOfOwner'
    BY <1>1, <1>2, <1>3, <1>4, <1>10, <2>2 DEF JobOfOwner, Saving, Wiping
  <2>5. ErasedIsGone' /\ StoredWhole'
    BY <1>1, <1>3, <1>5, <1>7, <2>1, <2>2 DEF StoreInv, ErasedIsGone, StoredWhole
  <2> QED BY <1>8, <1>9, <2>3, <2>4, <2>5 DEF StoreInv
<1>11. CASE ~(Len(job.todo) > 1)
  <2>1. /\ job' = None /\ cached' = None /\ tickets' = {} /\ broken' = FALSE
        /\ erased' = 1 .. sids
    BY <1>11 DEF DeleteNext
  <2>2. \A k \in Keys : backend'[k] = None
    BY <1>1, <1>2, <1>4, <1>11
  <2>3. TypeOK'
    <3>1. 1 .. sids \subseteq Sids
      BY StoreAssumption DEF StoreInv, TypeOK, Sids
    <3> QED BY <1>3, <1>4, <1>6, <2>1, <3>1 DEF StoreInv, TypeOK
  <2>4. JobOfOwner'
    BY <2>1 DEF JobOfOwner, Saving, Wiping
  <2>5. ErasedIsGone' /\ StoredWhole'
    BY <1>1, <1>3, <1>5, <2>1, <2>2 DEF ErasedIsGone, StoredWhole, Keys
  <2> QED BY <1>8, <1>9, <2>3, <2>4, <2>5 DEF StoreInv
<1> QED BY <1>10, <1>11

\* No step leaves the invariant.
LEMMA StoreInvInductive == StoreInv /\ [Next]_vars => StoreInv'
<1> SUFFICES ASSUME StoreInv, [Next]_vars PROVE StoreInv'
  OBVIOUS
<1>1. ASSUME NEW c \in Clients, Connect(c) PROVE StoreInv'
  BY <1>1, ConnectKeepsInv
<1>2. ASSUME NEW kept \in BOOLEAN, StoreTicket(kept) PROVE StoreInv'
  BY <1>2, StoreTicketKeepsInv
<1>3. CASE Seal
  BY <1>3, SealKeepsInv
<1>4. CASE Wipe
  BY <1>4, WipeKeepsInv
<1>5. CASE PutNext
  BY <1>5, PutKeepsInv
<1>6. CASE DeleteNext
  BY <1>6, DeleteKeepsInv
<1>7. CASE CallFails
  BY <1>7, CallFailsKeepsInv
<1>8. CASE Crash
  BY <1>8, CrashKeepsInv
<1>9. ASSUME NEW k \in Keys, Damage(k) PROVE StoreInv'
  BY <1>9, DamageKeepsInv
<1>10. CASE Resume
  BY <1>10, ResumeKeepsInv
<1>11. CASE UNCHANGED vars
  BY <1>11 DEF vars, StoreInv, TypeOK, JobOfOwner, NewKeysAreNew, StoredAhead, RunningAhead,
     PendingIsLast, ErasedIsGone, StoredWhole, NoSeqReuse, Saving, Wiping, Unused
<1> QED
  BY <1>1, <1>2, <1>3, <1>4, <1>5, <1>6, <1>7, <1>8, <1>9, <1>10, <1>11 DEF Next

\* What load returns between whole operations is a saved state, but for its tickets.
LEMMA WholeIsLoaded == StoreInv => LoadsWhatWasSaved
<1> SUFFICES ASSUME StoreInv, ~broken, job = None, Load(backend).verdict = "Session"
             PROVE  \E s \in saved : Load(backend).state = [s EXCEPT !.tickets = {}]
  BY DEF LoadsWhatWasSaved
<1>1. /\ Loadable(backend)
      /\ Load(backend).state =
           [identity |-> backend["identity"], static |-> backend["static"],
            k_session |-> backend["k_session"], sid |-> backend["descriptor"].sid,
            next_seq |-> backend["descriptor"].next_seq, tickets |-> {}]
  BY DEF Load
<1>2. PICK s \in saved : \A k \in Keys : backend[k] \in {EntryOf(s, k), Damaged}
  BY <1>1 DEF StoreInv, StoredWhole, Loadable, Keys
<1>3. s \in States
  BY DEF StoreInv, TypeOK
<1>4. /\ backend["identity"] = s.identity /\ backend["static"] = s.static
      /\ backend["k_session"] = s.k_session
      /\ backend["descriptor"].sid = s.sid /\ backend["descriptor"].next_seq = s.next_seq
  BY <1>1, <1>2, <1>3 DEF Loadable, Keys, EntryOf, EncodeDescriptor
<1>5. [s EXCEPT !.tickets = {}] =
        [identity |-> s.identity, static |-> s.static, k_session |-> s.k_session,
         sid |-> s.sid, next_seq |-> s.next_seq, tickets |-> {}]
  BY <1>3 DEF States
<1> QED BY <1>1, <1>4, <1>5

\* Every reachable state is in the invariant.
THEOREM StoreInvariant == Spec => []StoreInv
<1> QED BY InitStoreInv, StoreInvInductive, PTL DEF Spec

\* The store's state is well-formed, for any number of sessions, records and faults.
THEOREM StoreTypeCorrect == Spec => []TypeOK
<1>1. StoreInv => TypeOK
  BY DEF StoreInv
<1> QED BY <1>1, StoreInvariant, PTL

\* No <<K_session, seq>> leaves twice, whichever call of a save fails and whenever the
\* process dies.
THEOREM NonceIsNeverReused == Spec => []NoSeqReuse
<1>1. StoreInv => NoSeqReuse
  BY DEF StoreInv
<1> QED BY <1>1, StoreInvariant, PTL

\* load returns the whole of a saved state, or says that there is none.
THEOREM LoadIsWhole == Spec => []LoadsWhatWasSaved
<1> QED BY WholeIsLoaded, StoreInvariant, PTL

\* A key that a wipe erased is not loaded again, in no mixture of entries.
THEOREM ErasedIsNotLoaded == Spec => []WipedKeysAreGone
<1>1. StoreInv => WipedKeysAreGone
  <2> SUFFICES ASSUME StoreInv, Load(backend).verdict = "Session"
               PROVE  Load(backend).state.k_session \notin erased
    BY DEF WipedKeysAreGone
  <2>1. Loadable(backend) /\ Load(backend).state.k_session = backend["k_session"]
    BY DEF Load
  <2>2. backend["k_session"] \in Sids
    BY <2>1 DEF StoreInv, TypeOK, Loadable, Keys
  <2> QED BY <2>1, <2>2 DEF StoreInv, ErasedIsGone
<1> QED BY <1>1, StoreInvariant, PTL
=============================================================================
