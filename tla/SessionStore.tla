---------------------------- MODULE SessionStore ----------------------------
(***************************************************************************)
(* The client's session store (crate session-store) over the secure store  *)
(* of the operating system, and its owner: a process that connects, seals  *)
(* records, logs out, crashes and resumes.  save and wipe make one call    *)
(* after the other to the backend; each may fail, which ends the operation *)
(* (`?`), and the process may die between any two.                         *)
(*                                                                         *)
(* The owner keeps the rule of SessionState::next_seq: a save after every  *)
(* seal, and the record leaves once that save has returned Ok.  Whether it *)
(* keeps a ticket it stored in its own SessionState as well is open.  The  *)
(* n-th session has sid n, K_session n and one ticket n; sid, chain and    *)
(* next_seq lie in the descriptor.                                         *)
(***************************************************************************)
EXTENDS Naturals, Sequences, FiniteSets

CONSTANTS
  Clients,      \* identities a login brings: client_identity with its client_static
  Oversized,    \* sessions whose descriptor does not fit its u16 lengths
  MaxSid,       \* bound: sessions
  MaxSeq,       \* bound: records of a session
  MaxFaults,    \* bound: failing calls, crashes and damaged entries
  Damaged,      \* an entry of the wrong length, or a truncated descriptor
  None

ASSUME StoreAssumption == MaxSid \in Nat /\ MaxSeq \in Nat /\ MaxFaults \in Nat

Keys == {"identity", "static", "k_session", "descriptor"}

VARIABLES
  backend,   \* SecureStore: entry of each key
  job,       \* what save or wipe still has to do; None between operations
  cached,    \* ClientSessionStore::state
  tickets,   \* ClientSessionStore::tickets, memory only
  running,   \* the session the process uses
  pending,   \* a sealed record whose save has not returned: its <<K_session, seq>>
  sids,      \* number of sessions so far
  faults,    \* faults so far
  wire,      \* history: per <<K_session, seq>> how many records left
  saved,     \* history: states some save stored completely
  erased,    \* history: keys a completed wipe has erased
  broken     \* history: an operation stopped half-way since the last complete one

vars == <<backend, job, cached, tickets, running, pending, sids, faults, wire, saved, erased, broken>>

Sids == 1 .. MaxSid
States == [identity : Clients, static : Clients, k_session : Sids, sid : Sids,
           next_seq : 0 .. MaxSeq, tickets : SUBSET Sids]
Jobs == [op : {"save", "wipe"}, todo : Seq(Keys), state : States \union {None}]
Descriptors == [sid : Sids, next_seq : 0 .. MaxSeq]
Records == Sids \X (0 .. MaxSeq)

\* Neither "no entry" nor a damaged one can be taken for a value of the session.
ASSUME MarkersAssumption ==
  /\ None # Damaged
  /\ {None, Damaged} \intersect (Clients \union Sids) = {}
  /\ \A marker \in {None, Damaged} :
       marker \notin Descriptors /\ marker \notin States /\ marker \notin Jobs /\ marker \notin Records

TypeOK ==
  /\ DOMAIN backend = Keys
  /\ backend["identity"] \in Clients \union {None, Damaged}
  /\ backend["static"] \in Clients \union {None, Damaged}
  /\ backend["k_session"] \in Sids \union {None, Damaged}
  /\ backend["descriptor"] \in Descriptors \union {None, Damaged}
  /\ job \in Jobs \union {None}
  /\ cached \in States \union {None} /\ running \in States \union {None}
  /\ tickets \subseteq Sids
  /\ pending \in Records \union {None}
  /\ sids \in 0 .. MaxSid /\ faults \in 0 .. MaxFaults
  /\ wire \in [Records -> Nat]
  /\ saved \subseteq States /\ erased \subseteq Sids /\ broken \in BOOLEAN

Init ==
  /\ backend = [k \in Keys |-> None]
  /\ job = None /\ cached = None /\ tickets = {} /\ running = None /\ pending = None
  /\ sids = 0 /\ faults = 0
  /\ wire = [p \in Records |-> 0]
  /\ saved = {} /\ erased = {} /\ broken = FALSE

-----------------------------------------------------------------------------
\* Mutated form of EncodeDescriptor: the counter is stored one ahead.
EncodeOneAhead(s) == [sid |-> s.sid, next_seq |-> s.next_seq + 1]

\* Sid, chain and counter of the session.
EncodeDescriptor(s) == [sid |-> s.sid, next_seq |-> s.next_seq]

\* What load makes of the entries, in the order of its checks.
Loadable(b) == \A k \in Keys : b[k] \notin {None, Damaged}

Load(b) ==
  IF \A k \in Keys : b[k] = None THEN [verdict |-> "Empty"]
  ELSE IF ~Loadable(b) THEN [verdict |-> "Corrupt"]
  ELSE [verdict |-> "Session",
        state |-> [identity |-> b["identity"], static |-> b["static"],
                   k_session |-> b["k_session"], sid |-> b["descriptor"].sid,
                   next_seq |-> b["descriptor"].next_seq, tickets |-> {}]]

\* Mutated form of SaveOrder: the descriptor goes first.
DescriptorFirst == <<"descriptor", "identity", "static", "k_session">>

SaveOrder == <<"identity", "static", "k_session", "descriptor">>

\* Mutated form of WipeOrder: only the keys of the identity are erased.
WipeIdentityOnly == <<"identity", "static">>

WipeOrder == <<"identity", "static", "k_session", "descriptor">>

EntryOf(s, k) == IF k = "descriptor" THEN EncodeDescriptor(s) ELSE s[k]

-----------------------------------------------------------------------------
\* A full handshake: new sid, new K_session, and no record yet.
NewState(c) ==
  [identity |-> c, static |-> c, k_session |-> sids + 1, sid |-> sids + 1, next_seq |-> 0,
   tickets |-> {}]

SaveJob(s) == [op |-> "save", todo |-> SaveOrder, state |-> s]

\* The process connects, in place of the session it had, and saves; an oversized
\* descriptor is refused before the first put.
Connect(c) ==
  /\ job = None /\ sids < MaxSid
  /\ sids' = sids + 1
  /\ running' = NewState(c)
  /\ job' = IF sids + 1 \in Oversized THEN None ELSE SaveJob(NewState(c))
  /\ UNCHANGED <<backend, cached, tickets, pending, faults, wire, saved, erased, broken>>

\* store_ticket: a ticket of the node stays in memory; the owner's own copy is not touched.
StoreTicket(kept) ==
  /\ job = None /\ running # None
  /\ tickets' = tickets \union {running.sid}
  /\ running' = IF kept THEN [running EXCEPT !.tickets = @ \union {running.sid}] ELSE running
  /\ UNCHANGED <<backend, job, cached, pending, sids, faults, wire, saved, erased, broken>>

\* seal_record takes the seq, then the owner saves the counter.
Seal ==
  LET s == [running EXCEPT !.next_seq = @ + 1] IN
  /\ job = None /\ running # None /\ running.sid \notin Oversized /\ running.next_seq < MaxSeq
  /\ running' = s
  /\ pending' = <<running.k_session, running.next_seq>>
  /\ job' = SaveJob(s)
  /\ UNCHANGED <<backend, cached, tickets, sids, faults, wire, saved, erased, broken>>

\* logout, or the client is revoked by the manifest.
Wipe ==
  /\ job = None /\ running # None
  /\ running' = None
  /\ job' = [op |-> "wipe", todo |-> WipeOrder, state |-> None]
  /\ UNCHANGED <<backend, cached, tickets, pending, sids, faults, wire, saved, erased, broken>>

\* One put of save; after the last one the tickets and the copy in memory are replaced, save
\* returns Ok, and the sealed record leaves.
PutNext ==
  /\ job # None /\ job.op = "save"
  /\ backend' = [backend EXCEPT ![Head(job.todo)] = EntryOf(job.state, Head(job.todo))]
  /\ IF Len(job.todo) > 1
     THEN /\ job' = [job EXCEPT !.todo = Tail(@)]
          /\ UNCHANGED <<cached, tickets, pending, wire, saved, broken>>
     ELSE /\ job' = None /\ pending' = None /\ broken' = FALSE
          /\ cached' = job.state /\ tickets' = job.state.tickets
          /\ saved' = saved \union {job.state}
          /\ wire' = IF pending = None THEN wire ELSE [wire EXCEPT ![pending] = @ + 1]
  /\ UNCHANGED <<running, sids, faults, erased>>

\* One delete of wipe; the last one clears the tickets and the copy in memory too.
DeleteNext ==
  /\ job # None /\ job.op = "wipe"
  /\ backend' = [backend EXCEPT ![Head(job.todo)] = None]
  /\ IF Len(job.todo) > 1
     THEN /\ job' = [job EXCEPT !.todo = Tail(@)]
          /\ UNCHANGED <<cached, tickets, erased, broken>>
     ELSE /\ job' = None /\ cached' = None /\ tickets' = {} /\ broken' = FALSE
          /\ erased' = 1 .. sids
  /\ UNCHANGED <<running, pending, sids, faults, wire, saved>>

\* Mutated form of CallFails: the error is swallowed and the operation goes on.
CallIgnored ==
  /\ job # None /\ faults < MaxFaults /\ Len(job.todo) > 1
  /\ faults' = faults + 1
  /\ job' = [job EXCEPT !.todo = Tail(@)]
  /\ UNCHANGED <<backend, cached, tickets, running, pending, sids, wire, saved, erased, broken>>

\* put or delete returns Unavailable or Denied: the operation stops here; the owner
\* drops the record it could not account for.
CallFails ==
  /\ job # None /\ faults < MaxFaults
  /\ faults' = faults + 1
  /\ job' = None /\ pending' = None /\ broken' = TRUE
  /\ UNCHANGED <<backend, cached, tickets, running, sids, wire, saved, erased>>

\* The process dies: what is in memory is gone.
Crash ==
  /\ faults < MaxFaults
  /\ faults' = faults + 1
  /\ cached' = None /\ tickets' = {} /\ running' = None /\ pending' = None /\ job' = None
  /\ broken' = (broken \/ job # None)
  /\ UNCHANGED <<backend, sids, wire, saved, erased>>

\* The operating system's store returns an entry of the wrong length.
Damage(k) ==
  /\ faults < MaxFaults /\ job = None /\ backend[k] # None
  /\ faults' = faults + 1
  /\ backend' = [backend EXCEPT ![k] = Damaged]
  /\ UNCHANGED <<job, cached, tickets, running, pending, sids, wire, saved, erased, broken>>

\* A new process loads the store and continues as sender; resume_as_sender
\* refuses a counter of 0.  load itself changes nothing.
Resume ==
  LET found == Load(backend) IN
  /\ job = None /\ running = None
  /\ running' = IF found.verdict = "Session" /\ found.state.next_seq > 0 THEN found.state ELSE None
  /\ UNCHANGED <<backend, job, cached, tickets, pending, sids, faults, wire, saved, erased, broken>>

Next ==
  \/ \E c \in Clients : Connect(c)
  \/ \E kept \in BOOLEAN : StoreTicket(kept)
  \/ Seal
  \/ Wipe
  \/ PutNext
  \/ DeleteNext
  \/ CallFails
  \/ Crash
  \/ \E k \in Keys : Damage(k)
  \/ Resume

Spec == Init /\ [][Next]_vars

-----------------------------------------------------------------------------
\* No K_record nonce is used twice, whatever fails or dies during a save: save
\* puts K_session before the descriptor, so an old counter may stand beside a
\* new key, but never a new counter beside an old key.
NoSeqReuse == \A p \in DOMAIN wire : wire[p] <= 1

\* "the whole state, not half of it" (contract_restart_restores_full_state): what
\* load returns is a state that was saved, but for its tickets, unless an operation
\* stopped half-way since the last one that completed.
LoadsWhatWasSaved ==
  ~broken /\ job = None /\ Load(backend).verdict = "Session"
    => \E s \in saved : Load(backend).state = [s EXCEPT !.tickets = {}]

\* After a wipe that returned Ok no key of before is loaded again, not even when a
\* later save of another session stops half-way and leaves a mixture.
WipedKeysAreGone ==
  Load(backend).verdict = "Session" => Load(backend).state.k_session \notin erased

-----------------------------------------------------------------------------
\* "Tickets of the current session": its ticket stays in memory while the session does.
\* save takes the tickets of the state it is given and drops the others.
TicketsStay ==
  [][running # None /\ running' # None /\ running'.sid = running.sid
       => (running.sid \in tickets => running.sid \in tickets')]_vars
=============================================================================
