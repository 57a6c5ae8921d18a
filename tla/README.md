# TLA+ models of the Aether engine

This directory holds TLA+ models of the engine in `src/crates`, TLC instances of them,
and TLAPS proofs about them. Comments in the modules and this text quote the source by
crate and function; `PROJECT.json` gives the exact lines of every definition (`map`).

## 1. The system

Aether carries the packets of a client in encrypted *records* to a node of a fleet, over
one of several *covers* (QUIC, MASQUE, Reality, SS-2022). A session is identified by a
session id and its key `K_session`; it survives a move from one node to another
(*rotation*): the old node mints a ticket, the client presents it to the new node in a
signed RESUME, both derive `K_session'`, and sending goes on with the same counter.

| Component | State | Operations | Interacts with | Hard part |
|---|---|---|---|---|
| `frame-session` `DedupWindow` | floor, lo, hi, bitmap, anomalies, restored flag | `new`, `restore_from_signed_last_seq`, `accept`, `is_new` | owned by `Session` | repeats and reordering around a sliding edge; loss of the node's state |
| `frame-session` `Session` | key base, `next_seq`, re-key generations, stream table, window, overlap, last ACK / NAK | `seal_record`, `recv_record`, `begin_rekey`, `begin_overlap`, `duplicate`, `on_resume_ack`, `on_resume_nak`, `ratchet_from`, `resume_as_sender`, ... | covers below, coordinator and store beside it | re-key records among reordered data, restart without generations, the limit on seq |
| `frame-session` record codec | none | `encode`, `decode`, `aad_bytes`, varints | every cover | one meaning per byte string; padding that looks like a record |
| `ticket-mint` `TicketFactory` | fleet key of an epoch, clock, consumed set | `mint_at`, `unwrap_at`, `handle_resume`, `set_now` | called by the node for MINT and RESUME | repeats, retries and budget; order of the checks; restart loses the consumed set |
| `key-coordinator` `ClientRotation` | attempts, `eph_client`, signed last_seq and window, accepted ACK, `K_session'` | `request_ticket`, `resume`, `accept_response`, `post_rotation_rekey` | sends to the node through a `RotationChannel`; its caller applies the ACK to the `Session` | lost answers, retry with a new key, late requests |
| `e2e-harness` `aether-node`, `aether-client` | `NodeState`: one `K_session` and one mirror for all connections; a client's place in its run | handshake, MINT, RESUME, `datagram_loop`; the whole run of the client | QUIC streams and datagrams; manifests on disk | connections that overwrite each other's state; restarts; no timers |
| `session-store` | four entries in a secure store, tickets and a copy in memory | `save`, `load`, `wipe`, `store_ticket` | gives `Session` its counter after a crash | an operation that stops half-way; crash between a seal and its save |
| `transport-mux` | outbox with a byte cap, failure slot, bindings | `send`, `take_pending`, `note_into`, `on_failure` | between `Session` and a cover | full outbox, events that overwrite each other, a close seen by a poll only |
| `policy-engine` | rules, pool of fake addresses | `route`, `assign_fake_ip` | picks the flow's way | reuse of evicted addresses |
| `phase0-path`, `device-adapter` | flow table of the caller; a queue of packets | `send_packet`; `open`, `close`, `read_packet`, `inject_inbound` | glue device, policy, session, binding | a record sealed for a binding that then refuses it; order of packets |
| `cover-masque` | outbox of capsules; receiver with two loops | `send`, `drain_binding`, `connect_udp`, `serve_connect_udp` | HTTP/3, a UDP target | two framings of one payload; a tunnel that stays half open |
| `cover-ss2022` | outbox, padding budget | `encode_cover_frame`, `decode_cover_frame` | a stream | finding the record inside its padding |
| `cover-reality` | slot clocks, `T1Shared`, splice threads and byte counter | `gate_decision`, `relay_to_target`, `build_reality_cert`, `verify_server_cert` | TLS stacks, the target site | slots at edges, one shared slot for all handshakes, two threads on one quota |
| `crypto-core` | none | key derivations, envelopes, signatures | all | taken as terms, see section 6 |

What must hold: a record is sealed under a key and nonce of its own and taken at most
once, by one node or by two; what the network reorders or repeats costs at most that
record; a RESUME is accepted once, and only its owner spends the budget of a ticket;
after the ACK the client and its new node agree on key, window and stream; what a
binding accepted goes out once and in order unless a drain fails; what stands in the store after a
failure is never used in a way that repeats a nonce; a splice, a tunnel and a run end.
Every hazard behind these sentences is in `PROJECT.json` (`hazards`) at its line, with
the properties that cover it or the reason why none does.

## 2. Modules

```
DedupWindow --+-- DedupReceiver ......... implements DedupMemory (abstract)
              |
              +-- FrameSession --+-- RecordChannel
                                 +-- Rotation ............ INSTANCE ConsumedSet
                                 +-- LabRun
                                 +-- ClientPath -- MCClientPath
PolicyEngine, TransportMux ----------^
ConsumedSet ---- TicketMint -- MCTicketMint
RecordCodec ---- CoverFrames -- MasqueTunnel -- MCMasqueTunnel
RelaySplice ---- Reality -- MCReality
SessionStore
proofs: DedupWindowProofs -- NodeMemoryProofs (DedupReceiver and TicketMint);
        RecordChannelProofs; RotationProofs; LabRunProofs; SessionStoreProofs;
        ClientPathProofs; CoverProofs (codecs, MasqueTunnel and Reality)
```

**Session and rotation**

- **DedupWindow** is the type of that name as a record and operators from window to
  window. The 512-byte bitmap is the set of the indices whose bit is set; 4096 is the
  constant `W`, `u64::MAX` the constant `U64Max`.
- **DedupReceiver** puts the window at a node: the client issues numbers, the network
  offers any issued number at any time and again, and a RESUME may rebuild the window.
  The client signs the last number it issued and goes on issuing while the request is
  under way, so `Restore` takes the last_seq of any earlier moment, which may lie below
  what the node has taken. Every rebuild is a new mirror with a key of its own, and a
  number opens only under the key it was sealed with; without the fresh key (mutated
  form `RestoreSameKey`) a rebuild would take numbers again. Its `Init`, `Next`, `Spec`
  and `TypeOK` are named `Dedup...`, since one module proves about it and about
  TicketMint.
- **DedupMemory** says what the window promises, with no bitmap: a receiver that
  remembers everything and refuses only what is too old, known, or, after a rebuild, not
  above the newest number. `DedupReceiver` implements it (`ImplementsMemory`), with
  `floor`, `hi`, `restored` and `anomalies` as the mapping.
- **FrameSession** is `Session`. A key base is the sequence of what it was derived from
  (`K_session`, then the nonces of the re-keys), and a record carries the base where the
  code has a ciphertext: it opens where the same base is found for its seq.
  `recv_record` is `Verdict` (the order of its checks) and `AfterRecv`. Left out: FIN,
  and the counter `ratchet_restarts` nothing reads.
- **RecordChannel** composes two sessions and one direction of records. `saved` is the
  counter the owner writes to its store with each seal; `SenderRestarts` is
  `resume_as_sender` from it. A seal and its save are one step here; SessionStore
  splits them.
- **ConsumedSet** is one entry of the node's consumed set and the part of
  `handle_resume` that follows a valid ticket and signature.
- **TicketMint** is a fleet: tickets, signed requests, epochs and their keys, clocks, a
  consumed set per node, restarts. A request is what the client signs, reduced to ticket
  and nonce; whether the signature verifies is a parameter of `HandleResume`, and a
  wrong signature may come with any transcript.
- **Rotation** is one rotation from end to end: the client's `Session` and
  `ClientRotation`, driven as `RotationDriver` in `rotation-tests` and `aether-client`
  drive them, the mirrors of both nodes as in `aether-node`, and the new node's consumed
  entry. `Resume` is `resume` up to `exchange()`; its return is one of `AckTimeout`,
  `NakArrives`, `AckArrives`. `AckArrives` is `accept_response` and what the caller runs
  next without an await: `on_resume_ack`, `post_rotation_rekey`, `ratchet_from`. Since
  the new node has one `eph_node` per rotation, `K_session'` is the pair of `K_session`
  and `eph_client`. The client may re-key once before the overlap.
- **LabRun** is the laboratory: several runs of `aether-client` against two nodes whose
  connections share one `NodeState`. A run is begun, dials N1 with the manifest it read,
  does the Noise handshake, sends, has a ticket minted, dials N2, resumes and sends the
  rest. `blame` records which runs a fault hit, or which lost N1's one `K_session` to
  another handshake before their mint was answered.

**Store and path of a packet**

- **SessionStore** makes every `put` and `delete` of `save` and `wipe` a step of its own;
  each may fail (`CallFails`) and the process may die between any two (`Crash`); an
  entry may come back damaged. The owner seals, saves, and only then lets the record
  leave, as the doc of `SessionState::next_seq` demands.
- **PolicyEngine** is `route` and the pool of fake addresses; **TransportMux** is the
  outbox, the failure slot and the five bindings, the bindings of the other covers
  included, which have the same parts.
- **ClientPath** composes both with `Session`: packets come to the device stub, are read,
  routed, sealed and offered to a binding, and somebody drains the outbox. The module
  makes `send_packet` one step, as it is one call without an await. `aether-client`
  drains in the same task right after `send`, `drain_binding` of `cover-masque` when its
  owner calls it, and the bindings of the other covers have no writer in `src`; so a
  drain may come at any moment, or never. Both loops stop at the first frame that fails,
  the channel being there or not, and drop what they took and did not write
  (`WriterFails`): `lost` records these frames, and those the mock loses after an Ok.
  Packets to hosts and to literal addresses come with and without IP options.

**Covers**

- **RecordCodec** and **CoverFrames** model the bytes: varints of both kinds, headers,
  records, capsules, length prefixes, padded frames. A byte is a number below
  `2 * Group`, so that all short byte strings can be enumerated. The loops of
  `write_varint`, `read_varint` and `decode_varint` are recursive functions, which the
  prover can unfold (it cannot do so with RECURSIVE operators).
- **MasqueTunnel** is the tunnel around them: Extended CONNECT, the two loops of the
  receiver, a UDP target that echoes or answers bytes of its own. `answer` is composed
  byte by byte, so every decoder of the project is handed every string up to a length.
  `Init`, `Next`, `Spec` and `TypeOK` are named `Tunnel...`, since one module proves about
  it and about Reality.
- **RelaySplice** is `relay_to_target`: two threads, the sockets, the shared counter.
  **Reality** adds the gate, the Accept certificate and T1 clients that share one
  `RealityClientState`. Tags, keys and certificates are terms over their inputs. A probe
  may send a copy of a hello a client sent (`SendCopy`): the gate keeps no memory of
  tags, so within the window of three minutes the copy is accepted like the hello itself,
  and the handshake then ends in an error of `accept` (`HandshakeFails`), for the sender
  has no key for the share in it. The doc of the gate calls its window the
  anti-replay (cover-reality 263 to 271); the window is all there is.

The network is in each module the set (or sequence) of everything ever sent, or a set of
what is in flight. A message can be lost, repeated where it is a datagram, and reordered.

Definitions whose comment starts with "Mutated form" are not part of the models: each is
a plausible bug in the definition below it, used to see that a property notices.

`TypeOK` stands in every module with variables. The configurations of `DedupReceiver`,
`TicketMint`, `SessionStore` and `ClientPath` check it, and it is proved for them;
for `RecordChannel`, `Rotation`, `MasqueTunnel`, `Reality` and `LabRun` it holds too, which
adding it to the INVARIANTS of the cfg shows. `TunnelTypeOK` is proved as well
(`TunnelTypeCorrect`).

## 3. Runs

| Run | Question | Bounds | Result |
|---|---|---|---|
| `dedup_receiver` | at most once, exact bitmap, the next number is new, monotonic continuity point of a mirror, refinement | W = 3, 7 numbers: the window slides over more than twice its width; 2 rebuilds, 1 anomaly | holds, 134,354 states |
| `record_channel` | no seq and key reuse, nothing opened twice, slots only for opened records, seq split | W = 3, limit 6, so up to 7 records, every mix of data and re-keys, 1 restart | holds, 51,143 states |
| `ticket_mint` | no request twice, budget, budget is the owner's | 2 nodes of different sets, 2 tickets, 3 nonces (one more than the budget), 2 epochs, 1 restart, expiry | holds, 17,604 states |
| `rotation` | nothing delivered twice over both nodes; the continuation opens | W = 2, 5 records, 2 attempts, any order of requests | holds, 674,094 states |
| `session_store` | no nonce twice, what is loaded was saved, erased keys stay away | 2 identities, 3 sessions of which one is oversized, 2 records each, 3 faults | holds, 1,345,566 states |
| `client_path` | the pool, streams of hosts, queue, order, failure slot, reports | pool of 2 addresses for 3 hosts, 4 rules, 5 kinds of binding, outbox of 4 units, packets with and without options, 4 outside events, a failing drain among them | holds, 1,819,480 states |
| `masque` | echo, one reading, covers are transparent, both sides end | 4 values per group, answers up to 7 bytes of {0, 1, 2, 4}, 2 records, 3 paddings, 3 targets | holds, 371,900 states |
| `reality` | gate, T1 client, shared slot, quota, end of a splice | 2 connections of every pair of kinds that matters, a client and a copy of its hello among them, 3 minutes, quota 2, buffer 2 | holds, 2,239,751 states |
| `lab_run` | records open, tickets serve their key holder, failures have a reason, runs end | 2 runs, 2 records before and 1 after, 1 fault, W = 2 | holds, 170,554 states |
| `record_restart` | do records sealed after a restart open? | as `record_channel` | violated |
| `rotation_overtaken` | does the mirror follow the client also if requests overtake each other? | as `rotation`, 4 records | violated |
| `masque_payload` | is the target handed the record? | as `masque` | violated |

Why the bounds are enough. The window's edges depend on differences of numbers only, so
three bits and a run of seven numbers meet every position of a number relative to floor,
lo and hi, before and after a slide. Re-key generations interact through neighbouring
thresholds, and seven records give several. The budget is two, so three requests per
ticket meet every branch; three nodes, two of them in one node set, give 350,912 states
and no error. In the store three faults allow a save that stops, a crash, and a second
operation that stops on what the first left; three sessions give a mixture of three
owners. The pool has one host more than addresses, so evictions and the free list
alternate. Two handshakes are enough to disturb the shared slot, and two runs to disturb
a node. Group = 4 keeps each form of a varint and the edge between two forms inside
seven bytes.

`client_path`, `masque`, `reality` and `lab_run` do not check deadlock: their runs,
connections and tunnels really end, and inputs are bounded. The other models never stop,
because a message already sent can be offered again or a session connected.

**Fairness.** It is stated only for steps the code takes without anyone's consent.

- `ClientPath`: the morph controller polls `on_failure` again and again, which is the
  contract of that function. Nothing is assumed of applications, DNS, the connection, or
  whoever drains the outbox.
- `MasqueTunnel`: `read_datagram` fails on a closed connection (`UplinkEnds`), `select!`
  ends with the first loop that returns (`ServerEnds`), and the client's driver sees the
  closed connection (`ClientNotices`). Nothing is assumed of the target; a downlink
  without anything to send is never assumed to notice.
- `RelaySplice`: threads run. `ReadEnds` stands for the read timeout set on both
  sockets, which is what makes it fair; the shutdown of the other thread only makes the
  end come sooner.
- `LabRun`: tasks that can run do run (`ClientStep`, `Serve`); no datagram, fault or
  start of a run is fair. A lost connection ends its exchange with an error, which is
  why `RunsEnd` holds without timers.

The liveness properties are `ClosedIsReported`, `BothSidesEnd`,
`SpliceEnds` and `RunsEnd`.

## 4. Divergences met

Three runs end in a violation; `PROJECT.json` (`findings`) quotes the code and the text.

1. **A restarted sender and its receiver part ways** (`record_restart`). After a re-key
   and `resume_as_sender` also the new records fail to open, not just the old ones.
2. **A late first RESUME takes over the mirror** (`rotation_overtaken`).
3. **Capsules where payloads are due** (`masque_payload`). `drain_binding` sends whole
   capsules (type, length, Context ID, record) as datagram payloads; the receiver takes
   the type byte, which is 0, for the Context ID and hands the target the rest: length,
   Context ID and record. The labs see nothing of it, because their echo returns what
   passed.

Others are stated as definitions, and a cfg that lists the property shows the violation:

| Property (module) | Says | The code does |
|---|---|---|
| `ContinuationAccepted` (DedupReceiver) | numbers above last_seq are accepted after a rebuild (frame-session 963) | the restored flag is never cleared, so everything up to `hi` counts as known for good (472) |
| `SealsInsideLimit` (RecordChannel, `Obedient = TRUE`, `MaxRestarts = 0`, `Limit = 8`) | an owner that re-keys when asked never meets the limit (784, 971) | `record_key_for` compares the seq itself, which a re-key does not reset, and `seal_record` panics (782) |
| `OtherEpochIsNamed` (TicketMint, `Tfk <- KeyPerEpoch`) | a ticket of another epoch is answered with NAK epoch (02-protocols 287) | the blob is opened first and fails as a bad one (ticket-mint 398) |
| `ContinuesAboveAck` (Rotation) | sending goes on above the continuity point (02-protocols 148) | last_seq is 0 before the first record as well as after record 0 (frame-session 706) |
| `CopiesAreUsable` (Rotation) | at least once across a rotation (02-protocols 300) | copies are under the old key, the new mirror has the new one (aether-node 458) |
| `OneWireForm` (MasqueTunnel) | a value has exactly one wire form (frame-session 243-246) | the bits of the longest form that exceed u64 are shifted out (260) |
| `FlowsFollowAddresses` (ClientPath) | flows is the table of fake-ip and FlowId, the stable key of the flow (phase0-path 94, 95), and the destination is the last four bytes of the header (136) | in a header with IP options these are option bytes (144): the packet is routed by them and gets another stream than the other packets to its address |
| `QuotaIsPerDirection` (Reality) | `max_relay_bytes` is a ceiling in each direction (cover-reality 246) | one counter for both directions and the hello (430, as the comment above it says): a splice ends although neither direction had that many bytes |
| `TicketsStay` (SessionStore) | the tickets of the session stay in memory (session-store 289-292) | `save` replaces them by those of the state it is given (408) |

`StreamsOfHosts` and `QuotaHolds`, in runs that pass, are what holds of the code in the
cases of `FlowsFollowAddresses` and `QuotaIsPerDirection`: two hosts share a stream only
after an eviction or with options, and both directions together meet the ceiling.

None of these breaks at-most-once: `NeverAcceptedTwice`, `BudgetHeld`, `DeliveredOnce`
and `NoSeqReuse` hold in the same models.

Smaller differences are visible in the definitions: `recv_record` asks `is_new` first, so
the anomaly counter of `accept` never counts in a session (`AfterRecv`); a repeat of the
first accepted attempt after the second one is answered with budget, not replay, since
one transcript is remembered (`EntryVerdict`); the client of the lab takes a RESUME_NAK
to its mint request for the blob of a ticket, and fails only at N2 (`TakeTicket`);
`QuicBinding::on_failure` reports Closed on every poll, not once (`Polled`).

## 5. Proofs

`tlapm` checks eight modules, for every value of the constants that meets the named
assumptions.

**NodeMemoryProofs**, about what a node remembers. For DedupReceiver (with lemmas of
**DedupWindowProofs**): `DedupTypeCorrect`,
`NeverTakenTwice`, `BitmapIsExact`, `ContinuityNeverMovesBack`, `NextNumberIsNew`,
`WindowImplementsMemory`. They assume `WindowAssumption` (1 <= W <= U64Max),
`BoundAssumption`, and `MaxSeq <= U64Max`: at `u64::MAX` itself the saturating addition
makes the window one wider than its bitmap, which the policy limit keeps out of reach.
`AtMostOnce` is not inductive: a number could be taken, forgotten and taken again. The
invariant `DedupInv` adds that everything taken was issued and, if it is under the
mirror's key, is at most `hi`; that no number is sealed under a key that is still to
come; that `lo` is where `slide_lo` puts it, so every number from `lo` to `hi` has a bit;
that a marked number was taken, and in a window that was not rebuilt also the converse;
and that `hi`, or a number above it, was taken whenever a number of the mirror's key lies
at or below `hi`. At most once over several mirrors rests on the fresh keys,
not on last_seq: a rebuild from a request signed some records ago may set the continuity
point back, as N2 does in `rotation_overtaken`, and `ContinuityNeverMovesBack` is about
one mirror only. `NextNumberIsNew` says that such a rebuild does not refuse what
follows; numbers that were overtaken it does refuse (`ContinuationAccepted`, section 4).
The refinement goes action by action: `Accept` is `Take`, `Refuse` or a stutter.

For TicketMint: `TicketTypeCorrect`, `ReplayIsNeverAccepted`, `BudgetIsHeld`,
`BudgetIsTheOwners`, for any number of nodes, tickets and nonces, any keys, node sets and
clocks, under `MaxAttempts <= 2`. That hypothesis is needed: with three attempts the
sequence first, second, first again would be accepted, since a node remembers one
transcript. The invariant is `TypeOK` with three facts: the entry's count is the number of
distinct requests accepted, a request accepted and not the remembered one exists only when
the budget is spent, and what was accepted had been signed.

**RecordChannelProofs**: `SeqIsNeverReused`, `OpenedOnce`, `SlotsAreKept`,
`SplitFollowsSeq`, under
`WindowAssumption` and `LimitAssumption`, for any limit, any number of restarts and any
order of deliveries. `NoSeqReuse` needs to know that the wire stays below the *saved*
counter too, or a restart could bring a used seq back; `OpenedAtMostOnce` needs to know
that inside the window a bit stands exactly for an opened record, so that a repeat is
refused above `lo` by its bit and below it by `lo`. The invariant (`ChannelInvariant`)
is these facts with the shape of the window. `SeqSplit` rests on a second invariant,
`GenInv`: without a restart the generations of the receiver are the first ones of the
sender's, every record has the base of the generation its seq falls in, and two
generations never have the same base, since each is one nonce longer than the one before.

**RotationProofs**: `RecordsAreDeliveredOnce` and `RotatedSessionOpens`, under
`RotationAssumption` and `MaxAttempts <= 2`. The hypothesis is needed: with three attempts
TLC finds a record delivered twice, because N2 can answer the second attempt, the first
and the third in an order in which a mirror with the client's key is replaced by an empty
one with the same key. What the invariant (`RotationInvariant`) says: a mirror opens
records only under the key of the client's last attempt; a record's seq tells whether it
was sealed before or after the rotation, hence which node may open it; what N2 accepted
is the transcript it remembers or the budget is spent; so a mirror the client continued
with is only ever replaced by one with the other attempt's key.

**LabRunProofs**: `OwnersOpen`, `KeyHolderResumes`, `FailuresHaveReasons`, under
`LabAssumption` (the records of a run stay below the policy limit), for any number of
overlapping runs, records, lost connections and node restarts. A node has one key and one
mirror for all its connections, so the invariant (`LabInvariant`) follows each run through
its exchanges: the state of a node has the key of its owner, the base of a datagram is the
one its run has at that node, what a request or an answer holds belongs to the run that
waits for it, and a run that is not blamed finds its manifests true, its connections up
and, until its ticket is minted, N1 with its own key.

**CoverProofs**, about the covers. The codecs first, for every `Group`, every width and
every byte string, under `CodecAssumption` (a group has an even number of values, more
than one, a U32 is a U64, the type codes fit a byte), `FrameAssumption` (a datagram fits a
capsule) and `BadAssumption` (a refusal is no value). `RecordsComeBack`: a record of the code's
widths decodes to itself. `RecordsEndOnce`: of two prefixes of the same bytes at most one
is a record, since the header is read alike in both and says where the record ends.
`CapsulesAreCanonical`: bytes that decode as a capsule are the bytes its encoder writes,
since a QUIC varint is taken in its shortest form only. The same is false for records
(`OneWireForm`, section 4). What a loop computes is an induction over the data, which the
provers cannot take from the library's induction theorems; `LeastNumber` stands in for
it: of the numbers a loop would be wrong for take the least, the one before is right, and
unfolding the function once gives the contradiction. A smaller number never has more
groups (`GroupsOrder`), so the reader does not refuse a number of its width as too long.
The proofs cover the longest form of each varint too, which the run does not reach.

On top of them the tunnel: `EchoGivesBack`, `OneReadingHolds`, `CoversGiveBack`, under
`TunnelAssumption` (the records have the code's widths, the two cover keys differ), for any
records, paddings, targets, losses and orders. The invariant (`TunnelInvariant`) says what
is where: box and uplink hold capsules of records that were sent, the target what is left
of such a capsule without its first byte, and what it returns is its bytes with that byte
before them, hence a capsule again.

Then Reality: `GateLetsInItsOwn`, `NodeIsAuthentic`, `OverlapAloneFails`, `QuotaIsHeld`,
for any number of connections, clients and bytes, under `SpliceAssumption`,
`RealityAssumption` and `MarkersAssumption`. For the splice the invariant counts: bytes are
counted after they went out, so what went out is the shared counter and what the two
threads have written and not counted yet. For the handshake it says when the state the T1
clients share belongs to a connection: from its own hello until another handshake writes
to it, that the tag of a slot is computed over the hello itself, and that the hello of a
copy is the hello of a client; hellos of two clients differ in their random.

**SessionStoreProofs**: `StoreTypeCorrect`, `NonceIsNeverReused`, `LoadIsWhole`,
`ErasedIsNotLoaded`, for any number of sessions, records and faults, under
`StoreAssumption` and `MarkersAssumption` (that "no entry" and "damaged" are no values).
The hard part is that an operation may stop anywhere and another start on what it left.
The invariant (`StoreInvariant`) speaks of pairs: whatever key and whatever counter stand
in the store, no record of that key with that number or a higher one has left; the same
for the running key beside the stored counter, since a save in progress will put the
key first; a pending record is the one below the running counter, and its job is the
owner's own; erased keys stand nowhere; and unless an operation stopped half-way the
entries are those of one saved state.

**ClientPathProofs**: `PathTypeCorrect`, `PoolStaysSound`, `StreamsTellHostsApart`,
`NothingEverVanishes`, `DeviceOrderHolds`, `SlotKeepsTheWorst`, for any hosts, pool, rules,
binding, cap and padding, and any interleaving of applications, device, sender, writer and
controller. They assume `PoolAssumption` and `RangeAssumption` (the pool's range has `Cap`
addresses of the address space), `MuxAssumption` and `PathAssumption`; its last part,
`MaxInputs <= Limit`, keeps the session within its limit, as in the code a longer one
panics (RecordChannel). The invariant (`PathInvariant`) has a part for each place a packet
passes. That the pool never says Exhausted is not inductive: an eviction could lose an
address. It follows from counting: every address below `next` is held by one host or free
once, so `next` is the first address plus hosts plus free ones, and a pool with fewer than
`Cap` hosts has a free address or a fresh one. `StreamsOfHosts` needs the packet's
history: a packet for a host that was not evicted carries the address that host holds,
from the application through the queue to the record, and flows are numbered without gaps,
so without options the stream is the flow of the address. `DeviceOrder` needs the same order for those
that wait, also for one that was put back. `NothingVanishes` is kept because wire, writer
and outbox are one sequence, which a step only cuts elsewhere or makes longer at its end;
a drain that fails takes the writer's part out of its middle and puts it into `lost`.
For the byte counter the proof needs that a sum over one frame more is the old sum plus
that frame: an induction on the frames, written as a least counterexample in a
well-founded order, since the induction theorems of the library cannot be used here.

Only model-checked is liveness (`ClosedIsReported`, `BothSidesEnd`, `SpliceEnds`,
`RunsEnd`), since the prover treats neither fairness nor ENABLED. Every
invariant and every action property of a run that passes is stated by a theorem.

## 6. Not modelled, and why

- **Cryptographic primitives**: ciphers, signatures, hashes and DH are taken as injective
  terms. What each derivation binds together is modelled where it matters (`KResume`,
  `Rotated`, `AuthKey`, `ProbeTag`, `Generation`); that the binding is strong is not a
  question for a model of states.
- **Byte layouts of TLS, the Noise messages, tickets and control frames**, and their
  parsers; text parsers of rules and manifests. They have no state. Malformed streams end
  `serve_connection` of the lab's node; no program of the repository sends one.
- **Drivers**: HTTP/3, QUIC, boring and rustls take their steps in the order of their
  protocols and are otherwise outside; so is the set-up of sockets.
- **Records towards the client.** No code of the repository seals one, so the client's own
  window after `on_resume_ack` and two crossing re-keys have no peer to model.
- **A second rotation with one `ClientRotation`.** Both users of the type make a new one
  per rotation. Its `attempts` are never reset, so a second use would start with the
  attempts the first one left.
- **Durations**: a timer may fire at any time. `SESSION_TIMEOUT` is declared and unused.
- **u64 edges** beyond the policy limit, and the branch of `accept` that counts numbers
  under `window_lo`, which no session reaches.
- `validate_config` and `write_packet` of the device stub: a range check, and a log that
  only tests read.
- **Morph controller, cover engine, telemetry guard, multi-hop**: the design documents
  describe them; there is no code.
