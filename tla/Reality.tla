------------------------------- MODULE Reality ------------------------------
(***************************************************************************)
(* The Reality cover (crate cover-reality): the gate that looks at an open *)
(* ClientHello, the three ways on from there (accept TLS, splice to the    *)
(* target site, close), the per-handshake certificate of the Accept path,  *)
(* and the T1 client, whose handshakes share one RealityClientState.       *)
(*                                                                         *)
(* Keys, tags and certificates are terms: what was derived from the same   *)
(* inputs is equal, and nothing else is.  Node and client have clocks of   *)
(* minutes of their own.  rustls and boring take their steps in the order  *)
(* of TLS 1.3; steps of different connections interleave.                  *)
(***************************************************************************)
EXTENDS RelaySplice, FiniteSets

CONSTANTS
  Conns,       \* connections to the node
  Casts,       \* who may open them
  Node,        \* NodeRealityKey of this node; a stale manifest names another
  None,
  MaxSlot      \* bound: minutes that pass

Kinds == {"Client", "StaleManifest", "StaleCover", "Replay", "WrongTag", "Probe", "Junk"}
Tagged == {"Client", "StaleManifest", "StaleCover"}

ASSUME RealityAssumption == Casts \subseteq [Conns -> Kinds]

VARIABLES
  kind,       \* who opened each connection
  clock,      \* minutes of the node and of the clients
  shared,     \* T1Shared: keyshare_priv and last_random of the latest handshake
  client,     \* where the client of a connection is
  hello,      \* ClientHello sent on it
  node,       \* where the node is with it
  cert,       \* certificate of the Accept path
  spliced,    \* connection the relay serves
  gatedAt,    \* history: the node's minute at the gate
  overlapped  \* history: another handshake wrote to shared during this one

realityVars == <<kind, clock, shared, client, hello, node, cert, spliced, gatedAt, overlapped>>
vars == <<realityVars, spliceVars>>

T1Clients == {c \in Conns : kind[c] \in Tagged}

-----------------------------------------------------------------------------
SatSub(a, b) == IF a > b THEN a - b ELSE 0

\* The window a probe_tag is computed over.
Window(slot) == <<SatSub(slot, 1), slot + 1>>

\* The tag does not cover itself: its place is zeroed.
Redacted(h) == [h EXCEPT !.tag = None]
ProbeTag(k_probe, bytes, window) == [key |-> k_probe, over |-> bytes, window |-> window]

\* client_authenticator of a ClientHello.
Authenticator(h, slot) == ProbeTag("K_probe", Redacted(h), Window(slot))

\* Mutated form of GateSlots: only the slots the clock has reached.
GateSlotsPast(slot) == {SatSub(slot, 1), slot}

GateSlots(slot) == {SatSub(slot, 1), slot, slot + 1}

\* "None" is no tag, nobody's random, and not the node; a minute is none of the names.
ASSUME MarkersAssumption ==
  /\ MaxSlot \in Nat
  /\ None \notin Conns \union {Node} \union 0 .. MaxSlot
  /\ \A tls \in BOOLEAN, c \in Conns, r \in Conns \union {None}, slot \in 0 .. MaxSlot + 1 :
       LET shares == {[group |-> "X25519", key |-> c]} IN
       None # Authenticator([tls |-> tls, shares |-> shares, random |-> r, tag |-> None], slot)

\* gate_decision.
GateDecision(h, slot) ==
  IF ~h.tls THEN "Reject"
  ELSE IF h.tag \in {Authenticator(h, s) : s \in GateSlots(slot)} THEN "Accept"
  ELSE "Relay"

\* derive_reality_auth_key: the node's half, and the client's.
AuthKey(nodeKey, keyshare, random) == [dh |-> <<nodeKey, keyshare>>, salt |-> random]

\* The X25519 share among those a ClientHello offers.
KeyShare(h) == (CHOOSE s \in h.shares : s.group = "X25519").key

\* RealityCertState: one Ed25519 pair per process of the node.
CertPub == <<"cert_pub", Node>>

\* HMAC-SHA512 of cert_pub under the AuthKey, in the place of the certificate's signature.
CertSignature(auth_key, cert_pub) == [key |-> auth_key, over |-> cert_pub]

\* Mutated form of RealityCert: the salt of the first handshake is kept.
RealityCertOnce(h) ==
  [pub |-> CertPub, sig |-> CertSignature(AuthKey(Node, KeyShare(h), None), CertPub)]

\* build_reality_cert.
RealityCert(h) ==
  [pub |-> CertPub, sig |-> CertSignature(AuthKey(Node, KeyShare(h), h.random), CertPub)]

ManifestKey(c) == IF kind[c] = "StaleManifest" THEN None ELSE Node

\* Mutated form of CertMatches: the manifest key takes no part.
CertMatchesAnyNode(c) ==
  cert[c].sig = CertSignature(AuthKey(Node, shared.keyshare, shared.random), cert[c].pub)

\* verify_server_cert: with whatever keyshare and random the shared state holds now.
CertMatches(c) ==
  cert[c].sig = CertSignature(AuthKey(ManifestKey(c), shared.keyshare, shared.random), cert[c].pub)

-----------------------------------------------------------------------------
TypeOK ==
  /\ SpliceTypeOK
  /\ kind \in Casts
  /\ clock \in [{"node", "clients"} -> 0 .. MaxSlot]
  /\ shared.keyshare \in T1Clients \union {None} /\ shared.random \in T1Clients \union {None}
  /\ client \in [Conns -> {"Idle", "Keyed", "Sent", "Completed", "Verified", "Failed", "Speaking"}]
  /\ \A c \in Conns : hello[c] = None <=> client[c] \in {"Idle", "Keyed"}
  /\ node \in [Conns -> {"Peeking", "Accept", "Relay", "Reject", "Cert", "Aether", "Dropped",
                         "Ended"}]
  /\ \A c \in Conns : cert[c] # None => node[c] \in {"Cert", "Aether", "Dropped", "Ended"}
  /\ spliced \in Conns \union {None} /\ (spliced = None <=> relay = "None")
  /\ gatedAt \in [Conns -> 0 .. MaxSlot \union {None}]
  /\ overlapped \subseteq T1Clients

Init ==
  /\ SpliceInit
  /\ kind \in Casts
  /\ clock = [who \in {"node", "clients"} |-> 0]
  /\ shared = [keyshare |-> None, random |-> None]
  /\ client = [c \in Conns |-> "Idle"]
  /\ hello = [c \in Conns |-> None]
  /\ node = [c \in Conns |-> "Peeking"]
  /\ cert = [c \in Conns |-> None]
  /\ spliced = None
  /\ gatedAt = [c \in Conns |-> None]
  /\ overlapped = {}

\* Bound: time passes while a hello is still to come to the gate, until a splice begins.
Tick(who) ==
  /\ clock[who] < MaxSlot /\ relay = "None" /\ \E c \in Conns : gatedAt[c] = None
  /\ clock' = [clock EXCEPT ![who] = @ + 1]
  /\ UNCHANGED <<kind, shared, client, hello, node, cert, spliced, gatedAt, overlapped, spliceVars>>

\* Handshakes that a write of c to the shared state falls into.
Disturbed(c) == {d \in T1Clients \ {c} : client[d] \in {"Keyed", "Sent", "Completed"}}

\* kx.start: the keyshare of the ClientHello.
KxStart(c) ==
  /\ c \in T1Clients /\ client[c] = "Idle"
  /\ client' = [client EXCEPT ![c] = "Keyed"]
  /\ shared' = [shared EXCEPT !.keyshare = c]
  /\ overlapped' = overlapped \union Disturbed(c)
  /\ UNCHANGED <<kind, clock, hello, node, cert, spliced, gatedAt, spliceVars>>

\* A ClientHello without a tag; the client's only group is X25519.
Hello(c) == [tls |-> kind[c] # "Junk", shares |-> {[group |-> "X25519", key |-> c]},
             random |-> c, tag |-> None]

\* The last 32-byte fill is the random of the ClientHello; the tag goes into it.
SendHello(c) ==
  /\ client[c] = "Keyed"
  /\ client' = [client EXCEPT ![c] = "Sent"]
  /\ shared' = [shared EXCEPT !.random = c]
  /\ LET h == Hello(c) IN
     hello' = [hello EXCEPT ![c] = [h EXCEPT !.tag = Authenticator(h, clock["clients"])]]
  /\ overlapped' = overlapped \union Disturbed(c)
  /\ UNCHANGED <<kind, clock, node, cert, spliced, gatedAt, spliceVars>>

\* A probe that saw a client's hello sends a copy of its bytes.
SendCopy(c) ==
  /\ kind[c] = "Replay" /\ client[c] = "Idle"
  /\ client' = [client EXCEPT ![c] = "Sent"]
  /\ \E d \in T1Clients : hello[d] # None /\ hello' = [hello EXCEPT ![c] = hello[d]]
  /\ UNCHANGED <<kind, clock, shared, node, cert, spliced, gatedAt, overlapped, spliceVars>>

\* Anyone else: no TLS, TLS without a tag, or with a tag over other bytes.
SendOther(c) ==
  /\ c \notin T1Clients /\ kind[c] # "Replay" /\ client[c] = "Idle"
  /\ client' = [client EXCEPT ![c] = "Sent"]
  /\ LET h == Hello(c) IN
     hello' = [hello EXCEPT ![c] =
       IF kind[c] = "WrongTag"
       THEN [h EXCEPT !.tag = Authenticator([h EXCEPT !.random = None], clock["clients"])]
       ELSE h]
  /\ UNCHANGED <<kind, clock, shared, node, cert, spliced, gatedAt, overlapped, spliceVars>>

\* The gate; the node serves one splice in this model.
Gate(c) ==
  /\ node[c] = "Peeking" /\ hello[c] # None
  /\ node' = [node EXCEPT ![c] = GateDecision(hello[c], clock["node"])]
  /\ gatedAt' = [gatedAt EXCEPT ![c] = clock["node"]]
  /\ UNCHANGED <<kind, clock, shared, client, hello, cert, spliced, overlapped, spliceVars>>

RelayToTarget(c) ==
  /\ node[c] = "Relay" /\ relay = "None"
  /\ relay' = "Connecting" /\ spliced' = c
  /\ UNCHANGED <<kind, clock, shared, client, hello, node, cert, gatedAt, overlapped, copier, waiting,
                 offered, shut, quota, forwarded>>

Splice ==
  /\ SpliceNext
  /\ UNCHANGED realityVars

\* AcceptServer: the select-certificate callback reads keyshare and random of this hello.
SelectCertificate(c) ==
  /\ node[c] = "Accept"
  /\ node' = [node EXCEPT ![c] = "Cert"]
  /\ cert' = [cert EXCEPT ![c] = RealityCert(hello[c])]
  /\ UNCHANGED <<kind, clock, shared, client, hello, spliced, gatedAt, overlapped, spliceVars>>

\* accept() of a hello whose sender has no key for the share in it: an error, and the end.
HandshakeFails(c) ==
  /\ node[c] = "Cert" /\ c \notin T1Clients
  /\ node' = [node EXCEPT ![c] = "Ended"]
  /\ UNCHANGED <<kind, clock, shared, client, hello, cert, spliced, gatedAt, overlapped, spliceVars>>

\* complete(): the keyshare of this handshake is put back.
KxComplete(c) ==
  /\ c \in T1Clients /\ client[c] = "Sent" /\ cert[c] # None
  /\ client' = [client EXCEPT ![c] = "Completed"]
  /\ shared' = [shared EXCEPT !.keyshare = c]
  /\ overlapped' = overlapped \union Disturbed(c)
  /\ UNCHANGED <<kind, clock, hello, node, cert, spliced, gatedAt, spliceVars>>

VerifyServerCert(c) ==
  /\ client[c] = "Completed"
  /\ client' = [client EXCEPT ![c] = IF CertMatches(c) THEN "Verified" ELSE "Failed"]
  /\ node' = IF CertMatches(c) THEN node ELSE [node EXCEPT ![c] = "Ended"]
  /\ UNCHANGED <<kind, clock, shared, hello, cert, spliced, gatedAt, overlapped, spliceVars>>

\* The first frame inside TLS, and classify_first_record: K_cover must be the node's.
FirstRecord(c) ==
  /\ client[c] = "Verified"
  /\ client' = [client EXCEPT ![c] = "Speaking"]
  /\ node' = [node EXCEPT ![c] = IF kind[c] = "StaleCover" THEN "Dropped" ELSE "Aether"]
  /\ UNCHANGED <<kind, clock, shared, hello, cert, spliced, gatedAt, overlapped, spliceVars>>

Next ==
  \/ \E who \in {"node", "clients"} : Tick(who)
  \/ \E c \in Conns :
       \/ KxStart(c) \/ SendHello(c) \/ SendCopy(c) \/ SendOther(c)
       \/ Gate(c) \/ RelayToTarget(c) \/ SelectCertificate(c) \/ HandshakeFails(c)
       \/ KxComplete(c) \/ VerifyServerCert(c) \/ FirstRecord(c)
  \/ Splice

Spec == Init /\ [][Next]_vars /\ SpliceFairness

-----------------------------------------------------------------------------
Distance(a, b) == IF a > b THEN a - b ELSE b - a

\* The gate's three slots, at the edge of 0 and under a clock that moved on while the
\* hello was under way: what it accepts is, byte for byte, a hello some client made at
\* most a minute off the node's clock, and it accepts every one of those, copies too:
\* gate_decision remembers nothing, its window is all there is against a replay.
TagSlot(c) == hello[c].tag.window[2] - 1
GateKnowsItsOwn ==
  \A c \in Conns :
    gatedAt[c] # None =>
      (node[c] \notin {"Relay", "Reject"} <=>
         \E d \in T1Clients :
           hello[c] = hello[d] /\ Distance(TagSlot(d), gatedAt[c]) <= 1)

\* T1: only the node of the manifest is taken, for the very handshake of this hello.
OnlyTheNodeVerifies ==
  \A c \in Conns :
    client[c] \in {"Verified", "Speaking"} =>
      /\ kind[c] # "StaleManifest"
      /\ cert[c].sig.key.salt = hello[c].random

\* T1Shared is one slot for all handshakes: the true node is turned away only if another
\* handshake wrote to the slot in the meantime.
FailsOnlyOverlapped ==
  \A c \in Conns : client[c] = "Failed" => kind[c] = "StaleManifest" \/ c \in overlapped

\* RelayOutcome and max_relay_bytes: the quota of both threads together was reached exactly
\* if one of them saw it, however their counting interleaved, and beyond it each thread
\* may have one buffer out that is not counted.
QuotaHolds ==
  /\ relay \in Outcomes \ {"UpstreamUnreachable"} => (relay = "QuotaExhausted" <=> quota >= MaxRelay)
  /\ forwarded < MaxRelay + 2 * Buffer \/ forwarded = HelloLen

\* max_relay_bytes of RelaySpec ("ceiling of bytes in each direction"): a splice that ends
\* on the quota had that many bytes in one of its directions.
QuotaIsPerDirection ==
  relay = "QuotaExhausted" =>
    HelloLen + offered["ToSite"] >= MaxRelay \/ offered["ToProbe"] >= MaxRelay

\* F-04: the end of one direction wakes the other; a splice does not stay for ever.
SpliceEnds == relay = "Connecting" ~> relay \in Outcomes
=============================================================================
