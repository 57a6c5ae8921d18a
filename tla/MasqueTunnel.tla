---------------------------- MODULE MasqueTunnel ----------------------------
(***************************************************************************)
(* A MASQUE tunnel (crate cover-masque): the binding's queue of capsules,  *)
(* the HTTP/3 client that drains it (h3_live), the receiver that proxies   *)
(* datagrams to a UDP socket (receiver), and the UDP target behind it.     *)
(*                                                                         *)
(* HTTP/3 datagrams may be lost and overtake each other.  The target is    *)
(* any UDP host: it may answer with bytes of its own, which it composes    *)
(* one by one in `answer` (any decoder of this project may be handed such  *)
(* bytes), or return what it got, as the echo of the labs does.            *)
(***************************************************************************)
EXTENDS CoverFrames

CONSTANTS
  Records,     \* records the session seals
  Alphabet,    \* byte values the target composes answers of
  MaxAnswer,   \* bound: length of an answer
  MaxShort,    \* bound: length of an answer that is sent, or composed while other things are on their way
  Cover, OtherCover,  \* K_cover of this session and of another one
  Paddings,    \* paddings the padded cover draws
  Targets      \* [host, port] the tunnel is asked for

ASSUME TunnelAssumption ==
  /\ \A rec \in Records : rec \in WireRecords /\ Len(rec.ciphertext) < U64
  /\ Paddings \subseteq Seq(Byte) /\ Alphabet \subseteq Byte
  /\ Cover # OtherCover

VARIABLES
  tunnel,    \* connect_udp and the halves it leaves: Idle, Asked, Open, Failed, Closed
  request,   \* Extended CONNECT the client sent
  server,    \* serve_connect_udp: Accepting, Proxy, Ended
  loops,     \* uplink and downlink of the receiver that still run
  box,       \* capsules in the outbox of the binding
  sent,      \* records the binding took
  up, down,  \* datagram payloads on their way
  target,    \* UDP payloads the target got
  echoed,    \* payloads the receiver sent back for an echo
  answer     \* bytes of the target's own answer

tunnelVars == <<tunnel, request, server, loops, box, sent, up, down, target, echoed, answer>>

TunnelTypeOK ==
  /\ tunnel \in {"Idle", "Asked", "Open", "Failed", "Closed"}
  /\ request = Bad \/ request.path \in Targets
  /\ server \in {"Accepting", "Proxy", "Ended"} /\ loops \subseteq {"Uplink", "Downlink"}
  /\ sent \subseteq Records
  /\ \A i \in DOMAIN box : DecodeMasqueFrame(box[i]) \in sent
  /\ \A p \in up \union down \union target \union {answer} : \A i \in DOMAIN p : p[i] \in Byte
  /\ echoed \subseteq {EncodeUdp(t) : t \in target}

TunnelInit ==
  /\ tunnel = "Idle" /\ request = Bad
  /\ server = "Accepting" /\ loops = {}
  /\ box = <<>> /\ sent = {} /\ up = {} /\ down = {} /\ target = {} /\ echoed = {}
  /\ answer = <<>>

-----------------------------------------------------------------------------
\* ConnectUdpRequest::new takes any host with a name and a port; the Extended CONNECT
\* has it in its path.
ConnectUdpRequest(t) == t.host # "" /\ t.port # 0
BuildConnectRequest(t, protocol) == [protocol |-> protocol, path |-> t]

\* parse_target_from_path: the receiver resolves no names.
ParseTarget(path) == IF path.host \in {"IPv4", "IPv6"} /\ path.port # 0 THEN path ELSE Bad

\* connect_udp up to recv_response; another HTTP/3 client may ask for another protocol.
Ask(t, protocol) ==
  /\ tunnel = "Idle"
  /\ IF ConnectUdpRequest(t)
     THEN tunnel' = "Asked" /\ request' = BuildConnectRequest(t, protocol)
     ELSE tunnel' = "Failed" /\ UNCHANGED request
  /\ UNCHANGED <<server, loops, box, sent, up, down, target, echoed, answer>>

\* serve_connect_udp up to the answer: 200 and the two loops, or the end of the connection.
Serve ==
  /\ server = "Accepting" /\ tunnel = "Asked"
  /\ IF request.protocol = "connect-udp" /\ ParseTarget(request.path) # Bad
     THEN server' = "Proxy" /\ loops' = {"Uplink", "Downlink"}
     ELSE server' = "Ended" /\ loops' = {}
  /\ UNCHANGED <<tunnel, request, box, sent, up, down, target, echoed, answer>>

\* recv_response: the tunnel is open only after a 2xx.
Response ==
  /\ tunnel = "Asked" /\ server # "Accepting"
  /\ tunnel' = IF server = "Proxy" THEN "Open" ELSE "Failed"
  /\ UNCHANGED <<request, server, loops, box, sent, up, down, target, echoed, answer>>

\* MasqueBinding::send; a record longer than a UDP payload is refused.
Send(rec) ==
  /\ rec \notin sent /\ Len(Encode(rec)) <= MaxUdp
  /\ Len(answer) <= MaxShort
  /\ box' = Append(box, EncodeCapsule(Encode(rec)))
  /\ sent' = sent \union {rec}
  /\ UNCHANGED <<tunnel, request, server, loops, up, down, target, echoed, answer>>

\* drain_binding: it takes the whole queue; n capsules go out before the first error of
\* the sender, the others are lost with it.
DrainBinding(n) ==
  /\ tunnel = "Open" /\ box # <<>>
  /\ up' = up \union {box[i] : i \in 1 .. n}
  /\ box' = <<>>
  /\ UNCHANGED <<tunnel, request, server, loops, sent, down, target, echoed, answer>>

\* One turn of the uplink: a payload that does not decode is dropped.
Uplink(p) ==
  /\ server = "Proxy" /\ "Uplink" \in loops
  /\ up' = up \ {p}
  /\ target' = IF DecodeUdp(p) = Bad THEN target ELSE target \union {DecodeUdp(p)}
  /\ UNCHANGED <<tunnel, request, server, loops, box, sent, down, echoed, answer>>

\* The downlink with what the target returned; with an answer of its own.
Echo(t) ==
  /\ server = "Proxy" /\ "Downlink" \in loops
  /\ down' = down \union {EncodeUdp(t)} /\ echoed' = echoed \union {EncodeUdp(t)}
  /\ UNCHANGED <<tunnel, request, server, loops, box, sent, up, target, answer>>

Compose(b) ==
  /\ server = "Proxy" /\ Len(answer) < IF sent = {} /\ down = {} THEN MaxAnswer ELSE MaxShort
  /\ answer' = Append(answer, b)
  /\ UNCHANGED <<tunnel, request, server, loops, box, sent, up, down, target, echoed>>

Answer ==
  /\ server = "Proxy" /\ "Downlink" \in loops /\ Len(answer) \in 1 .. MaxShort
  /\ down' = down \union {EncodeUdp(answer)}
  /\ answer' = <<>>
  /\ UNCHANGED <<tunnel, request, server, loops, box, sent, up, target, echoed>>

\* read_datagram of the client; its caller decodes the payload.
ReadDatagram(p) ==
  /\ tunnel = "Open"
  /\ down' = down \ {p} /\ echoed' = echoed \ {p}
  /\ UNCHANGED <<tunnel, request, server, loops, box, sent, up, target, answer>>

-----------------------------------------------------------------------------
\* The socket reports an error to the loop that uses it (a target without a listener).
SocketFails(loop) ==
  /\ server = "Proxy" /\ loop \in loops
  /\ loops' = loops \ {loop}
  /\ UNCHANGED <<tunnel, request, server, box, sent, up, down, target, echoed, answer>>

\* The client drops its half of the session.
ClientCloses ==
  /\ tunnel = "Open" /\ tunnel' = "Closed"
  /\ UNCHANGED <<request, server, loops, box, sent, up, down, target, echoed, answer>>

\* read_datagram of the receiver fails on the closed connection; the downlink sees it
\* only when it has something to send.
UplinkEnds ==
  /\ tunnel = "Closed" /\ "Uplink" \in loops
  /\ loops' = loops \ {"Uplink"}
  /\ UNCHANGED <<tunnel, request, server, box, sent, up, down, target, echoed, answer>>

\* Mutated form of SelectEnds: both loops are joined.
JoinEnds == loops = {}

\* select!: the first loop that returns ends the service and drops the connection.
SelectEnds == loops # {"Uplink", "Downlink"}

ServerEnds ==
  /\ server = "Proxy" /\ SelectEnds
  /\ server' = "Ended" /\ loops' = {}
  /\ UNCHANGED <<tunnel, request, box, sent, up, down, target, echoed, answer>>

ClientNotices ==
  /\ tunnel = "Open" /\ server = "Ended" /\ tunnel' = "Closed"
  /\ UNCHANGED <<request, server, loops, box, sent, up, down, target, echoed, answer>>

TunnelNext ==
  \/ \E t \in Targets, protocol \in {"connect-udp", "websocket"} : Ask(t, protocol)
  \/ Serve
  \/ Response
  \/ \E rec \in Records : Send(rec)
  \/ \E n \in 0 .. Len(box) : DrainBinding(n)
  \/ \E p \in up : Uplink(p)
  \/ \E t \in target : Echo(t)
  \/ \E b \in Alphabet : Compose(b)
  \/ Answer
  \/ \E p \in down : ReadDatagram(p)
  \/ \E loop \in {"Uplink", "Downlink"} : SocketFails(loop)
  \/ ClientCloses
  \/ UplinkEnds
  \/ ServerEnds
  \/ ClientNotices

TunnelSpec ==
  /\ TunnelInit /\ [][TunnelNext]_tunnelVars
  /\ WF_tunnelVars(UplinkEnds) /\ WF_tunnelVars(ServerEnds) /\ WF_tunnelVars(ClientNotices)

-----------------------------------------------------------------------------
\* masque_receiver_lab: through a target that returns what it gets, the client reads back
\* records it sent, whole, whatever was lost or overtaken on the way.
EchoReturnsRecords == \A p \in echoed : DecodeMasqueFrame(p) \in sent

\* RFC 9000 16 in decode_varint: bytes that decode as a capsule are the bytes its encoder writes.
OneCapsule ==
  DecodeCapsule(answer) # Bad => EncodeCapsule(DecodeCapsule(answer)) = answer

\* What a peer sends has one reading, as a capsule and as a padded plaintext: Record::decode
\* takes exactly its own bytes, so whatever the padding holds, a plaintext has at most one
\* cut that leaves a record and the longest cut of the padded cover is the right one.
OneReading == OneCapsule /\ \A m, n \in Cuts(answer) : m = n

\* Through every cover a record comes out as it went in, whatever padding it was given, and
\* a frame of another session's cover key gives nothing.
CoversAreTransparent ==
  \A rec \in sent :
    /\ DecodeFrame(EncodeFrame(rec)) = rec
    /\ DecodeMasqueFrame(EncodeCapsule(Encode(rec))) = rec
    /\ DecodeRealityFrame(Cover, EncodeRealityFrame(Cover, rec)) = rec
    /\ DecodeRealityFrame(OtherCover, EncodeRealityFrame(Cover, rec)) = Bad
    /\ \A pad \in Paddings :
         /\ DecodeCoverFrame(Cover, EncodeCoverFrame(Cover, rec, pad)) = rec
         /\ DecodeCoverFrame(OtherCover, EncodeCoverFrame(Cover, rec, pad)) = Bad

\* The tunnel does not stay half open: when either side ends, both do.
BothSidesEnd ==
  (tunnel = "Closed" \/ server = "Ended") ~> (tunnel # "Open" /\ server # "Proxy")

-----------------------------------------------------------------------------
\* h3_live, receiver: the payload of a datagram is the Context ID and the record, so the
\* target is handed the record that was sent.
TargetGetsRecords == \A t \in target : Decode(t) \in sent

\* read_varint: a value has exactly one wire form, so bytes that decode to a record are
\* the bytes that encode it.
OneWireForm == Decode(answer) # Bad => Encode(Decode(answer)) = answer
=============================================================================
