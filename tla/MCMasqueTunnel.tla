--------------------------- MODULE MCMasqueTunnel ---------------------------
EXTENDS MasqueTunnel

Rec(kind, seq, stream, ct) ==
  [kind |-> kind, seq |-> seq, stream_id |-> stream, flags |-> 0, ciphertext |-> ct]

\* A record with numbers of more than one group, and one whose ciphertext looks like a record.
MCRecords == {Rec(2, 31, 5, <<1>>), Rec(1, 4, 0, <<1, 0, 0, 0, 0>>)}
MCTargets == {[host |-> "IPv6", port |-> 443], [host |-> "name", port |-> 443], [host |-> "IPv4", port |-> 0]}
MCPaddings == {<<>>, <<0>>, <<1, 0, 0, 0, 0>>}
=============================================================================
