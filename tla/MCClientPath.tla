--------------------------- MODULE MCClientPath ---------------------------
(***************************************************************************)
(* Instance of ClientPath for TLC.  Addresses have four bits: 2 and 3 are  *)
(* the pool's, 8 .. 11 is a network that is reached directly, 12 .. 15 one *)
(* that is blocked, up to one address that a later rule would let pass.    *)
(***************************************************************************)
EXTENDS ClientPath

CONSTANTS h1, h2, h3

Cidr(bits, len) == [family |-> "v4", bits |-> bits, len |-> len]

SplitTunnel ==
  << [action |-> "Direct", host |-> h1, cidrs |-> {}],
     [action |-> "Block", host |-> NoHost, cidrs |-> {Cidr(12, 2)}],
     [action |-> "Direct", host |-> NoHost, cidrs |-> {Cidr(8, 2)}],
     [action |-> "Route", host |-> NoHost, cidrs |-> {Cidr(8, 1)}] >>
OneOfEach ==
  { [dst |-> 5, options |-> None, len |-> 2],
    [dst |-> 12, options |-> None, len |-> 1], [dst |-> 12, options |-> Unspecified, len |-> 1] }
\* Headers without options, and with some that end in four zero bytes.
Headers == {None, Unspecified}
=============================================================================
