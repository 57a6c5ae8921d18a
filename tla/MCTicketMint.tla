---------------------------- MODULE MCTicketMint ---------------------------
(***************************************************************************)
(* Instances of TicketMint for TLC: two nodes of one node set and a third   *)
(* of another one.                                                         *)
(***************************************************************************)
EXTENDS TicketMint, TLC

CONSTANTS n1, n2, n3, q1, q2, q3, t1, t2

TwoSets == [n \in Nodes |-> IF n = n3 THEN 8 ELSE 7]

\* The manifest gives each epoch a key of its own.
KeyPerEpoch == [e \in Epochs |-> e]

\* The laboratory node and the tests keep one key while epoch_id changes.
OneKey == [e \in Epochs |-> 0]

RequestSymmetry == Permutations(Nonces) \union Permutations(Tickets)
=============================================================================
