---------------------------- MODULE DedupMemory ----------------------------
(***************************************************************************)
(* What the duplicate window promises, without a bitmap: a receiver that   *)
(* remembers every number it ever took, takes none of them again, and      *)
(* refuses a number of its key only if                                     *)
(*   - it is under the ticket's floor or W or more behind the newest       *)
(*     number (an anomaly),                                                *)
(*   - it was taken before, or                                             *)
(*   - the receiver was rebuilt and the number is not above the newest     *)
(*     one.                                                                *)
(* A rebuild may set the newest number back, but then changes the key.     *)
(***************************************************************************)
EXTENDS Integers

CONSTANTS W, MaxSeq, MaxRebuilds, MaxAnomalies

VARIABLES
  next_seq,   \* the sender's counter: numbers below it have been issued
  client_key, \* the sender's key
  sealed,     \* the key of each issued number
  key,        \* the receiver's key
  floor,      \* the lowest number the receiver takes
  newest,     \* the continuity point
  rebuilt,    \* the receiver was rebuilt from a signed last_seq
  anomalies,  \* numbers refused as too old
  taken       \* how often each number was taken, over all incarnations

vars == <<next_seq, client_key, sealed, key, floor, newest, rebuilt, anomalies, taken>>

Seqs == 0 .. MaxSeq - 1
Keys == 0 .. MaxRebuilds

TooOld(seq) == seq < floor \/ seq + W <= newest
Known(seq)  == taken[seq] > 0 \/ (rebuilt /\ seq <= newest)

Init ==
  /\ next_seq = 0
  /\ client_key = 0
  /\ sealed = [s \in Seqs |-> 0]
  /\ key = 0
  /\ floor = 0
  /\ newest = 0
  /\ rebuilt = FALSE
  /\ anomalies = 0
  /\ taken = [s \in Seqs |-> 0]

Issue ==
  /\ next_seq < MaxSeq
  /\ next_seq' = next_seq + 1
  /\ sealed' = [sealed EXCEPT ![next_seq] = client_key]
  /\ UNCHANGED <<client_key, key, floor, newest, rebuilt, anomalies, taken>>

Take(seq) ==
  /\ seq < next_seq /\ sealed[seq] = key /\ ~TooOld(seq) /\ ~Known(seq)
  /\ taken' = [taken EXCEPT ![seq] = @ + 1]
  /\ newest' = IF seq > newest THEN seq ELSE newest
  /\ UNCHANGED <<next_seq, client_key, sealed, key, floor, rebuilt, anomalies>>

Refuse(seq) ==
  /\ seq < next_seq /\ sealed[seq] = key /\ TooOld(seq) /\ anomalies < MaxAnomalies
  /\ anomalies' = anomalies + 1
  /\ UNCHANGED <<next_seq, client_key, sealed, key, floor, newest, rebuilt, taken>>

Rebuild(new_floor, last_seq) ==
  /\ key < MaxRebuilds
  /\ key' = key + 1
  /\ floor' = new_floor
  /\ newest' = last_seq
  /\ rebuilt' = TRUE
  /\ anomalies' = 0
  /\ UNCHANGED <<next_seq, client_key, sealed, taken>>

Continue(k) ==
  /\ client_key < k /\ k <= key
  /\ client_key' = k
  /\ UNCHANGED <<next_seq, sealed, key, floor, newest, rebuilt, anomalies, taken>>

\* The sender signs numbers it issued, or 0.
Next ==
  \/ Issue
  \/ \E seq \in Seqs : Take(seq) \/ Refuse(seq)
  \/ \E last_seq \in 0 .. next_seq : \E new_floor \in 0 .. last_seq :
       (last_seq < next_seq \/ last_seq = 0) /\ Rebuild(new_floor, last_seq)
  \/ \E k \in Keys : Continue(k)

Spec == Init /\ [][Next]_vars
=============================================================================
