--------------------------- MODULE DedupReceiver ---------------------------
(***************************************************************************)
(* A node's duplicate window over the life of one session id.  The client  *)
(* issues sequence numbers and seals each under the key it has, the        *)
(* network offers any issued number any number of times and in any order   *)
(* (datagrams are lost, duplicated and reordered), and a RESUME rebuilds   *)
(* the window from the last_seq it carries.                                *)
(*                                                                         *)
(* The client signs the last number it issued and goes on issuing while    *)
(* the request is under way, so the last_seq of a rebuild is that of any   *)
(* earlier moment; it may lie below numbers the node has taken.  Each      *)
(* rebuild makes a new mirror with a K_session' of its own (eph_client and *)
(* eph_node are fresh, and no request is accepted twice between two starts *)
(* of a node); keys are numbered in the order of the rebuilds.  The client *)
(* takes the key of a rebuild when its ACK arrives.                        *)
(***************************************************************************)
EXTENDS DedupWindow

CONSTANTS
  MaxSeq,        \* bound on the numbers the client issues
  MaxRebuilds,   \* bound on the rebuilds
  MaxAnomalies   \* bound on the anomaly counter

ASSUME BoundAssumption == MaxSeq \in Nat \ {0} /\ MaxRebuilds \in Nat /\ MaxAnomalies \in Nat

VARIABLES
  next_seq,      \* the client's next unissued number
  client_key,    \* the key the client seals under
  sealed,        \* the key each issued number was sealed under
  key,           \* the key of the node's mirror
  window,        \* the DedupWindow of the node's mirror
  taken          \* history: how often each number was Accepted, over all windows

dedupVars == <<next_seq, client_key, sealed, key, window, taken>>

Seqs == 0 .. MaxSeq - 1
Keys == 0 .. MaxRebuilds

DedupTypeOK ==
  /\ next_seq \in 0 .. MaxSeq
  /\ client_key \in Keys /\ key \in Keys
  /\ sealed \in [Seqs -> Keys]
  /\ window \in Window
  /\ taken \in [Seqs -> Nat]

\* Session::new builds the window from (0, 0).
DedupInit ==
  /\ next_seq = 0
  /\ client_key = 0
  /\ sealed = [s \in Seqs |-> 0]
  /\ key = 0
  /\ window = NewWindow(0, 0)
  /\ taken = [s \in Seqs |-> 0]

Issue ==
  /\ next_seq < MaxSeq
  /\ next_seq' = next_seq + 1
  /\ sealed' = [sealed EXCEPT ![next_seq] = client_key]
  /\ UNCHANGED <<client_key, key, window, taken>>

Offer(seq) ==
  /\ seq < next_seq /\ sealed[seq] = key
  /\ Below(window, seq) => window.anomalies < MaxAnomalies
  /\ window' = Accept(window, seq)
  /\ taken' = IF Outcome(window, seq) = "Accepted"
              THEN [taken EXCEPT ![seq] = @ + 1] ELSE taken
  /\ UNCHANGED <<next_seq, client_key, sealed, key>>

\* recv_record: a record under another key than the mirror's does not open, and
\* leaves the window as it is.
OfferForeign(seq) ==
  /\ seq < next_seq /\ sealed[seq] # key
  /\ UNCHANGED dedupVars

\* What the client can have signed by now: last_issued, which is 0 before the first record too.
Signable == 0 .. SatSub(next_seq, 1)

\* Mutated form of Restore: the node's mirror keeps its key.
RestoreSameKey(floor, last_seq) ==
  /\ key < MaxRebuilds
  /\ window' = RestoreFromSignedLastSeq(floor, last_seq)
  /\ UNCHANGED <<next_seq, client_key, sealed, key, taken>>

\* The ticket's floor is a window bound of an earlier mint, so at most last_seq.
Restore(floor, last_seq) ==
  /\ key < MaxRebuilds
  /\ key' = key + 1
  /\ window' = RestoreFromSignedLastSeq(floor, last_seq)
  /\ UNCHANGED <<next_seq, client_key, sealed, taken>>

\* The ACK of rebuild k arrives, perhaps after a later rebuild.
Continue(k) ==
  /\ client_key < k /\ k <= key
  /\ client_key' = k
  /\ UNCHANGED <<next_seq, sealed, key, window, taken>>

DedupNext ==
  \/ Issue
  \/ \E seq \in Seqs : Offer(seq) \/ OfferForeign(seq)
  \/ \E last_seq \in Signable : \E floor \in 0 .. last_seq : Restore(floor, last_seq)
  \/ \E k \in Keys : Continue(k)

DedupSpec == DedupInit /\ [][DedupNext]_dedupVars

-----------------------------------------------------------------------------
\* At-most-once on the node (design/02-protocols.md 3.5): whatever the network
\* repeats and reorders, and from however old a request the node rebuilds its
\* window, no number is accepted twice by DedupWindow::accept.
AtMostOnce == \A s \in Seqs : taken[s] <= 1

\* The window remembers exactly what it accepted: of the numbers in lo..hi the
\* marked ones are those accepted, in every window that was not rebuilt.
BitmapExact ==
  ~window.restored =>
    \A s \in Seqs : window.lo <= s /\ s <= window.hi =>
      (taken[s] > 0 <=> Bit(window, s - window.lo))

\* The continuity point of a mirror never moves back (continuity_point():
\* monotonic).  A rebuild makes another mirror, and its point may be lower: the
\* request it answers may be older than what the mirror before it has taken.
ContinuityMonotone == [][key' = key => window'.hi >= window.hi]_dedupVars

\* A rebuild costs nothing of what follows (restore_dedup_from_signed_last_seq):
\* a number the client sealed under the key of the mirror is new there if it is
\* above all that the mirror has taken.  Number 0 is left out: a client that
\* signs before its first record signs 0 as well.
NextIsNew ==
  \A s \in Seqs \ {0} :
    /\ s < next_seq /\ sealed[s] = key
    /\ \A t \in Seqs : s <= t /\ sealed[t] = key => taken[t] = 0
    => IsNew(window, s)

\* The bitmap is as good as unbounded memory: the window takes, refuses and
\* ignores exactly what a receiver that forgets nothing would.
Memory == INSTANCE DedupMemory WITH
  floor <- window.floor, newest <- window.hi, rebuilt <- window.restored,
  anomalies <- window.anomalies

ImplementsMemory == Memory!Spec

\* The restore contract of frame-session (restore_dedup_from_signed_last_seq:
\* "numbering above last_seq is accepted"; 02-protocols 3.5 says the same): after
\* a rebuild every number sealed under the new key that was never taken is new
\* for as long as it is in the window.
ContinuationAccepted ==
  window.restored =>
    \A s \in Seqs \ {0} : s < next_seq /\ sealed[s] = key /\ window.lo <= s /\ taken[s] = 0
      => IsNew(window, s)
=============================================================================
