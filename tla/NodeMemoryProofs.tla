-------------------------- MODULE NodeMemoryProofs --------------------------
(***************************************************************************)
(* Proofs about what a node remembers, and why that is enough to do        *)
(* nothing twice: the duplicate window of a session (DedupReceiver, first  *)
(* part) and the consumed set of tickets (TicketMint, second part).  Both  *)
(* keep less than they have seen, so both invariants say what the little   *)
(* that is kept still tells of the rest.                                   *)
(***************************************************************************)
EXTENDS TicketMint, DedupReceiver, DedupWindowProofs, FiniteSetTheorems, TLAPS

-----------------------------------------------------------------------------
(***************************************************************************)
(* The duplicate window, for every window size and every number of         *)
(* records below u64::MAX.                                                 *)
(***************************************************************************)

(***************************************************************************)
(* The inductive invariant.  AtMostOnce alone is not inductive: it needs   *)
(* to know that lo trails hi by exactly W - 1 (or stands on the floor), so *)
(* no bit is lost while its number can still be offered, that nothing of   *)
(* the mirror's key was taken above hi, nothing at all ahead of the        *)
(* client, and that a set bit and an accepted number of the window are the *)
(* same thing.  A rebuild from an old last_seq leaves taken numbers above  *)
(* hi; their keys are older than the mirror's.                             *)
(***************************************************************************)
WindowTight ==
  /\ window.lo = SlideLo(window.floor, window.hi)
  /\ window.hi < MaxSeq
  /\ window.floor <= window.hi

NothingAhead ==
  /\ window.hi < next_seq \/ window.hi = 0
  /\ \A s \in Seqs : taken[s] > 0 => s < next_seq /\ (sealed[s] = key => s <= window.hi)

\* The client's key is that of some rebuild, its numbers have no newer key, and
\* all of them have the first one until there was a rebuild.
KeysInOrder ==
  /\ client_key <= key
  /\ \A s \in Seqs : sealed[s] <= client_key
  /\ ~window.restored => key = 0

\* hi is a number taken under the mirror's key, unless all such numbers lie above it.
NewestIsTold ==
  \A s \in Seqs \ {0} : s < next_seq /\ sealed[s] = key /\ s <= window.hi =>
    \E t \in Seqs : s <= t /\ sealed[t] = key /\ taken[t] > 0

BitsAreTaken ==
  /\ \A i \in window.seen : window.lo + i <= window.hi /\ taken[window.lo + i] > 0
  /\ ~window.restored =>
       \A s \in Seqs : window.lo <= s /\ taken[s] > 0 => Bit(window, s - window.lo)

DedupInv ==
  /\ DedupTypeOK /\ WindowTight /\ NothingAhead /\ KeysInOrder /\ NewestIsTold
  /\ BitsAreTaken /\ AtMostOnce

-----------------------------------------------------------------------------
\* The empty window of a new session is in the invariant.
LEMMA InitDedupInv == MaxSeq <= U64Max /\ DedupInit => DedupInv
<1> SUFFICES ASSUME MaxSeq <= U64Max, DedupInit
             PROVE  DedupInv
  OBVIOUS
<1> USE WindowAssumption, BoundAssumption
<1>1. SlideLo(0, 0) = 0
  BY DEF SlideLo, SatInc, SatSub
<1>2. window = [floor |-> 0, lo |-> 0, hi |-> 0, seen |-> {}, anomalies |-> 0, restored |-> FALSE]
  BY <1>1 DEF DedupInit, NewWindow
<1>3. DedupTypeOK
  <2>1. window \in Window
    BY <1>2 DEF Window
  <2>2. next_seq \in 0 .. MaxSeq /\ client_key \in Keys /\ key \in Keys
    BY DEF DedupInit, Keys
  <2>3. taken \in [Seqs -> Nat] /\ sealed \in [Seqs -> Keys]
    BY DEF DedupInit, Keys
  <2> QED
    BY <2>1, <2>2, <2>3 DEF DedupTypeOK
<1>4. WindowTight
  BY <1>1, <1>2 DEF WindowTight
<1>5. NothingAhead /\ BitsAreTaken /\ AtMostOnce
  BY <1>2 DEF DedupInit, NothingAhead, BitsAreTaken, AtMostOnce
<1>6. KeysInOrder /\ NewestIsTold
  BY <1>2 DEF DedupInit, KeysInOrder, NewestIsTold, Seqs
<1> QED
  BY <1>3, <1>4, <1>5, <1>6 DEF DedupInv

\* Issue: nothing of the window changes, and the new number is above all it took.
LEMMA IssueDedupInv == DedupInv /\ Issue => DedupInv'
<1> SUFFICES ASSUME DedupInv, Issue
             PROVE  DedupInv'
  OBVIOUS
<1> USE BoundAssumption
<1>1. /\ next_seq \in 0 .. MaxSeq /\ next_seq < MaxSeq /\ next_seq' = next_seq + 1
      /\ window' = window /\ taken' = taken /\ client_key' = client_key /\ key' = key
      /\ sealed' = [sealed EXCEPT ![next_seq] = client_key]
      /\ client_key \in Keys /\ key \in Keys /\ sealed \in [Seqs -> Keys]
      /\ taken \in [Seqs -> Nat] /\ window.hi \in Nat
  BY DEF DedupInv, DedupTypeOK, Issue, Window
<1>2. /\ next_seq \in Seqs /\ sealed' \in [Seqs -> Keys] /\ sealed'[next_seq] = client_key
      /\ \A s \in Seqs : s # next_seq => sealed'[s] = sealed[s]
  BY <1>1 DEF Seqs
<1>3. taken[next_seq] = 0
  BY <1>1, <1>2 DEF DedupInv, NothingAhead
<1>4. DedupTypeOK'
  BY <1>1, <1>2 DEF DedupInv, DedupTypeOK, Keys
<1>5. NothingAhead'
  <2>1. \A s \in Seqs : taken[s] > 0 => s < next_seq /\ sealed'[s] = sealed[s]
    BY <1>1, <1>2 DEF DedupInv, NothingAhead, Seqs
  <2> QED
    BY <1>1, <2>1 DEF DedupInv, NothingAhead, Seqs
<1>6. KeysInOrder'
  BY <1>1, <1>2 DEF DedupInv, KeysInOrder, Keys
<1>7. NewestIsTold'
  <2> SUFFICES ASSUME NEW s \in Seqs \ {0}, s < next_seq', sealed'[s] = key', s <= window'.hi
               PROVE  \E t \in Seqs : s <= t /\ sealed'[t] = key' /\ taken'[t] > 0
    BY DEF NewestIsTold
  <2>1. s < next_seq /\ sealed[s] = key /\ s <= window.hi
    BY <1>1, <1>2 DEF DedupInv, NothingAhead, Seqs
  <2>2. PICK t \in Seqs : s <= t /\ sealed[t] = key /\ taken[t] > 0
    BY <2>1 DEF DedupInv, NewestIsTold
  <2>3. t # next_seq
    BY <1>3, <2>2
  <2> QED
    BY <1>1, <1>2, <2>2, <2>3
<1>8. WindowTight' /\ BitsAreTaken' /\ AtMostOnce'
  BY <1>1 DEF DedupInv, WindowTight, BitsAreTaken, AtMostOnce, Bit
<1> QED
  BY <1>4, <1>5, <1>6, <1>7, <1>8 DEF DedupInv

\* Offer: a number is accepted only when no window took it before.
LEMMA OfferDedupInv ==
  ASSUME MaxSeq <= U64Max, DedupInv, NEW seq \in Seqs, Offer(seq)
  PROVE  DedupInv'
<1> USE WindowAssumption, BoundAssumption
<1>1. /\ window \in Window /\ next_seq \in 0 .. MaxSeq /\ taken \in [Seqs -> Nat]
      /\ window.lo = SlideLo(window.floor, window.hi) /\ window.hi < MaxSeq
      /\ seq \in Nat /\ seq < MaxSeq /\ seq < next_seq /\ next_seq' = next_seq
      /\ client_key' = client_key /\ key' = key /\ sealed' = sealed /\ sealed[seq] = key
  BY DEF DedupInv, DedupTypeOK, WindowTight, Offer, Seqs
<1>2. /\ window.floor \in Nat /\ window.lo \in Nat /\ window.hi \in Nat
      /\ window.anomalies \in Nat /\ window.seen \in SUBSET (0 .. W - 1)
      /\ window.restored \in BOOLEAN
  BY <1>1 DEF Window
<1>3. /\ window' \in Window
      /\ window'.floor = window.floor /\ window'.restored = window.restored
      /\ window'.lo = SlideLo(window'.floor, window'.hi)
      /\ Below(window, seq) => window' = [window EXCEPT !.anomalies = @ + 1]
      /\ ~Below(window, seq) /\ ~IsNew(window, seq) => window' = window
      /\ IsNew(window, seq) =>
           /\ window'.hi = IF seq > window.hi THEN seq ELSE window.hi
           /\ window'.lo <= seq
           /\ \A s \in Nat : s >= window'.lo =>
                (s - window'.lo \in window'.seen <=> s = seq \/ s - window.lo \in window.seen)
  <2>1. seq < U64Max /\ window.hi < U64Max
    BY <1>1, <1>2
  <2>2. window' = Accept(window, seq)
    BY DEF Offer
  <2> QED
    BY <1>1, <2>1, <2>2, AcceptCases
<1>4. CASE ~IsNew(window, seq)
  <2>1. taken' = taken
    BY <1>4 DEF Offer, Outcome
  <2>2. /\ window'.lo = window.lo /\ window'.hi = window.hi /\ window'.seen = window.seen
        /\ window'.floor = window.floor /\ window'.restored = window.restored
    BY <1>3, <1>4 DEF Window
  <2> QED
    BY <1>1, <1>3, <2>1, <2>2
    DEF DedupInv, DedupTypeOK, WindowTight, NothingAhead, KeysInOrder, NewestIsTold, BitsAreTaken,
        AtMostOnce, Bit
<1>5. CASE IsNew(window, seq)
  <2>1. ~Below(window, seq) /\ seq >= window.lo /\ (seq <= window.hi => ~window.restored)
        /\ (seq <= window.hi => seq - window.lo \notin window.seen)
    BY <1>1, <1>2, <1>5 DEF IsNew, Below, Bit
  <2>2. taken[seq] = 0
    <3>1. CASE seq > window.hi
      BY <1>1, <1>2, <3>1 DEF DedupInv, NothingAhead
    <3>2. CASE seq <= window.hi
      BY <1>1, <1>2, <2>1, <3>2 DEF DedupInv, BitsAreTaken, Bit
    <3> QED
      BY <1>1, <1>2, <3>1, <3>2
  <2>3. taken' = [taken EXCEPT ![seq] = 1]
    <3>1. taken' = [taken EXCEPT ![seq] = taken[seq] + 1]
      BY <1>5, <2>1 DEF Offer, Outcome
    <3> QED
      BY <2>2, <3>1
  <2>4. taken' \in [Seqs -> Nat] /\ taken'[seq] = 1 /\ \A s \in Seqs : s # seq => taken'[s] = taken[s]
    BY <1>1, <2>3
  <2>5. window'.hi = (IF seq > window.hi THEN seq ELSE window.hi) /\ window'.lo <= seq
    BY <1>3, <1>5
  <2>6. window'.floor \in Nat /\ window'.lo \in Nat /\ window'.hi \in Nat
        /\ window'.seen \in SUBSET (0 .. W - 1)
    BY <1>3 DEF Window
  <2>7. DedupTypeOK' /\ AtMostOnce'
    BY <1>1, <1>3, <2>4 DEF DedupInv, DedupTypeOK, AtMostOnce
  <2>8. WindowTight'
    BY <1>1, <1>2, <1>3, <2>5 DEF DedupInv, WindowTight
  <2>9. NothingAhead'
    BY <1>1, <1>2, <2>4, <2>5 DEF DedupInv, NothingAhead
  <2>10. window.lo <= window'.lo
    <3>1. window'.hi \in Nat /\ window.hi <= window'.hi /\ window'.hi < U64Max
      BY <1>1, <1>2, <2>5
    <3> QED
      BY <1>1, <1>2, <1>3, <3>1, SlideLoMonotone
  <2>11. ASSUME NEW i \in window'.seen
         PROVE  window'.lo + i <= window'.hi /\ taken'[window'.lo + i] > 0
    <3> DEFINE s == window'.lo + i
    <3>1. i \in Nat /\ s \in Nat /\ s >= window'.lo /\ s - window'.lo = i
      BY <2>6
    <3>2. s = seq \/ s - window.lo \in window.seen
      BY <1>3, <1>5, <3>1
    <3>3. CASE s = seq
      BY <1>1, <1>2, <2>4, <2>5, <3>3
    <3>4. CASE s # seq /\ s - window.lo \in window.seen
      <4>1. window.lo + (s - window.lo) = s
        BY <1>2, <3>1
      <4>2. s <= window.hi /\ taken[s] > 0
        BY <3>4, <4>1 DEF DedupInv, BitsAreTaken
      <4>3. s \in Seqs
        BY <1>1, <1>2, <3>1, <4>2 DEF Seqs
      <4> QED
        BY <1>1, <1>2, <2>4, <2>5, <3>1, <3>4, <4>2, <4>3
    <3> QED
      BY <3>2, <3>3, <3>4
  <2>12. ASSUME ~window'.restored, NEW s \in Seqs, window'.lo <= s, taken'[s] > 0
         PROVE  s - window'.lo \in window'.seen
    <3>1. s \in Nat
      BY <1>1 DEF Seqs
    <3>2. s = seq \/ s - window.lo \in window.seen
      BY <1>2, <1>3, <2>4, <2>6, <2>10, <2>12, <3>1 DEF DedupInv, BitsAreTaken, Bit
    <3> QED
      BY <1>3, <1>5, <2>12, <3>1, <3>2
  <2>13. BitsAreTaken'
    BY <2>11, <2>12 DEF BitsAreTaken, Bit
  <2>14. KeysInOrder'
    BY <1>1, <1>3 DEF DedupInv, KeysInOrder
  <2>15. NewestIsTold'
    <3> SUFFICES ASSUME NEW s \in Seqs \ {0}, s < next_seq', sealed'[s] = key', s <= window'.hi
                 PROVE  \E t \in Seqs : s <= t /\ sealed'[t] = key' /\ taken'[t] > 0
      BY DEF NewestIsTold
    <3>1. CASE s <= window.hi
      <4>1. PICK t \in Seqs : s <= t /\ sealed[t] = key /\ taken[t] > 0
        BY <1>1, <3>1 DEF DedupInv, NewestIsTold
      <4> QED
        BY <1>1, <2>4, <4>1
    <3>2. CASE ~(s <= window.hi)
      BY <1>1, <1>2, <2>4, <2>5, <3>2 DEF Seqs
    <3> QED
      BY <3>1, <3>2
  <2> QED
    BY <2>7, <2>8, <2>9, <2>13, <2>14, <2>15 DEF DedupInv
<1> QED
  BY <1>4, <1>5

\* Restore: what was taken above the signed last_seq has an older key than the new mirror.
LEMMA RestoreDedupInv ==
  ASSUME MaxSeq <= U64Max, DedupInv, NEW last_seq \in Signable, NEW floor \in 0 .. last_seq,
         Restore(floor, last_seq)
  PROVE  DedupInv'
<1> USE WindowAssumption, BoundAssumption
<1>1. /\ next_seq \in 0 .. MaxSeq /\ next_seq' = next_seq /\ taken' = taken /\ sealed' = sealed
      /\ client_key' = client_key /\ key \in Keys /\ key < MaxRebuilds /\ key' = key + 1
      /\ client_key \in Keys /\ sealed \in [Seqs -> Keys]
  BY DEF DedupInv, DedupTypeOK, Restore
<1>2. /\ last_seq \in Nat /\ last_seq < MaxSeq /\ (last_seq < next_seq \/ last_seq = 0)
      /\ floor \in Nat /\ floor <= last_seq
  BY <1>1 DEF Signable, SatSub
<1>3. SlideLo(floor, last_seq) \in Nat
  BY <1>2, SlideLoBounds
<1>4. window' = [floor |-> floor, lo |-> SlideLo(floor, last_seq), hi |-> last_seq,
                 seen |-> {}, anomalies |-> 0, restored |-> TRUE]
  BY DEF Restore, RestoreFromSignedLastSeq, NewWindow
<1>5. DedupTypeOK'
  BY <1>1, <1>2, <1>3, <1>4 DEF DedupInv, DedupTypeOK, Window, Keys
<1>6. WindowTight'
  BY <1>2, <1>4 DEF WindowTight
<1>7. \A s \in Seqs : sealed'[s] # key'
  BY <1>1 DEF DedupInv, KeysInOrder, Keys
<1>8. NothingAhead' /\ NewestIsTold'
  BY <1>1, <1>2, <1>4, <1>7 DEF DedupInv, NothingAhead, NewestIsTold
<1>9. KeysInOrder'
  BY <1>1, <1>4 DEF DedupInv, KeysInOrder, Keys
<1>10. BitsAreTaken' /\ AtMostOnce'
  BY <1>1, <1>4 DEF DedupInv, BitsAreTaken, AtMostOnce
<1> QED
  BY <1>5, <1>6, <1>8, <1>9, <1>10 DEF DedupInv

\* Continue: only the client's key changes, and what it sealed has no newer one.
LEMMA ContinueDedupInv ==
  ASSUME DedupInv, NEW k \in Keys, Continue(k)
  PROVE  DedupInv'
<1>1. /\ client_key' = k /\ client_key < k /\ k <= key
      /\ UNCHANGED <<next_seq, sealed, key, window, taken>>
  BY DEF Continue
<1>2. DedupTypeOK' /\ WindowTight' /\ NothingAhead' /\ NewestIsTold' /\ BitsAreTaken' /\ AtMostOnce'
  BY <1>1 DEF DedupInv, DedupTypeOK, WindowTight, NothingAhead, NewestIsTold, BitsAreTaken,
              AtMostOnce, Bit
<1>3. KeysInOrder'
  <2>1. \A s \in Seqs : sealed[s] \in Nat /\ client_key \in Nat /\ k \in Nat
    BY BoundAssumption DEF DedupInv, DedupTypeOK, Keys
  <2> QED
    BY <1>1, <2>1 DEF DedupInv, KeysInOrder
<1> QED
  BY <1>2, <1>3 DEF DedupInv

\* The invariant holds in every reachable state of every receiver whose client stays below
\* u64::MAX.
THEOREM DedupInvariant ==
  ASSUME MaxSeq <= U64Max
  PROVE  DedupSpec => []DedupInv
<1>1. DedupInit => DedupInv
  BY InitDedupInv
<1>2. DedupInv /\ [DedupNext]_dedupVars => DedupInv'
  <2> SUFFICES ASSUME DedupInv, [DedupNext]_dedupVars
               PROVE  DedupInv'
    OBVIOUS
  <2>1. CASE Issue
    BY <2>1, IssueDedupInv
  <2>2. ASSUME NEW seq \in Seqs, Offer(seq)
        PROVE  DedupInv'
    BY <2>2, OfferDedupInv
  <2>3. ASSUME NEW last_seq \in Signable, NEW floor \in 0 .. last_seq, Restore(floor, last_seq)
        PROVE  DedupInv'
    BY <2>3, RestoreDedupInv
  <2>4. ASSUME NEW k \in Keys, Continue(k)
        PROVE  DedupInv'
    BY <2>4, ContinueDedupInv
  <2>5. CASE UNCHANGED dedupVars
    BY <2>5 DEF dedupVars, DedupInv, DedupTypeOK, WindowTight, NothingAhead, KeysInOrder, NewestIsTold,
                BitsAreTaken, AtMostOnce, Bit
  <2> QED
    BY <2>1, <2>2, <2>3, <2>4, <2>5 DEF DedupNext, OfferForeign
<1> QED
  BY <1>1, <1>2, PTL DEF DedupSpec

\* Type correctness of the receiver, for every window size and number of records.
THEOREM DedupTypeCorrect ==
  ASSUME MaxSeq <= U64Max
  PROVE  DedupSpec => []DedupTypeOK
<1>1. DedupInv => DedupTypeOK
  BY DEF DedupInv
<1> QED
  BY <1>1, DedupInvariant, PTL

\* At-most-once: no number is accepted twice on the node, whatever is repeated or reordered,
\* and from however old a last_seq the window is rebuilt.
THEOREM NeverTakenTwice ==
  ASSUME MaxSeq <= U64Max
  PROVE  DedupSpec => []AtMostOnce
<1>1. DedupInv => AtMostOnce
  BY DEF DedupInv
<1> QED
  BY <1>1, DedupInvariant, PTL

\* The window's bits are exactly the numbers it accepted.
THEOREM BitmapIsExact ==
  ASSUME MaxSeq <= U64Max
  PROVE  DedupSpec => []BitmapExact
<1>1. DedupInv => BitmapExact
  <2> SUFFICES ASSUME DedupInv, ~window.restored, NEW s \in Seqs, window.lo <= s, s <= window.hi
               PROVE  taken[s] > 0 <=> Bit(window, s - window.lo)
    BY DEF BitmapExact
  <2>1. window.lo \in Nat /\ s \in Int
    BY DEF DedupInv, DedupTypeOK, Window, Seqs
  <2>2. Bit(window, s - window.lo) => taken[s] > 0
    <3>1. window.lo + (s - window.lo) = s
      BY <2>1
    <3> QED
      BY <3>1 DEF DedupInv, BitsAreTaken, Bit
  <2> QED
    BY <2>2 DEF DedupInv, BitsAreTaken
<1> QED
  BY <1>1, DedupInvariant, PTL

\* What one offer does to a window that satisfies the invariant, as AcceptCases says it.
LEMMA OfferCases ==
  ASSUME MaxSeq <= U64Max, DedupInv, NEW seq \in Seqs, Offer(seq)
  PROVE  /\ Below(window, seq) => window' = [window EXCEPT !.anomalies = @ + 1]
         /\ ~Below(window, seq) /\ ~IsNew(window, seq) => window' = window
         /\ IsNew(window, seq) =>
              /\ window'.floor = window.floor /\ window'.restored = window.restored
              /\ window'.anomalies = window.anomalies
              /\ window'.hi = IF seq > window.hi THEN seq ELSE window.hi
<1>1. seq \in Nat /\ seq < U64Max /\ window \in Window /\ window.hi < U64Max
  BY WindowAssumption, BoundAssumption DEF DedupInv, DedupTypeOK, WindowTight, Window, Seqs
<1>2. window.lo = SlideLo(window.floor, window.hi) /\ window' = Accept(window, seq)
  BY DEF DedupInv, WindowTight, Offer
<1> QED
  BY <1>1, <1>2, AcceptCases

\* The continuity point of a mirror never moves back; only a rebuild, which changes the key,
\* may lower it.
THEOREM ContinuityNeverMovesBack ==
  ASSUME MaxSeq <= U64Max
  PROVE  DedupSpec => ContinuityMonotone
<1>1. DedupInv /\ [DedupNext]_dedupVars => [key' = key => window'.hi >= window.hi]_dedupVars
  <2> SUFFICES ASSUME DedupInv, DedupNext, key' = key
               PROVE  window'.hi >= window.hi
    OBVIOUS
  <2>1. window.hi \in Nat /\ key \in Nat
    BY BoundAssumption DEF DedupInv, DedupTypeOK, Window, Keys
  <2>2. CASE Issue
    BY <2>1, <2>2 DEF Issue
  <2>3. ASSUME NEW seq \in Seqs, Offer(seq)
        PROVE  window'.hi >= window.hi
    <3>1. seq \in Nat
      BY DEF Seqs
    <3>2. CASE Below(window, seq)
      <4>1. window' = [window EXCEPT !.anomalies = @ + 1]
        BY <2>3, <3>2, OfferCases
      <4>2. window'.hi = window.hi
        BY <4>1 DEF DedupInv, DedupTypeOK, Window
      <4> QED
        BY <2>1, <4>2
    <3>3. CASE ~Below(window, seq) /\ ~IsNew(window, seq)
      BY <2>1, <2>3, <3>3, OfferCases
    <3>4. CASE IsNew(window, seq)
      <4>1. window'.hi = IF seq > window.hi THEN seq ELSE window.hi
        BY <2>3, <3>4, OfferCases
      <4> QED
        BY <2>1, <3>1, <4>1
    <3> QED
      BY <3>2, <3>3, <3>4
  <2>4. ASSUME NEW last_seq \in Signable, NEW floor \in 0 .. last_seq, Restore(floor, last_seq)
        PROVE  window'.hi >= window.hi
    BY <2>1, <2>4 DEF Restore
  <2>5. CASE window' = window
    BY <2>1, <2>5
  <2> QED
    BY <2>2, <2>3, <2>4, <2>5 DEF DedupNext, OfferForeign, Continue, dedupVars
<1> QED
  BY <1>1, DedupInvariant, PTL DEF DedupSpec, ContinuityMonotone

\* After a rebuild, however old its last_seq, the mirror takes the next number the client
\* seals under the new key.
THEOREM NextNumberIsNew ==
  ASSUME MaxSeq <= U64Max
  PROVE  DedupSpec => []NextIsNew
<1>1. DedupInv => NextIsNew
  <2> SUFFICES ASSUME DedupInv, NEW s \in Seqs \ {0}, s < next_seq, sealed[s] = key,
                      \A t \in Seqs : s <= t /\ sealed[t] = key => taken[t] = 0
               PROVE  IsNew(window, s)
    BY DEF NextIsNew
  <2>1. /\ window.floor \in Nat /\ window.hi \in Nat /\ window.hi < U64Max /\ s \in Nat
        /\ window.floor <= window.hi /\ window.lo = SlideLo(window.floor, window.hi)
    BY WindowAssumption, BoundAssumption DEF DedupInv, DedupTypeOK, WindowTight, Window, Seqs
  <2>2. ~(s <= window.hi)
    BY DEF DedupInv, NewestIsTold
  <2>3. ~Below(window, s)
    <3>1. W \in Nat \ {0}
      BY WindowAssumption
    <3> QED
      BY <2>1, <2>2, <3>1, SlideLoBounds DEF Below
  <2> QED
    BY <2>2, <2>3 DEF IsNew
<1> QED
  BY <1>1, DedupInvariant, PTL

-----------------------------------------------------------------------------
\* In a tight window the two ways to be too old are the same: under lo, or W or more behind hi.
LEMMA BelowIsTooOld ==
  ASSUME MaxSeq <= U64Max, DedupInv, NEW seq \in Seqs
  PROVE  Below(window, seq) <=> Memory!TooOld(seq)
<1>1. /\ window.floor \in Nat /\ window.hi \in Nat /\ window.hi < U64Max /\ seq \in Nat
      /\ window.lo = SlideLo(window.floor, window.hi)
  BY WindowAssumption, BoundAssumption DEF DedupInv, DedupTypeOK, WindowTight, Window, Seqs
<1>2. W \in Nat
  BY WindowAssumption
<1> QED
  BY <1>1, <1>2, SlideLoBounds DEF Below, Memory!TooOld

\* A number of the mirror's key that passed is_new was never taken, and a rebuilt window
\* passes only numbers above hi.
LEMMA NewIsUnknown ==
  ASSUME MaxSeq <= U64Max, DedupInv, NEW seq \in Seqs, sealed[seq] = key, ~Below(window, seq)
  PROVE  IsNew(window, seq) => ~Memory!Known(seq)
<1> SUFFICES ASSUME IsNew(window, seq)
             PROVE  ~(taken[seq] > 0) /\ ~(window.restored /\ seq <= window.hi)
  BY DEF Memory!Known
<1>1. seq <= window.hi => ~window.restored /\ ~Bit(window, seq - window.lo)
  BY DEF IsNew
<1>2. window.lo \in Nat /\ seq \in Nat /\ ~(seq < window.lo)
  BY DEF DedupInv, DedupTypeOK, Window, Seqs, Below
<1>3. taken[seq] > 0 => seq <= window.hi
  BY DEF DedupInv, NothingAhead
<1> QED
  BY <1>1, <1>2, <1>3 DEF DedupInv, BitsAreTaken

\* The bitmap window implements the receiver that forgets nothing: every step of the window
\* is a step of the memory, or changes nothing the memory keeps.
THEOREM WindowImplementsMemory ==
  ASSUME MaxSeq <= U64Max
  PROVE  DedupSpec => ImplementsMemory
<1>1. DedupInit => Memory!Init
  <2>1. DedupInit => /\ window.floor = 0 /\ window.hi = 0 /\ window.restored = FALSE
                     /\ window.anomalies = 0
    BY DEF DedupInit, NewWindow
  <2> QED
    BY <2>1 DEF DedupInit, Memory!Init, Seqs, Memory!Seqs
<1>2. DedupInv /\ [DedupNext]_dedupVars => [Memory!Next]_Memory!vars
  <2> SUFFICES ASSUME DedupInv, DedupNext
               PROVE  Memory!Next \/ UNCHANGED Memory!vars
    BY DEF dedupVars, Memory!vars
  <2>1. Seqs = Memory!Seqs /\ Keys = Memory!Keys
    BY DEF Seqs, Memory!Seqs, Keys, Memory!Keys
  <2>2. CASE Issue
    <3>1. Memory!Issue
      BY <2>2 DEF Issue, Memory!Issue
    <3> QED
      BY <3>1 DEF Memory!Next
  <2>3. ASSUME NEW seq \in Seqs, Offer(seq)
        PROVE  Memory!Next \/ UNCHANGED Memory!vars
    <3>1. CASE Below(window, seq)
      <4>1. window' = [window EXCEPT !.anomalies = @ + 1]
        BY <2>3, <3>1, OfferCases
      <4>2. /\ window'.floor = window.floor /\ window'.hi = window.hi
            /\ window'.restored = window.restored /\ window'.anomalies = window.anomalies + 1
        BY <4>1 DEF DedupInv, DedupTypeOK, Window
      <4>3. /\ window.anomalies < MaxAnomalies /\ seq < next_seq /\ sealed[seq] = key
            /\ UNCHANGED <<next_seq, client_key, sealed, key, taken>>
        BY <2>3, <3>1 DEF Offer, Outcome
      <4>4. Memory!Refuse(seq)
        BY <3>1, <4>2, <4>3, BelowIsTooOld DEF Memory!Refuse
      <4> QED
        BY <2>1, <4>4 DEF Memory!Next
    <3>2. CASE ~Below(window, seq) /\ ~IsNew(window, seq)
      <4>1. UNCHANGED <<next_seq, client_key, sealed, key, window, taken>>
        BY <2>3, <3>2, OfferCases DEF Offer, Outcome
      <4> QED
        BY <4>1 DEF Memory!vars
    <3>3. CASE ~Below(window, seq) /\ IsNew(window, seq)
      <4>1. /\ window'.floor = window.floor /\ window'.restored = window.restored
            /\ window'.anomalies = window.anomalies
            /\ window'.hi = IF seq > window.hi THEN seq ELSE window.hi
        BY <2>3, <3>3, OfferCases
      <4>2. /\ taken' = [taken EXCEPT ![seq] = @ + 1] /\ seq < next_seq /\ sealed[seq] = key
            /\ UNCHANGED <<next_seq, client_key, sealed, key>>
        BY <2>3, <3>3 DEF Offer, Outcome
      <4>3. Memory!Take(seq)
        BY <3>3, <4>1, <4>2, BelowIsTooOld, NewIsUnknown DEF Memory!Take
      <4> QED
        BY <2>1, <4>3 DEF Memory!Next
    <3> QED
      BY <3>1, <3>2, <3>3
  <2>4. ASSUME NEW last_seq \in Signable, NEW floor \in 0 .. last_seq, Restore(floor, last_seq)
        PROVE  Memory!Next
    <3>1. /\ window'.floor = floor /\ window'.hi = last_seq /\ window'.restored = TRUE
          /\ window'.anomalies = 0
      BY <2>4 DEF Restore, RestoreFromSignedLastSeq, NewWindow
    <3>2. Memory!Rebuild(floor, last_seq)
      BY <2>4, <3>1 DEF Restore, Memory!Rebuild
    <3>3. last_seq \in 0 .. next_seq /\ (last_seq < next_seq \/ last_seq = 0)
      BY DEF Signable, SatSub, DedupInv, DedupTypeOK
    <3> QED
      BY <3>2, <3>3 DEF Memory!Next
  <2>5. ASSUME NEW k \in Keys, Continue(k)
        PROVE  Memory!Next
    <3>1. Memory!Continue(k)
      BY <2>5 DEF Continue, Memory!Continue
    <3> QED
      BY <2>1, <3>1 DEF Memory!Next
  <2>6. ASSUME NEW seq \in Seqs, OfferForeign(seq)
        PROVE  UNCHANGED Memory!vars
    BY <2>6 DEF OfferForeign, dedupVars, Memory!vars
  <2> QED
    BY <2>2, <2>3, <2>4, <2>5, <2>6 DEF DedupNext
<1> QED
  BY <1>1, <1>2, DedupInvariant, PTL DEF DedupSpec, ImplementsMemory, Memory!Spec

-----------------------------------------------------------------------------
(***************************************************************************)
(* Tickets, for every fleet and any number of tickets and requests.  The   *)
(* entry of a ticket keeps a count and one transcript where the properties *)
(* speak of all accepted ones; the inductive invariant says what the two   *)
(* still tell: the count is the number of distinct accepted transcripts,   *)
(* and the one that is kept is among them.  With a budget of two that is   *)
(* enough: a node that may accept once more has accepted at most the       *)
(* transcript it remembers.                                                *)
(***************************************************************************)

\* The count of an entry is the number of transcripts accepted for its ticket.
CountsDistinct ==
  \A n \in Nodes, t \in Tickets :
    /\ IsFiniteSet(AcceptedFor(n, t))
    /\ Cardinality(AcceptedFor(n, t)) = consumed[n][t].attempts

\* The transcript an entry keeps is an accepted one.
RemembersAccepted ==
  \A n \in Nodes, t \in Tickets :
    IF consumed[n][t].attempts = 0 THEN consumed[n][t].last_transcript = None
    ELSE consumed[n][t].last_transcript \in AcceptedFor(n, t)

AcceptedAreSigned ==
  /\ IsFiniteSet(signed)
  /\ \A n \in Nodes, q \in Transcripts : accepts[n][q] > 0 => q \in signed

TicketInv ==
  /\ TypeOK
  /\ CountsDistinct
  /\ RemembersAccepted
  /\ AcceptedAreSigned
  /\ NeverAcceptedTwice

-----------------------------------------------------------------------------
\* A request that handle_resume accepts is new to the node, and its entry has
\* budget left.
LEMMA AcceptedIsNew ==
  ASSUME MaxAttempts <= 2, TicketInv, NEW n \in Nodes, NEW q \in Transcripts,
         NEW pop \in BOOLEAN, Verdict(n, q, pop) = "Accept"
  PROVE  /\ consumed[n][q.ticket].attempts < MaxAttempts
         /\ q \notin AcceptedFor(n, q.ticket)
         /\ accepts[n][q] = 0
<1> DEFINE entry == consumed[n][q.ticket]
           accepted == AcceptedFor(n, q.ticket)
<1>1. /\ q.ticket \in Tickets /\ entry \in ConsumedEntry
      /\ accepts[n][q] \in Nat
  BY DEF TicketInv, TypeOK, Transcripts
<1>2. entry = NoEntry \/ (~Repeated(entry, q) /\ AllowsRetry(entry))
  BY DEF Verdict, EntryVerdict, UnwrapNak
<1>3. IsFiniteSet(accepted) /\ Cardinality(accepted) = entry.attempts
  BY <1>1 DEF TicketInv, CountsDistinct
<1>4. entry.attempts < MaxAttempts
  BY <1>2, AttemptsAssumption, TicketAssumption DEF NoEntry, AllowsRetry
<1>5. q \notin accepted
  <2>1. CASE entry.attempts = 0
    BY <2>1, <1>3, FS_EmptySet
  <2>2. CASE entry.attempts # 0
    <3>1. entry.attempts = 1
      BY <2>2, <1>1, <1>4, AttemptsAssumption, TicketAssumption DEF ConsumedEntry
    <3>2. PICK x : accepted = {x}
      BY <3>1, <1>3, FS_Singleton
    <3>3. entry.last_transcript \in accepted
      BY <2>2, <1>1 DEF TicketInv, RemembersAccepted
    <3>4. entry.last_transcript # q
      BY <1>2, <3>1 DEF NoEntry, Repeated
    <3> QED BY <3>2, <3>3, <3>4
  <2> QED BY <2>1, <2>2
<1>6. accepts[n][q] = 0
  BY <1>1, <1>5 DEF AcceptedFor
<1> QED BY <1>4, <1>5, <1>6

\* The fleet starts in the invariant.
LEMMA InitTicketInv == Init => TicketInv
<1> SUFFICES ASSUME Init PROVE TicketInv
  OBVIOUS
<1>1. TypeOK
  BY AttemptsAssumption, TicketAssumption
  DEF Init, TypeOK, Epochs, ConsumedEntry, NoEntry
<1>2. \A n \in Nodes, t \in Tickets : AcceptedFor(n, t) = {}
  BY DEF Init, AcceptedFor
<1>3. CountsDistinct
  BY <1>2, FS_EmptySet DEF Init, CountsDistinct, NoEntry
<1>4. RemembersAccepted
  BY DEF Init, RemembersAccepted, NoEntry
<1>5. AcceptedAreSigned
  BY FS_EmptySet DEF Init, AcceptedAreSigned
<1>6. NeverAcceptedTwice
  BY DEF Init, NeverAcceptedTwice
<1> QED BY <1>1, <1>3, <1>4, <1>5, <1>6 DEF TicketInv

\* A step that leaves the consumed sets and the accepts alone and never forgets a
\* signature keeps the invariant.
LEMMA QuietStep ==
  ASSUME TicketInv, TypeOK', consumed' = consumed, accepts' = accepts,
         signed \subseteq signed', IsFiniteSet(signed')
  PROVE  TicketInv'
<1>1. \A n \in Nodes, t \in Tickets : AcceptedFor(n, t)' = AcceptedFor(n, t)
  BY DEF AcceptedFor
<1>2. CountsDistinct' /\ RemembersAccepted'
  BY <1>1 DEF TicketInv, CountsDistinct, RemembersAccepted
<1>3. AcceptedAreSigned' /\ NeverAcceptedTwice'
  BY DEF TicketInv, AcceptedAreSigned, NeverAcceptedTwice
<1> QED BY <1>2, <1>3 DEF TicketInv

-----------------------------------------------------------------------------
\* mint_at keeps the invariant.
LEMMA MintTicketInv ==
  ASSUME TicketInv, NEW n \in Nodes, NEW t \in Tickets, Mint(n, t)
  PROVE  TicketInv'
<1>1. now[n] + Ttl \in 0 .. MaxNow + Ttl
  BY AttemptsAssumption, TicketAssumption DEF TicketInv, TypeOK
<1>2. TypeOK'
  BY <1>1 DEF Mint, TicketInv, TypeOK, TicketPlain
<1> QED BY <1>2, QuietStep DEF Mint, TicketInv, AcceptedAreSigned

\* A signature of the client keeps the invariant.
LEMMA SignTicketInv ==
  ASSUME TicketInv, NEW q \in Transcripts, SignResume(q)
  PROVE  TicketInv'
<1>1. TypeOK'
  BY DEF SignResume, TicketInv, TypeOK
<1>2. IsFiniteSet(signed')
  BY FS_AddElement DEF SignResume, TicketInv, AcceptedAreSigned
<1> QED BY <1>1, <1>2, QuietStep DEF SignResume

\* set_now keeps the invariant.
LEMMA SetNowTicketInv ==
  ASSUME TicketInv, NEW n \in Nodes, SetNow(n)
  PROVE  TicketInv'
<1>1. now[n] + 1 \in 0 .. MaxNow
  BY AttemptsAssumption, TicketAssumption DEF SetNow, TicketInv, TypeOK
<1>2. TypeOK'
  BY <1>1 DEF SetNow, TicketInv, TypeOK
<1> QED BY <1>2, QuietStep DEF SetNow, TicketInv, AcceptedAreSigned

\* A node that starts again forgets its consumed set and counts from zero.
LEMMA RestartTicketInv ==
  ASSUME TicketInv, NEW n \in Nodes, NEW e \in Epochs, Restart(n, e)
  PROVE  TicketInv'
<1>1. TypeOK'
  <2>1. NoEntry \in ConsumedEntry
    BY AttemptsAssumption, TicketAssumption DEF NoEntry, ConsumedEntry
  <2>2. restarts' \in 0 .. MaxRestarts
    BY AttemptsAssumption, TicketAssumption DEF Restart, TicketInv, TypeOK
  <2> QED BY <2>1, <2>2 DEF Restart, TicketInv, TypeOK
<1>2. \A t \in Tickets : AcceptedFor(n, t)' = {}
  BY DEF Restart, TicketInv, TypeOK, AcceptedFor
<1>3. \A m \in Nodes \ {n} : consumed'[m] = consumed[m] /\ accepts'[m] = accepts[m]
  BY DEF Restart, TicketInv, TypeOK
<1>4. \A m \in Nodes \ {n}, t \in Tickets : AcceptedFor(m, t)' = AcceptedFor(m, t)
  BY <1>3 DEF AcceptedFor
<1>5. \A t \in Tickets : consumed'[n][t] = NoEntry
  BY DEF Restart, TicketInv, TypeOK
<1>6. CountsDistinct'
  BY <1>2, <1>3, <1>4, <1>5, FS_EmptySet DEF TicketInv, CountsDistinct, NoEntry
<1>7. RemembersAccepted'
  BY <1>3, <1>4, <1>5 DEF TicketInv, RemembersAccepted, NoEntry
<1>8. \A q \in Transcripts : accepts'[n][q] = 0
  BY DEF Restart, TicketInv, TypeOK
<1>9. AcceptedAreSigned'
  BY <1>3, <1>8 DEF Restart, TicketInv, AcceptedAreSigned
<1>10. NeverAcceptedTwice'
  BY <1>3, <1>8 DEF TicketInv, NeverAcceptedTwice
<1> QED BY <1>1, <1>6, <1>7, <1>9, <1>10 DEF TicketInv

\* A request that is refused changes no consumed set.
LEMMA RefusedTicketInv ==
  ASSUME TicketInv, NEW n \in Nodes, NEW q \in Transcripts, NEW pop \in BOOLEAN,
         HandleResume(n, q, pop), Verdict(n, q, pop) # "Accept"
  PROVE  TicketInv'
<1>1. q.ticket \in Tickets
  BY DEF Transcripts
<1>2. consumed' = consumed
  BY <1>1 DEF HandleResume, EntryAfter, TicketInv, TypeOK
<1>3. accepts' = accepts
  BY DEF HandleResume
<1>4. TypeOK'
  BY <1>2, <1>3 DEF HandleResume, TicketInv, TypeOK
<1> QED BY <1>2, <1>3, <1>4, QuietStep DEF HandleResume, TicketInv, AcceptedAreSigned

\* A request that is accepted is one more transcript for its ticket, and the one
\* its entry keeps.
LEMMA AcceptedTicketInv ==
  ASSUME MaxAttempts <= 2, TicketInv, NEW n \in Nodes, NEW q \in signed,
         NEW pop \in BOOLEAN, HandleResume(n, q, pop), Verdict(n, q, pop) = "Accept"
  PROVE  TicketInv'
<1> DEFINE t == q.ticket
<1>1. q \in Transcripts /\ t \in Tickets
  BY DEF TicketInv, TypeOK, Transcripts
<1>2. /\ consumed[n][t].attempts < MaxAttempts
      /\ q \notin AcceptedFor(n, t)
      /\ accepts[n][q] = 0
  BY <1>1, AcceptedIsNew
<1>3. /\ consumed[n][t].attempts \in Nat
      /\ consumed[n][t].attempts + 1 \in 1 .. MaxAttempts
  BY <1>1, <1>2, AttemptsAssumption, TicketAssumption DEF TicketInv, TypeOK, ConsumedEntry
<1>4. consumed' = [consumed EXCEPT ![n][t] =
                     [attempts |-> consumed[n][t].attempts + 1, last_transcript |-> q]]
  BY <1>1 DEF HandleResume, EntryAfter
<1>5. accepts' = [accepts EXCEPT ![n][q] = 1]
  BY <1>1, <1>2 DEF HandleResume, TicketInv, TypeOK
<1>6. signed' = signed
  BY DEF HandleResume
<1>7. TypeOK'
  <2>1. consumed' \in [Nodes -> [Tickets -> ConsumedEntry]]
    BY <1>1, <1>3, <1>4, AttemptsAssumption, TicketAssumption DEF TicketInv, TypeOK, ConsumedEntry
  <2>2. accepts' \in [Nodes -> [Transcripts -> Nat]]
    BY <1>1, <1>5 DEF TicketInv, TypeOK
  <2> QED BY <2>1, <2>2 DEF HandleResume, TicketInv, TypeOK
<1>8. AcceptedFor(n, t)' = AcceptedFor(n, t) \union {q}
  BY <1>1, <1>5 DEF AcceptedFor, TicketInv, TypeOK
<1>9. \A m \in Nodes, u \in Tickets : m # n \/ u # t =>
        AcceptedFor(m, u)' = AcceptedFor(m, u) /\ consumed'[m][u] = consumed[m][u]
  BY <1>1, <1>4, <1>5 DEF AcceptedFor, TicketInv, TypeOK
<1>10. consumed'[n][t] = [attempts |-> consumed[n][t].attempts + 1, last_transcript |-> q]
  BY <1>1, <1>4 DEF TicketInv, TypeOK
<1>11. CountsDistinct'
  <2>1. /\ IsFiniteSet(AcceptedFor(n, t)')
        /\ Cardinality(AcceptedFor(n, t)') = consumed[n][t].attempts + 1
    <3>1. /\ IsFiniteSet(AcceptedFor(n, t))
          /\ Cardinality(AcceptedFor(n, t)) = consumed[n][t].attempts
      BY <1>1 DEF TicketInv, CountsDistinct
    <3> QED BY <1>2, <1>8, <3>1, FS_AddElement
  <2> QED BY <2>1, <1>9, <1>10 DEF TicketInv, CountsDistinct
<1>12. RemembersAccepted'
  <2>1. consumed'[n][t].attempts # 0 /\ consumed'[n][t].last_transcript \in AcceptedFor(n, t)'
    BY <1>3, <1>8, <1>10
  <2> QED BY <2>1, <1>9 DEF TicketInv, RemembersAccepted
<1>13. AcceptedAreSigned'
  BY <1>1, <1>5, <1>6 DEF TicketInv, TypeOK, AcceptedAreSigned
<1>14. NeverAcceptedTwice'
  BY <1>1, <1>5 DEF TicketInv, TypeOK, NeverAcceptedTwice
<1> QED BY <1>7, <1>11, <1>12, <1>13, <1>14 DEF TicketInv

\* A request whose signature does not verify is never accepted.
LEMMA WrongSignatureRefused ==
  ASSUME NEW n \in Nodes, NEW q \in Transcripts
  PROVE  Verdict(n, q, FALSE) # "Accept"
BY DEF Verdict, UnwrapNak

-----------------------------------------------------------------------------
\* With the code's budget of two every behaviour of the fleet stays in the invariant.
THEOREM TicketInvariant ==
  ASSUME MaxAttempts <= 2
  PROVE  Spec => []TicketInv
<1>1. Init => TicketInv
  BY InitTicketInv
<1>2. TicketInv /\ [Next]_vars => TicketInv'
  <2> SUFFICES ASSUME TicketInv, [Next]_vars PROVE TicketInv'
    OBVIOUS
  <2> USE DEF Next
  <2>1. CASE \E n \in Nodes, t \in Tickets : Mint(n, t)
    BY <2>1, MintTicketInv
  <2>2. CASE \E q \in Transcripts : SignResume(q)
    BY <2>2, SignTicketInv
  <2>3. CASE \E n \in Nodes, q \in signed : HandleResume(n, q, TRUE)
    <3>1. PICK n \in Nodes, q \in signed : HandleResume(n, q, TRUE)
      BY <2>3
    <3>2. q \in Transcripts
      BY DEF TicketInv, TypeOK
    <3> QED BY <3>1, <3>2, AcceptedTicketInv, RefusedTicketInv
  <2>4. CASE \E n \in Nodes, q \in Transcripts : HandleResume(n, q, FALSE)
    BY <2>4, WrongSignatureRefused, RefusedTicketInv
  <2>5. CASE \E n \in Nodes : SetNow(n)
    BY <2>5, SetNowTicketInv
  <2>6. CASE \E n \in Nodes, e \in Epochs : Restart(n, e)
    BY <2>6, RestartTicketInv
  <2>7. CASE UNCHANGED vars
    <3>1. TypeOK'
      BY <2>7 DEF vars, TicketInv, TypeOK
    <3> QED BY <2>7, <3>1, QuietStep DEF vars, TicketInv, AcceptedAreSigned
  <2> QED BY <2>1, <2>2, <2>3, <2>4, <2>5, <2>6, <2>7
<1> QED BY <1>1, <1>2, PTL DEF Spec

\* Every variable of the fleet keeps its type; no count leaves the budget.
THEOREM TicketTypeCorrect ==
  ASSUME MaxAttempts <= 2
  PROVE  Spec => []TypeOK
<1>1. TicketInv => TypeOK
  BY DEF TicketInv
<1> QED BY <1>1, TicketInvariant, PTL

\* Between two starts of a node, handle_resume accepts no transcript twice,
\* although the node remembers only the last one.
THEOREM ReplayIsNeverAccepted ==
  ASSUME MaxAttempts <= 2
  PROVE  Spec => []NeverAcceptedTwice
<1>1. TicketInv => NeverAcceptedTwice
  BY DEF TicketInv
<1> QED BY <1>1, TicketInvariant, PTL

\* Between two starts of a node, handle_resume accepts at most
\* MAX_RESUME_ATTEMPTS different requests for a ticket.
THEOREM BudgetIsHeld ==
  ASSUME MaxAttempts <= 2
  PROVE  Spec => []BudgetHeld
<1>1. TicketInv => BudgetHeld
  BY AttemptsAssumption, TicketAssumption DEF TicketInv, TypeOK, ConsumedEntry, CountsDistinct, BudgetHeld
<1> QED BY <1>1, TicketInvariant, PTL

\* Copies and wrong signatures never use up the budget of the ticket's owner.
THEOREM BudgetIsTheOwners ==
  ASSUME MaxAttempts <= 2
  PROVE  Spec => []OwnerKeepsBudget
<1>1. TicketInv => OwnerKeepsBudget
  <2> SUFFICES ASSUME TicketInv, NEW n \in Nodes, NEW q \in signed,
                      Unwrap(n, q.ticket) = "Ok", accepts[n][q] = 0,
                      Cardinality({r \in signed : r.ticket = q.ticket}) <= MaxAttempts
               PROVE  Verdict(n, q, TRUE) = "Accept"
    BY DEF OwnerKeepsBudget
  <2> DEFINE entry == consumed[n][q.ticket]
             accepted == AcceptedFor(n, q.ticket)
             own == {r \in signed : r.ticket = q.ticket}
  <2>1. q \in Transcripts /\ q.ticket \in Tickets /\ entry \in ConsumedEntry
    BY DEF TicketInv, TypeOK, Transcripts
  <2>2. IsFiniteSet(accepted) /\ Cardinality(accepted) = entry.attempts
    BY <2>1 DEF TicketInv, CountsDistinct
  <2>3. q \notin accepted
    BY DEF AcceptedFor
  <2>4. AllowsRetry(entry)
    <3>1. accepted \union {q} \subseteq own
      BY <2>1 DEF AcceptedFor, TicketInv, AcceptedAreSigned
    <3>2. IsFiniteSet(own)
      BY FS_Subset DEF TicketInv, AcceptedAreSigned
    <3>3. Cardinality(accepted \union {q}) = entry.attempts + 1
      BY <2>2, <2>3, FS_AddElement
    <3>4. Cardinality(accepted \union {q}) <= Cardinality(own)
      BY <3>1, <3>2, FS_Subset
    <3>5. Cardinality(own) \in Nat
      BY <3>2, FS_CardinalityType
    <3> QED BY <2>1, <3>3, <3>4, <3>5, AttemptsAssumption, TicketAssumption DEF AllowsRetry, ConsumedEntry
  <2>5. entry = NoEntry \/ ~Repeated(entry, q)
    <3>1. CASE entry.attempts = 0
      <4>1. entry.last_transcript = None
        BY <2>1, <3>1 DEF TicketInv, RemembersAccepted
      <4> QED BY <2>1, <3>1, <4>1 DEF NoEntry, ConsumedEntry
    <3>2. CASE entry.attempts # 0
      BY <2>1, <2>3, <3>2 DEF TicketInv, RemembersAccepted, Repeated
    <3> QED BY <3>1, <3>2
  <2> QED BY <2>4, <2>5 DEF Verdict, EntryVerdict
<1> QED BY <1>1, TicketInvariant, PTL
=============================================================================
