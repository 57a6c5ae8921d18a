------------------------- MODULE DedupWindowProofs -------------------------
(***************************************************************************)
(* What the operators of a duplicate window do below u64::MAX, stated once *)
(* for the proofs of every receiver that has one.                          *)
(***************************************************************************)
EXTENDS DedupWindow, TLAPS

\* Below u64::MAX nothing saturates: lo is the larger of the floor and last_seq + 1 - W.
LEMMA SlideLoBounds ==
  ASSUME NEW floor \in Nat, NEW last_seq \in Nat, last_seq < U64Max
  PROVE  /\ SlideLo(floor, last_seq) \in Nat
         /\ floor <= SlideLo(floor, last_seq)
         /\ last_seq < SlideLo(floor, last_seq) + W
         /\ SlideLo(floor, last_seq) = floor \/ SlideLo(floor, last_seq) + W = last_seq + 1
  BY WindowAssumption DEF SlideLo, SatInc, SatSub

\* A later last_seq never moves lo back.
LEMMA SlideLoMonotone ==
  ASSUME NEW floor \in Nat, NEW a \in Nat, NEW b \in Nat, a <= b, b < U64Max
  PROVE  SlideLo(floor, a) <= SlideLo(floor, b)
  BY WindowAssumption DEF SlideLo, SatInc, SatSub

\* What accept does to a tight window, case by case, without the operators it is built from.
LEMMA AcceptCases ==
  ASSUME NEW w \in Window, NEW seq \in Nat, seq < U64Max, w.hi < U64Max,
         w.lo = SlideLo(w.floor, w.hi)
  PROVE  LET v == Accept(w, seq) IN
         /\ v \in Window
         /\ v.floor = w.floor /\ v.restored = w.restored
         /\ v.lo = SlideLo(v.floor, v.hi)
         /\ Below(w, seq) =>
              v = [w EXCEPT !.anomalies = @ + 1]
         /\ ~Below(w, seq) /\ ~IsNew(w, seq) => v = w
         /\ IsNew(w, seq) =>
              /\ v.anomalies = w.anomalies
              /\ v.hi = IF seq > w.hi THEN seq ELSE w.hi
              /\ v.lo <= seq
              /\ \A s \in Nat : s >= v.lo =>
                   (s - v.lo \in v.seen <=> s = seq \/ s - w.lo \in w.seen)
<1> DEFINE slid == SlideTo(w, SlideLo(w.floor, seq))
           v == Accept(w, seq)
<1>0. /\ w.floor \in Nat /\ w.lo \in Nat /\ w.hi \in Nat /\ w.anomalies \in Nat
      /\ w.seen \in SUBSET (0 .. W - 1) /\ w.restored \in BOOLEAN
  BY DEF Window
<1>w. W \in Nat /\ W > 0
  BY WindowAssumption
<1>1. CASE Below(w, seq)
  <2>1. v = [w EXCEPT !.anomalies = @ + 1]
    BY <1>1 DEF Accept
  <2>2. ~IsNew(w, seq)
    BY <1>1 DEF IsNew
  <2> QED
    BY <1>0, <1>1, <2>1, <2>2 DEF Window
<1>2. CASE ~Below(w, seq) /\ ~IsNew(w, seq)
  <2>1. v = w
    BY <1>2 DEF Accept
  <2> QED
    BY <1>2, <2>1
<1>3. CASE IsNew(w, seq) /\ seq <= w.hi
  <2>1. ~Below(w, seq) /\ seq >= w.lo /\ seq >= w.floor
    BY <1>0, <1>3 DEF IsNew, Below
  <2>2. v = [w EXCEPT !.seen = Mark(@, seq - w.lo)]
    BY <1>3, <2>1 DEF Accept
  <2>3. seq - w.lo \in 0 .. W - 1
    BY <1>0, <1>3, <1>w, <2>1, SlideLoBounds
  <2>4. Mark(w.seen, seq - w.lo) = w.seen \union {seq - w.lo}
    BY <2>3, <1>w DEF Mark
  <2>5. v = [w EXCEPT !.seen = w.seen \union {seq - w.lo}]
    BY <2>2, <2>4
  <2>6. /\ v.floor = w.floor /\ v.lo = w.lo /\ v.hi = w.hi /\ v.anomalies = w.anomalies
        /\ v.restored = w.restored /\ v.seen = w.seen \union {seq - w.lo}
    BY <2>5 DEF Window
  <2>7. v \in Window
    BY <1>0, <2>3, <2>5 DEF Window
  <2>8. ASSUME NEW s \in Nat, s >= v.lo
        PROVE  s - v.lo \in v.seen <=> s = seq \/ s - w.lo \in w.seen
    BY <1>0, <2>6
  <2> HIDE DEF v
  <2>9. v.hi = (IF seq > w.hi THEN seq ELSE w.hi) /\ v.lo <= seq
    BY <1>0, <1>3, <2>1, <2>6
  <2> QED
    BY <1>3, <2>1, <2>6, <2>7, <2>8, <2>9 DEF v
<1>4. CASE IsNew(w, seq) /\ seq > w.hi
  <2> DEFINE new_lo == SlideLo(w.floor, seq)
  <2>1. ~Below(w, seq)
    BY <1>4 DEF IsNew
  <2>2. v = [slid EXCEPT !.seen = Mark(@, seq - slid.lo), !.hi = seq]
    BY <1>0, <1>4, <2>1 DEF Accept, AcceptNew
  <2>3. /\ new_lo \in Nat /\ w.lo <= new_lo /\ seq < new_lo + W
        /\ (new_lo = w.floor \/ new_lo + W = seq + 1)
    BY <1>0, <1>4, SlideLoBounds, SlideLoMonotone
  <2>4. new_lo <= seq
    BY <1>0, <1>w, <2>1, <2>3 DEF Below
  <2> HIDE DEF new_lo
  <2>5. /\ slid \in Window
        /\ slid.lo = new_lo /\ slid.floor = w.floor /\ slid.anomalies = w.anomalies
        /\ slid.restored = w.restored /\ slid.hi = w.hi
        /\ \A s \in Nat : s >= new_lo => (s - new_lo \in slid.seen <=> s - w.lo \in w.seen)
    <3> DEFINE kept == {i \in 0 .. W - 1 : i + (new_lo - w.lo) \in w.seen}
    <3>1. CASE new_lo <= w.lo
      <4>1. slid = w
        BY <3>1 DEF SlideTo, new_lo
      <4>2. new_lo = w.lo
        BY <1>0, <2>3, <3>1
      <4> QED
        BY <1>0, <4>1, <4>2
    <3>2. CASE ~(new_lo <= w.lo)
      <4>1. slid = [w EXCEPT !.lo = new_lo, !.seen = kept]
        BY <3>2 DEF SlideTo, new_lo
      <4>2. slid \in Window
        BY <1>0, <2>3, <4>1 DEF Window
      <4>3. slid.lo = new_lo /\ slid.seen = kept /\ slid.hi = w.hi /\ slid.floor = w.floor
            /\ slid.anomalies = w.anomalies /\ slid.restored = w.restored
        BY <4>1 DEF Window
      <4>4. ASSUME NEW s \in Nat, s >= new_lo
            PROVE  s - new_lo \in kept <=> s - w.lo \in w.seen
        <5>1. (s - new_lo) + (new_lo - w.lo) = s - w.lo /\ s - new_lo \in Nat
          BY <1>0, <2>3, <4>4
        <5>2. s - w.lo \in w.seen => s - new_lo \in 0 .. W - 1
          BY <1>0, <1>w, <2>3, <4>4
        <5> QED
          BY <5>1, <5>2
      <4> QED
        BY <4>2, <4>3, <4>4
    <3> QED
      BY <3>1, <3>2
  <2> HIDE DEF slid
  <2>6. seq - slid.lo \in 0 .. W - 1
    BY <1>w, <2>3, <2>4, <2>5
  <2>7. Mark(slid.seen, seq - slid.lo) = slid.seen \union {seq - slid.lo}
    BY <1>w, <2>6 DEF Mark
  <2>8. v = [slid EXCEPT !.seen = slid.seen \union {seq - slid.lo}, !.hi = seq]
    BY <2>2, <2>7
  <2>9. /\ v.floor = w.floor /\ v.lo = new_lo /\ v.hi = seq /\ v.anomalies = w.anomalies
        /\ v.restored = w.restored /\ v.seen = slid.seen \union {seq - new_lo}
    BY <2>5, <2>8 DEF Window
  <2>10. v \in Window
    <3> DEFINE marked == slid.seen \union {seq - slid.lo}
    <3>1. marked \in SUBSET (0 .. W - 1)
      BY <2>5, <2>6 DEF Window
    <3>2. v = [slid EXCEPT !.seen = marked, !.hi = seq]
      BY <2>8
    <3> HIDE DEF marked
    <3> QED
      BY <2>5, <3>1, <3>2 DEF Window
  <2> HIDE DEF v
  <2>11. ASSUME NEW s \in Nat, s >= v.lo
         PROVE  s - v.lo \in v.seen <=> s = seq \/ s - w.lo \in w.seen
    <3>1. s - new_lo = seq - new_lo <=> s = seq
      BY <2>3
    <3> QED
      BY <2>5, <2>9, <2>11, <3>1
  <2> QED
    BY <1>0, <1>4, <2>1, <2>4, <2>9, <2>10, <2>11 DEF v, new_lo
<1> QED
  BY <1>0, <1>1, <1>2, <1>3, <1>4
=============================================================================
