---------------------------- MODULE DedupWindow ----------------------------
(***************************************************************************)
(* The duplicate window of a session side (crate frame-session, type       *)
(* DedupWindow): a floor taken from the ticket, the bounds lo..hi of the   *)
(* window, one bit per sequence number of the window, a counter of         *)
(* anomalies, and the flag of a window rebuilt from a signed last_seq.     *)
(*                                                                         *)
(* A window is a record; every operation of the type is an operator from   *)
(* the old window to the new one.  The 512-byte bitmap is the set `seen'   *)
(* of the indices whose bit is set, counted from lo.                       *)
(***************************************************************************)
EXTENDS Integers

CONSTANTS
  W,        \* DUPLICATE_WINDOW_RECORDS: 4096 in the code
  U64Max    \* the largest sequence number, u64::MAX in the code

ASSUME WindowAssumption == W \in Nat \ {0} /\ U64Max \in Nat /\ W <= U64Max

Window == [ floor : Nat, lo : Nat, hi : Nat, seen : SUBSET (0 .. W - 1),
            anomalies : Nat, restored : BOOLEAN ]

\* u64::saturating_add(1) and u64::saturating_sub.
SatInc(a) == IF a < U64Max THEN a + 1 ELSE U64Max
SatSub(a, b) == IF a >= b THEN a - b ELSE 0

\* Mutated form of SlideLo: the saturating_add(1) is forgotten, so the window
\* spans one sequence number more than the bitmap has bits.
SlideLoOffByOne(floor, last_seq) ==
  LET lowest == SatSub(last_seq, W) IN IF lowest > floor THEN lowest ELSE floor

SlideLo(floor, last_seq) ==
  LET lowest == SatSub(SatInc(last_seq), W)
  IN  IF lowest > floor THEN lowest ELSE floor

NewWindow(floor, last_seq) ==
  [ floor |-> floor, lo |-> SlideLo(floor, last_seq), hi |-> last_seq,
    seen |-> {}, anomalies |-> 0, restored |-> FALSE ]

\* Mutated form of RestoreFromSignedLastSeq: last_seq is taken for the number the
\* client issues next, so the window counts that number as delivered.
RestoreOneHigh(floor, last_seq) ==
  [ NewWindow(floor, SatInc(last_seq)) EXCEPT !.restored = TRUE ]

RestoreFromSignedLastSeq(floor, last_seq) ==
  [ NewWindow(floor, last_seq) EXCEPT !.restored = TRUE ]

\* bit() and mark(): an index beyond the bitmap reads as unset and is not set.
Bit(w, index) == index \in w.seen
Mark(seen, index) == IF index < W THEN seen \union {index} ELSE seen

\* Mutated form of SlideTo: lo moves but the bits keep their old positions.
SlideWithoutShift(w, new_lo) == IF new_lo <= w.lo THEN w ELSE [ w EXCEPT !.lo = new_lo ]

\* Another one: bits that leave the window are not dropped.
SlideUnclipped(w, new_lo) ==
  IF new_lo <= w.lo THEN w
  ELSE [ w EXCEPT !.lo = new_lo, !.seen = { i - (new_lo - w.lo) : i \in w.seen } ]

SlideTo(w, new_lo) ==
  LET delta == new_lo - w.lo
  IN  IF new_lo <= w.lo THEN w
      ELSE [ w EXCEPT !.lo = new_lo,
                      !.seen = { i \in 0 .. W - 1 : i + delta \in w.seen } ]

Below(w, seq) == seq < w.floor \/ seq < w.lo

\* The classification shared by accept and is_new.
IsNew(w, seq) ==
  /\ ~Below(w, seq)
  /\ seq <= w.hi => ~w.restored /\ ~Bit(w, seq - w.lo)

Outcomes == {"Accepted", "Duplicate", "BelowWindow"}

Outcome(w, seq) ==
  IF Below(w, seq) THEN "BelowWindow" ELSE IF IsNew(w, seq) THEN "Accepted" ELSE "Duplicate"

\* The last branch of accept: a number above hi slides the window up to it.
AcceptNew(w, seq) ==
  LET slid == SlideTo(w, SlideLo(w.floor, seq))
  IN  [slid EXCEPT !.seen = Mark(@, seq - slid.lo), !.hi = seq]

\* Mutated form of Accept: hi follows every accepted number, not only higher ones.
AcceptMovesBack(w, seq) ==
  IF Below(w, seq)       THEN [w EXCEPT !.anomalies = @ + 1]
  ELSE IF ~IsNew(w, seq) THEN w
  ELSE AcceptNew(w, seq)

Accept(w, seq) ==
  IF Below(w, seq)       THEN [w EXCEPT !.anomalies = @ + 1]
  ELSE IF ~IsNew(w, seq) THEN w
  ELSE IF seq <= w.hi    THEN [w EXCEPT !.seen = Mark(@, seq - w.lo)]
  ELSE AcceptNew(w, seq)
=============================================================================
