----------------------------- MODULE RelaySplice ----------------------------
(***************************************************************************)
(* relay_to_target of crate cover-reality: the splice between a probe and  *)
(* the target site, two threads that copy one direction each and share the *)
(* sockets and one counter of bytes.                                       *)
(*                                                                         *)
(* A socket is the number of bytes that wait to be read from it.  Whoever  *)
(* ends first shuts both sockets down, which wakes the other out of its    *)
(* read.  Nothing depends on what the bytes are: the copiers read none.    *)
(***************************************************************************)
EXTENDS Naturals

CONSTANTS
  MaxRelay,    \* max_relay_bytes
  Buffer,      \* bytes one read returns at most: 16 KiB in the code
  HelloLen,    \* bytes of the buffered ClientHello
  MaxData      \* bound: bytes that are sent in each direction

ASSUME SpliceAssumption ==
  /\ MaxRelay \in Nat /\ Buffer \in Nat \ {0} /\ HelloLen \in Nat
  /\ MaxData \in [{"ToSite", "ToProbe"} -> Nat]

VARIABLES
  relay,     \* "None", "Connecting", "Copying", and the three outcomes
  copier,    \* each direction: where its thread is, the bytes in its buffer
  waiting,   \* each direction: bytes in the socket it reads
  offered,   \* each direction: bytes its sender has sent
  shut,      \* both sockets are shut down
  quota,     \* bytes counted so far
  forwarded  \* history: bytes written to either side

spliceVars == <<relay, copier, waiting, offered, shut, quota, forwarded>>

Directions == {"ToSite", "ToProbe"}
Outcomes == {"Completed", "UpstreamUnreachable", "QuotaExhausted"}

SpliceTypeOK ==
  /\ relay \in {"None", "Connecting", "Copying"} \union Outcomes
  /\ copier \in [Directions -> [pc : {"Read", "Write", "Count"} \union Outcomes, n : 0 .. Buffer]]
  /\ waiting \in [Directions -> Nat]
  /\ \A d \in Directions : offered[d] \in 0 .. MaxData[d] /\ waiting[d] + copier[d].n <= offered[d]
  /\ shut \in BOOLEAN
  /\ quota \in Nat /\ forwarded \in quota .. quota + 2 * Buffer

SpliceInit ==
  /\ relay = "None"
  /\ copier = [d \in Directions |-> [pc |-> "Read", n |-> 0]]
  /\ waiting = [d \in Directions |-> 0] /\ offered = [d \in Directions |-> 0]
  /\ shut = FALSE /\ quota = 0 /\ forwarded = 0

\* connect_timeout, then the write of the buffered bytes; either may fail.
ConnectUpstream ==
  /\ relay = "Connecting"
  /\ \/ relay' = "UpstreamUnreachable" /\ UNCHANGED <<quota, forwarded>>
     \/ /\ relay' = IF HelloLen >= MaxRelay THEN "QuotaExhausted" ELSE "Copying"
        /\ quota' = HelloLen /\ forwarded' = HelloLen
  /\ UNCHANGED <<copier, waiting, offered, shut>>

\* The probe or the site sends.
SideSends(d) ==
  /\ relay = "Copying" /\ ~shut /\ offered[d] < MaxData[d]
  /\ offered' = [offered EXCEPT ![d] = @ + 1]
  /\ waiting' = [waiting EXCEPT ![d] = @ + 1]
  /\ UNCHANGED <<relay, copier, shut, quota, forwarded>>

Running(d) == relay = "Copying" /\ copier[d].pc \notin Outcomes

\* terminate: both sockets are shut down for both directions.
Terminate(d, outcome) ==
  copier' = [copier EXCEPT ![d] = [pc |-> outcome, n |-> 0]] /\ shut' = TRUE

\* read gives up to a buffer.
ReadSome(d) ==
  /\ Running(d) /\ copier[d].pc = "Read" /\ waiting[d] > 0
  /\ \E n \in 1 .. Buffer :
       /\ n <= waiting[d]
       /\ copier' = [copier EXCEPT ![d] = [pc |-> "Write", n |-> n]]
       /\ waiting' = [waiting EXCEPT ![d] = @ - n]
  /\ UNCHANGED <<relay, offered, shut, quota, forwarded>>

\* Mutated form of ReadEnds: a read without a timeout.
ReadWaits(d) ==
  /\ Running(d) /\ copier[d].pc = "Read" /\ shut
  /\ Terminate(d, "Completed")
  /\ UNCHANGED <<relay, waiting, offered, quota, forwarded>>

\* read gives nothing more: a thread shut the socket down, the sender closed its half, or
\* nothing came for connect_timeout.
ReadEnds(d) ==
  /\ Running(d) /\ copier[d].pc = "Read" /\ (shut \/ waiting[d] = 0)
  /\ Terminate(d, "Completed")
  /\ UNCHANGED <<relay, waiting, offered, quota, forwarded>>

\* write_all, and its error: the socket is shut down, or its far end is gone.
Write(d) ==
  /\ Running(d) /\ copier[d].pc = "Write" /\ ~shut
  /\ copier' = [copier EXCEPT ![d].pc = "Count"]
  /\ forwarded' = forwarded + copier[d].n
  /\ UNCHANGED <<relay, waiting, offered, shut, quota>>

WriteFails(d) ==
  /\ Running(d) /\ copier[d].pc = "Write"
  /\ Terminate(d, "Completed")
  /\ UNCHANGED <<relay, waiting, offered, quota, forwarded>>

\* Mutated form of Total: fetch_add returns what was there before.
TotalBefore(d) == quota

\* fetch_add(n) + n.
Total(d) == quota + copier[d].n

\* The bytes are counted after they went out.
Count(d) ==
  /\ Running(d) /\ copier[d].pc = "Count"
  /\ quota' = quota + copier[d].n
  /\ IF Total(d) >= MaxRelay
     THEN Terminate(d, "QuotaExhausted")
     ELSE copier' = [copier EXCEPT ![d] = [pc |-> "Read", n |-> 0]] /\ UNCHANGED shut
  /\ UNCHANGED <<relay, waiting, offered, forwarded>>

\* join: the outcome of the splice.
Join ==
  /\ relay = "Copying" /\ \A d \in Directions : ~Running(d)
  /\ relay' = IF \E d \in Directions : copier[d].pc = "QuotaExhausted"
              THEN "QuotaExhausted" ELSE "Completed"
  /\ UNCHANGED <<copier, waiting, offered, shut, quota, forwarded>>

CopierStep(d) == ReadSome(d) \/ ReadEnds(d) \/ Write(d) \/ WriteFails(d) \/ Count(d)

SpliceNext ==
  \/ ConnectUpstream
  \/ \E d \in Directions : SideSends(d) \/ CopierStep(d)
  \/ Join

SpliceFairness ==
  /\ WF_spliceVars(ConnectUpstream) /\ WF_spliceVars(Join)
  /\ \A d \in Directions : WF_spliceVars(CopierStep(d))
=============================================================================
