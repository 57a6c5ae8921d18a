---------------------------- MODULE ConsumedSet ----------------------------
(***************************************************************************)
(* One entry of a node's consumed set (crate ticket-mint): how many        *)
(* attempts at a ticket the node has accepted, and the transcript of the   *)
(* last one.  The operators are the part of TicketFactory::handle_resume   *)
(* that follows a valid ticket and a valid signature.                      *)
(***************************************************************************)
EXTENDS Integers

CONSTANTS
  MaxAttempts,  \* MAX_RESUME_ATTEMPTS: 2 in the code
  None

ASSUME AttemptsAssumption == MaxAttempts \in Nat \ {0}

\* No entry for the key epoch_id, sha256(blob).
NoEntry == [attempts |-> 0, last_transcript |-> None]

\* Mutated forms: a copy passes for a retry; one attempt more than the budget.
NeverRepeated(entry, q) == FALSE
AllowsOneMore(entry) == entry.attempts <= MaxAttempts

Repeated(entry, q) == entry.last_transcript = q
AllowsRetry(entry) == entry.attempts < MaxAttempts

EntryVerdict(entry, q) ==
  IF entry = NoEntry THEN "Accept"
  ELSE IF Repeated(entry, q) THEN "NakReplay"
  ELSE IF AllowsRetry(entry) THEN "Accept"
  ELSE "NakBudget"

\* Mutated form of EntryAfter: a refused copy also counts as an attempt.
EntryCountsCopies(entry, q, verdict) ==
  IF verdict = "Accept" \/ (verdict = "NakReplay" /\ AllowsRetry(entry))
  THEN [attempts |-> entry.attempts + 1, last_transcript |-> q]
  ELSE entry

\* Only an accepted request writes the consumed set.
EntryAfter(entry, q, verdict) ==
  IF verdict = "Accept"
  THEN [attempts |-> entry.attempts + 1, last_transcript |-> q]
  ELSE entry
=============================================================================
