----------------------------- MODULE RunLedger -----------------------------
(***************************************************************************)
(* What the load generator promises to the correctness check: batches are  *)
(* offered, each offered batch is settled at most once and in one way,     *)
(* the totals follow one batch at a time and never overtake what happened, *)
(* and the manifest is written once, as a copy of the totals, when every   *)
(* offered batch has been counted.  LoadGen implements it.                 *)
(***************************************************************************)
EXTENDS Integers, FiniteSets

CONSTANTS None, Batches, BatchSize, Outcomes

VARIABLES
  outstanding,  \* batches offered and not settled
  outcome,      \* the batches settled in each way
  totals,       \* offered, accepted and rejected records
  manifest,     \* the totals once published, or None
  over          \* has the process ended?

vars == <<outstanding, outcome, totals, manifest, over>>

Settled == UNION {outcome[c] : c \in Outcomes}
Worth(S) == BatchSize * Cardinality(S)

Init ==
  /\ outstanding = {} /\ outcome = [c \in Outcomes |-> {}]
  /\ totals = [offered |-> 0, accepted |-> 0, rejected |-> 0]
  /\ manifest = None /\ over = FALSE

\* A batch goes to the workers; a number is used once.
Offer(s) ==
  /\ manifest = None /\ s \notin outstanding \cup Settled
  /\ outstanding' = outstanding \cup {s}
  /\ UNCHANGED <<outcome, totals, manifest, over>>

\* Its export ends in one way.
Settle(s, c) ==
  /\ s \in outstanding
  /\ outstanding' = outstanding \ {s}
  /\ outcome' = [outcome EXCEPT ![c] = @ \cup {s}]
  /\ UNCHANGED <<totals, manifest, over>>

Book(field, limit) ==
  /\ totals[field] + BatchSize <= limit
  /\ totals' = [totals EXCEPT ![field] = @ + BatchSize]
  /\ UNCHANGED <<outstanding, outcome, manifest, over>>

CountOffer   == manifest = None /\ Book("offered", Worth(outstanding \cup Settled))
CountAck     == Book("accepted", Worth(outcome["OK"]))
CountRefusal == Book("rejected", Worth(outcome["RESOURCE_EXHAUSTED"]))

Publish ==
  /\ manifest = None /\ totals.offered = Worth(outstanding \cup Settled)
  /\ manifest' = totals
  /\ UNCHANGED <<outstanding, outcome, totals, over>>

\* The process ends; one that offered anything leaves a manifest.
End ==
  /\ manifest # None \/ outstanding \cup Settled = {}
  /\ over' = TRUE
  /\ UNCHANGED <<outstanding, outcome, totals, manifest>>

Next ==
  /\ ~over
  /\ \/ \E s \in Batches : Offer(s) \/ \E c \in Outcomes : Settle(s, c)
     \/ CountOffer \/ CountAck \/ CountRefusal \/ Publish \/ End

Spec == Init /\ [][Next]_vars
=============================================================================
