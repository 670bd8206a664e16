----------------------------- MODULE SendPath -----------------------------
(***************************************************************************)
(* The life of a batch between the queue and the counters: a worker of     *)
(* generator/src/loadgen.py stamps one of its own templates with the       *)
(* batch's sequence numbers (payload.py, payload_ai_txn.py), fetches a     *)
(* bearer token (TokenSource), exports the message to the collector, and   *)
(* books the outcome (Metrics), while the sampler reports what was booked  *)
(* and the main thread feeds batches and at the end writes the last row.   *)
(*                                                                         *)
(* Batch n has the records n*Batch .. n*Batch + Batch - 1.  LoadGen models *)
(* the queue, the steps and the shutdown of the workers; here the feed is  *)
(* a counter of batches and a worker may be stuck in any place.            *)
(***************************************************************************)
EXTENDS TokenSource, Metrics

CONSTANTS
  Workers,    \* factory.workers: worker w is one of 0 .. Workers-1
  Variants,   \* variants_per_worker
  Batch,      \* batch_size
  CustomerCounts,  \* data.customers of the configurations considered
  Polite,     \* workload.retry_mode = "polite"
  MaxBatches  \* bound: how many batches are fed

ASSUME PoolAssumption ==
  /\ Workers \in Nat \ {0} /\ Variants \in Nat \ {0} /\ Batch \in Nat \ {0}
  /\ CustomerCounts \subseteq Nat \ {0} /\ MaxBatches \in Nat /\ Polite \in BOOLEAN
  /\ Callers = 0..Workers - 1

VARIABLES
  customers,  \* self.customers of the payload factory
  fed,      \* batches put on the queue
  taken,    \* batches taken from it, in order
  wpc,      \* where each worker is
  item,     \* the batch each worker holds, or None
  stamped,  \* how many records of its template it has stamped
  seqs,     \* the pool: the sequence numbers in each template
  message,  \* the records of the request each worker has in flight, or None
  quiet     \* history: had every worker ended when engine.stop() returned?

batchVars == <<fed, taken, item, stamped, seqs, message, quiet>>
vars == <<tokenVars, metricsVars, mpc, batchVars, wpc, customers>>

Templates == 0..Workers * Variants - 1
Records   == 0..Batch - 1

\* _build_pool() of the ai_txn factory: customers round robin, from 1.
CustomerOf(t) == (t % customers) + 1
CustomersCovered == {CustomerOf(t) : t \in Templates}

\* coverage_warning(): main() refuses to start when it is given.
CoverageWarning == Workers * Variants < customers

TemplateFor_Overlaps(w, variant) ==    \* mutant: slices one template apart
  (w % Workers) + (variant % Variants)

\* template_for(): the slice of the pool that belongs to worker w.
TemplateFor(w, variant) == (w % Workers) * Variants + (variant % Variants)

\* The variant the pacer gave to batch n, and the records it numbered.
VariantOf(n) == n % Variants
SeqsOf(n) == [i \in Records |-> n * Batch + i]

Init ==
  /\ TokenInit /\ MetricsInit
  /\ customers \in CustomerCounts
  /\ mpc = IF CoverageWarning THEN "refused" ELSE "pace"
  /\ spc = IF CoverageWarning THEN "ended" ELSE "loop"
  /\ wpc = [w \in Callers |-> IF CoverageWarning THEN "ended" ELSE "get"]
  /\ fed = 0 /\ taken = 0
  /\ item = [w \in Callers |-> None]
  /\ stamped = [w \in Callers |-> 0]
  /\ seqs = [t \in Templates |-> [i \in Records |-> 0]]
  /\ message = [w \in Callers |-> None]
  /\ quiet = FALSE

-----------------------------------------------------------------------------
(* The main thread as the pacer, and engine.stop()                         *)

\* queue.put(item), and after it record_offered(): a worker may be done with
\* the batch before it counts as offered.
Feed ==
  /\ mpc = "pace" /\ fed < MaxBatches
  /\ mpc' = "offer"
  /\ fed' = fed + 1
  /\ UNCHANGED <<tokenVars, metricsVars, taken, item, stamped, seqs, message,
                 quiet, wpc>>

Offer ==
  /\ mpc = "offer"
  /\ mpc' = "pace"
  /\ RecordOffered(Batch)
  /\ UNCHANGED <<tokenVars, batchVars, wpc>>

\* engine.stop() posts the sentinels and begins to join the workers.
StopEngine ==
  /\ mpc = "pace"
  /\ mpc' = "joinWorkers"
  /\ UNCHANGED <<tokenVars, metricsVars, batchVars, wpc>>

\* The joins are over, each because its worker ended or because it timed out.
StopSampling ==
  /\ StopSampler
  /\ quiet' = \A w \in Callers : wpc[w] = "ended"
  /\ UNCHANGED <<tokenVars, fed, taken, item, stamped, seqs, message, wpc>>

-----------------------------------------------------------------------------
(* A worker                                                                *)

Go(w, l) == wpc' = [wpc EXCEPT ![w] = l]

\* queue.get() returns the next batch.
Take(w) ==
  /\ wpc[w] = "get" /\ taken < fed
  /\ Go(w, "stamp")
  /\ item' = [item EXCEPT ![w] = taken]
  /\ taken' = taken + 1
  /\ UNCHANGED <<tokenVars, metricsVars, mpc, fed, stamped, seqs, message,
                 quiet>>

\* One turn of the loop of stamp().
Stamp(w) ==
  /\ wpc[w] = "stamp" /\ stamped[w] < Batch
  /\ LET t == TemplateFor(w, VariantOf(item[w])) IN
       seqs' = [seqs EXCEPT ![t][stamped[w]] = item[w] * Batch + stamped[w]]
  /\ stamped' = [stamped EXCEPT ![w] = @ + 1]
  /\ UNCHANGED <<tokenVars, metricsVars, mpc, fed, taken, item, message, quiet,
                 wpc>>

\* export(): bearer() begins.
AskToken(w) ==
  /\ wpc[w] = "stamp" /\ stamped[w] = Batch
  /\ Go(w, "token")
  /\ ReadClock(w)
  /\ UNCHANGED <<metricsVars, mpc, batchVars>>

\* bearer() returns and stub.Export() serialises the template.
Call(w) ==
  /\ wpc[w] = "token"
  /\ Go(w, "flight")
  /\ Bearer(w)
  /\ stamped' = [stamped EXCEPT ![w] = 0]
  /\ message' = [message EXCEPT
                   ![w] = seqs[TemplateFor(w, VariantOf(item[w]))]]
  /\ UNCHANGED <<metricsVars, mpc, fed, taken, item, seqs, quiet>>

\* How a call ends: the collector refuses an expired token and otherwise
\* accepts, is saturated or fails, or the call fails on its way.  A polite
\* worker then sits out the delay the collector asked for, if it asked.
Outcome(w) ==
  \/ ~Refused(w) /\ RecordAccepted(Batch) /\ Go(w, "get")
  \/ /\ ~Refused(w) /\ RecordRejected(Batch)
     /\ Go(w, "get") \/ (Polite /\ Go(w, "pause"))
  \/ RecordFailed /\ Go(w, "get")

\* The export returns and the worker books the outcome.  What it does between
\* the two is its own, so that they are one step.
Return(w) ==
  /\ wpc[w] = "flight"
  /\ Outcome(w)
  /\ Forget(w)
  /\ message' = [message EXCEPT ![w] = None]
  /\ item' = [item EXCEPT ![w] = None]
  /\ UNCHANGED <<mpc, fed, taken, stamped, seqs, quiet>>

\* export() raises something that is not an RpcError, as on a closed channel:
\* the worker logs it and books nothing.
Raise(w) ==
  /\ wpc[w] = "flight"
  /\ Go(w, "get")
  /\ Forget(w)
  /\ message' = [message EXCEPT ![w] = None]
  /\ item' = [item EXCEPT ![w] = None]
  /\ UNCHANGED <<metricsVars, mpc, fed, taken, stamped, seqs, quiet>>

Resume(w) ==
  /\ wpc[w] = "pause"
  /\ Go(w, "get")
  /\ UNCHANGED <<tokenVars, metricsVars, mpc, batchVars>>

\* It takes a sentinel, behind the last batch.
End(w) ==
  /\ wpc[w] = "get" /\ taken = fed /\ mpc \notin {"pace", "offer"}
  /\ Go(w, "ended")
  /\ UNCHANGED <<tokenVars, metricsVars, mpc, batchVars>>

Worker(w) ==
  \/ Take(w) \/ Stamp(w) \/ AskToken(w) \/ Call(w) \/ Return(w) \/ Raise(w)
  \/ Resume(w) \/ End(w)

-----------------------------------------------------------------------------

\* Bound: the clock of the model stands still while the last row is written,
\* which takes a moment and looks at no token.
ClockRuns == mpc \in {"pace", "offer", "joinWorkers"}

TimePasses == ClockRuns /\ Tick /\ UNCHANGED <<metricsVars, mpc, batchVars, wpc>>

Reporting == (Sampler \/ Finish) /\ UNCHANGED <<tokenVars, batchVars, wpc>>

\* The totals of the manifest have been read: the process is about to end, and
\* its workers and its sampler, daemon threads, with it.
Over == mpc \in {"refused", "exit"}

Next ==
  /\ ~Over
  /\ \/ Feed \/ Offer \/ StopEngine \/ StopSampling
     \/ \E w \in Callers : Worker(w)
     \/ Reporting
     \/ TimePasses
  /\ UNCHANGED customers

Spec == Init /\ [][Next]_vars

-----------------------------------------------------------------------------
(* Properties                                                              *)

TypeOK ==
  /\ token \in Tokens
  /\ readAge \in [Callers -> 0..MaxStall \cup {None}]
  /\ held \in [Callers -> Tokens \cup {None}]
  /\ totals \in [Counters -> Nat] /\ window \in [Counters -> Nat]
  /\ spc \in {"loop", "wait", "jsonl", "csv", "ended"}
  /\ mpc \in {"refused", "pace", "offer", "joinWorkers", "join", "swap", "jsonl",
              "csv", "closeJsonl", "closeCsv", "snapshot", "exit"}
  /\ fed \in 0..MaxBatches /\ taken \in 0..fed
  /\ wpc \in [Callers -> {"get", "stamp", "token", "flight", "pause",
                       "ended"}]
  /\ item \in [Callers -> Nat \cup {None}]
  /\ stamped \in [Callers -> 0..Batch]
  /\ seqs \in [Templates -> [Records -> Nat]]

\* The message a worker has in flight carries exactly the sequence numbers of
\* its batch, whatever the other workers stamp meanwhile: no two threads ever
\* write to one template (payload.py:101-105, loadgen.py:82-87).
MessageIsItsBatch ==
  \A w \in Callers : message[w] # None => message[w] = SeqsOf(item[w])

\* A run starts exactly when the pool has a template for every customer, so
\* that no run "quietly produces 32 partitions while reporting it was testing
\* 100" (payload_ai_txn.py:194-197).
RunsWhenCovered == mpc # "refused" <=> CustomersCovered = 1..customers

\* When the workers and the sampler ended in time, nothing is missing from
\* the reports: the manifest's totals, the sum of the rows of both files and
\* their last cumulative columns agree (main.py:256-262, metrics.py:182-188).
ReportsAgree ==
  mpc = "exit" /\ joined /\ quiet =>
    \A f \in Files : files[f].rows = snapshot /\ files[f].cum = snapshot

=============================================================================
