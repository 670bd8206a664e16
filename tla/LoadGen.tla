------------------------------ MODULE LoadGen ------------------------------
(***************************************************************************)
(* The load generator: the main thread of generator/src/main.py driving    *)
(* the LoadGenerator of generator/src/loadgen.py, its pool of worker       *)
(* threads, the bounded queue between them, and the shared counters of     *)
(* generator/src/metrics.py.                                               *)
(*                                                                         *)
(* The main thread is also the pacer: it numbers a batch of records, puts  *)
(* it on the queue, counts it as offered, and at the end of each step      *)
(* waits for the workers to drain.  A worker takes a batch, exports it to  *)
(* the collector and books the outcome.  At the end main() stops the       *)
(* workers and writes the manifest that the correctness check reads.       *)
(*                                                                         *)
(* One action per critical section.  A batch is named by its first         *)
(* sequence number, so the rows of batch s are s .. s+BatchSize-1.  Time   *)
(* is abstracted to the events it causes: a step's deadline passes, a      *)
(* timed wait gives up.                                                    *)
(***************************************************************************)
EXTENDS Integers, Sequences, FiniteSets, Functions

CONSTANTS
  Workers,            \* worker threads of the pool
  None,               \* Python's None: no item, no step, no exit code yet
  NumSteps,           \* len(cfg.steps)
  BatchSize,          \* workload.batch_size, records per batch
  MaxInflight,        \* workload.max_inflight, the capacity of the queue
  AbortLimit,         \* workload.abort_on_consecutive_failures, 0 disables
  Codes,              \* the gRPC status codes an export may end with
  AcceptedRatioBelow, \* stop_when.accepted_ratio_below in percent, 0 disables
  ErrorRateAbove,     \* stop_when.error_rate_above in percent, 100 disables
  LatencyRule,        \* is stop_when.latency_p99_ms_above configured?
  RefuseCodes,        \* exit codes with which main() gives up before any load
  MaxRows             \* bound: rate times duration of the whole plan, in rows

\* config.py refuses a pool larger than max_inflight and a batch size below 1.
ASSUME PoolAssumption ==
  /\ IsFiniteSet(Workers) /\ Workers # {}
  /\ MaxInflight \in Nat /\ Cardinality(Workers) <= MaxInflight

ASSUME PlanAssumption ==
  /\ BatchSize \in Nat \ {0} /\ NumSteps \in Nat /\ AbortLimit \in Nat
  /\ MaxRows \in Nat /\ AcceptedRatioBelow \in Nat /\ ErrorRateAbove \in Nat
  /\ LatencyRule \in BOOLEAN /\ RefuseCodes \subseteq Nat

ASSUME CodeAssumption ==
  /\ {"OK", "RESOURCE_EXHAUSTED"} \subseteq Codes
  /\ "raised" \notin Codes
  /\ None \notin Int /\ None \notin Codes

VARIABLES
  pc,          \* where the main thread is
  stepNo,      \* how many steps of the plan have been entered
  step,        \* self._step: the step that accounting goes to, or None
  results,     \* the StepResult of each step
  deadline,    \* has the current step's deadline passed?
  stop,        \* the event self._stop
  interrupted, \* interrupted["value"], set by the signal handler
  abort,       \* is self._abort_reason set?
  nextSeq,     \* self._next_seq
  pending,     \* the batch the pacer has numbered and not yet put, or None
  queue,       \* self._queue: batches, and the None sentinels of stop()
  posted,      \* sentinels stop() has tried to put
  warned,      \* steps whose drain logged its timeout warning
  wpc,         \* where each worker is
  item,        \* the batch each worker holds, or None
  code,        \* the status code each worker's last export returned, or None
  inflight,    \* metrics._inflight
  totals,      \* metrics.totals
  consec,      \* self._consecutive_failures
  closed,      \* has the exporter been closed?
  manifest,    \* the manifest.json written, or None
  exitCode,    \* the process's exit code, or None while it runs
  hung,        \* history: workers alive when stop() had given up joining them
  outcome      \* history: the batches whose export ended in each way

vars == <<pc, stepNo, step, results, deadline, stop, interrupted, abort,
          nextSeq, pending, queue, posted, warned, wpc, item, code, inflight,
          totals, consec, closed, manifest, exitCode, hung,
          outcome>>

planVars   == <<stepNo, step, results, deadline, warned>>
flagVars   == <<stop, interrupted, abort>>
feedVars   == <<nextSeq, pending, queue, posted>>
workerVars == <<wpc, item, code, inflight, outcome, consec>>
endVars    == <<closed, manifest, exitCode, hung>>

Steps    == 1..NumSteps
Outcomes == Codes \cup {"raised"}
InStep   == {"pace", "alloc", "put", "putting", "offer", "offerStep"}

\* A StepResult before any load; index, rate and wall-clock times are left out.
NewResult(seq) ==
  [offered |-> 0, accepted |-> 0, rejected |-> 0, requests |-> 0,
   failures |-> 0, seq_start |-> seq, seq_end |-> 0]

Init ==
  /\ pc = "boot" /\ stepNo = 0 /\ step = None
  /\ results = [i \in Steps |-> NewResult(0)]
  /\ deadline = FALSE /\ stop = FALSE /\ interrupted = FALSE /\ abort = FALSE
  /\ nextSeq = 0 /\ pending = None /\ queue = <<>> /\ posted = 0
  /\ warned = {}
  /\ wpc = [w \in Workers |-> "unborn"]
  /\ item = [w \in Workers |-> None] /\ code = [w \in Workers |-> None]
  /\ inflight = 0 /\ consec = 0
  /\ totals = [offered |-> 0, accepted |-> 0, rejected |-> 0,
               sent |-> 0, failed |-> 0]
  /\ closed = FALSE /\ manifest = None /\ exitCode = None /\ hung = {}
  /\ outcome = [c \in Outcomes |-> {}]

-----------------------------------------------------------------------------
(* main(): start-up, and the loop over the steps                           *)

\* Steps of the main thread that only move its control.
Goto(l) ==
  /\ pc' = l
  /\ UNCHANGED <<planVars, flagVars, feedVars, workerVars, totals, endVars>>

\* A configuration, a channel or a payload that main() refuses: it returns
\* before the engine exists, and no manifest is written.
RefuseToStart ==
  /\ pc = "boot"
  /\ \E rc \in RefuseCodes : exitCode' = rc
  /\ pc' = "exit"
  /\ UNCHANGED <<planVars, flagVars, feedVars, workerVars, totals, closed,
                 manifest, hung>>

\* engine.start()
StartEngine ==
  /\ pc = "boot"
  /\ pc' = "steps"
  /\ wpc' = [w \in Workers |-> "get"]
  /\ UNCHANGED <<planVars, flagVars, feedVars, item, code, inflight, outcome,
                 consec, totals, endVars>>

\* The handler of SIGINT and SIGTERM; it runs on the main thread.
Signal ==
  /\ pc \notin {"boot", "exit"}
  /\ ~interrupted
  /\ interrupted' = TRUE /\ stop' = TRUE
  /\ UNCHANGED <<pc, planVars, abort, feedVars, workerVars, totals, endVars>>

\* The loop over cfg.steps looks at `interrupted` only, never at abort_reason.
\* run_step() begins: the step's seq_start is read, self._step installed.
BeginStep ==
  /\ pc = "steps" /\ ~interrupted /\ stepNo < NumSteps
  /\ pc' = "pace"
  /\ stepNo' = stepNo + 1
  /\ step' = stepNo + 1
  /\ results' = [results EXCEPT ![stepNo + 1] = NewResult(nextSeq)]
  /\ deadline' = FALSE
  /\ UNCHANGED <<warned, flagVars, feedVars, workerVars, totals, endVars>>

LeaveSteps ==
  /\ pc = "steps" /\ (interrupted \/ stepNo = NumSteps)
  /\ Goto("stop")

-----------------------------------------------------------------------------
(* run_step(): the pacer                                                   *)

\* Wall-clock time reaches the deadline of the current step.
DeadlinePasses ==
  /\ pc \in InStep /\ ~deadline
  /\ deadline' = TRUE
  /\ UNCHANGED <<pc, stepNo, step, results, warned, flagVars, feedVars,
                 workerVars, totals, endVars>>

PaceCheck ==
  /\ pc = "pace"
  /\ Goto(IF stop \/ deadline THEN "drain" ELSE "alloc")

\* The interruptible wait for the next submission: it was stopped, or the
\* submission is still more than a quarter of a second away.
PaceWait ==
  /\ pc = "alloc"
  /\ \/ stop /\ Goto("drain")
     \/ Goto("pace")

Allocate ==
  /\ pc = "alloc"
  /\ nextSeq + BatchSize <= MaxRows
  /\ pc' = "put"
  /\ pending' = nextSeq
  /\ nextSeq' = nextSeq + BatchSize
  /\ UNCHANGED <<planVars, flagVars, queue, posted, workerVars, totals,
                 endVars>>

PutCheck_IgnoresDeadline ==    \* mutant: the put loop only looks at stop
  /\ pc = "put" /\ ~stop
  /\ Goto("putting")

PutCheck ==
  /\ pc = "put" /\ ~stop /\ ~deadline
  /\ Goto("putting")
PutWhen(room) ==
  /\ pc = "putting" /\ room
  /\ pc' = "offer"
  /\ queue' = Append(queue, pending)
  /\ pending' = None
  /\ UNCHANGED <<planVars, flagVars, nextSeq, posted, workerVars, totals,
                 endVars>>

Put_Unbounded == PutWhen(TRUE)    \* mutant: a queue without maxsize

\* put(item, timeout=0.1): what stop or the deadline do meanwhile is not seen.
Put == PutWhen(Len(queue) < MaxInflight)

PutFull ==
  /\ pc = "putting" /\ Len(queue) = MaxInflight
  /\ Goto("put")

GiveBackTo(seq) ==
  /\ pc = "put" /\ (stop \/ deadline)
  /\ pc' = "drain"
  /\ nextSeq' = seq
  /\ pending' = None
  /\ UNCHANGED <<planVars, flagVars, queue, posted, workerVars, totals,
                 endVars>>

GiveBack_Nothing == GiveBackTo(nextSeq)    \* mutant: the numbers are kept
GiveBack_All     == GiveBackTo(results[stepNo].seq_start)    \* mutant

\* Never enqueued, so never offered: the sequence numbers are given back.
GiveBack == GiveBackTo(IF nextSeq = pending + BatchSize THEN pending
                       ELSE nextSeq)

\* metrics.record_offered(), under the lock of the metrics.
RecordOffered ==
  /\ pc = "offer"
  /\ pc' = "offerStep"
  /\ totals' = [totals EXCEPT !.offered = @ + BatchSize]
  /\ UNCHANGED <<planVars, flagVars, feedVars, workerVars, endVars>>

\* result.offered, under _step_lock, then the look at abort_reason.
StepOffered ==
  /\ pc = "offerStep"
  /\ pc' = IF abort THEN "drain" ELSE "pace"
  /\ results' = [results EXCEPT ![stepNo].offered = @ + BatchSize]
  /\ UNCHANGED <<stepNo, step, deadline, warned, flagVars, feedVars,
                 workerVars, totals, endVars>>

\* _drain_inflight() returns: the queue is empty and so is the in-flight
\* gauge.  The pacer is the only producer, so an empty queue stays empty
\* between the two reads.
DrainDone ==
  /\ pc = "drain" /\ queue = <<>> /\ inflight = 0
  /\ Goto("endStep")

\* Its deadline passes first; it logs a warning.  The loop tests the clock
\* before the gauge, so it may give up on a step that drained while it slept.
DrainTimeout ==
  /\ pc = "drain"
  /\ pc' = "endStep"
  /\ warned' = warned \cup {stepNo}
  /\ UNCHANGED <<stepNo, step, results, deadline, flagVars, feedVars,
                 workerVars, totals, endVars>>

SeqEnd_Next(first, next) == IF next > first THEN next ELSE first    \* mutant

SeqEnd(first, next) == IF next - 1 > first THEN next - 1 ELSE first

EndStepTo(s) ==
  /\ pc = "endStep"
  /\ pc' = "judge"
  /\ results' = [results EXCEPT ![stepNo].seq_end =
                           SeqEnd(results[stepNo].seq_start, nextSeq)]
  /\ step' = s
  /\ UNCHANGED <<stepNo, deadline, warned, flagVars, feedVars, workerVars,
                 totals, endVars>>

EndStep_Open == EndStepTo(step)    \* mutant: self._step is not reset

EndStep == EndStepTo(None)

\* _should_stop(): the rules on the step's own counters; the rule on the
\* run's p99 latency may hold of any run.
RuleStops(r) ==
  \/ r.offered # 0 /\ 100 * r.accepted < AcceptedRatioBelow * r.offered
  \/ r.requests # 0 /\ 100 * r.failures > ErrorRateAbove * r.requests

Judge ==
  /\ pc = "judge"
  /\ \/ (RuleStops(results[stepNo]) \/ LatencyRule) /\ Goto("stop")
     \/ ~RuleStops(results[stepNo]) /\ Goto("steps")

-----------------------------------------------------------------------------
(* main(): the finally block, the manifest and the exit code               *)

StopEngine ==
  /\ pc = "stop"
  /\ pc' = "sentinels"
  /\ stop' = TRUE
  /\ UNCHANGED <<planVars, interrupted, abort, feedVars, workerVars, totals,
                 endVars>>

PutSentinelAs(q, room) ==
  /\ pc = "sentinels" /\ posted < Cardinality(Workers)
  /\ posted' = posted + 1
  /\ queue' = IF Len(queue) < room THEN q ELSE queue
  /\ UNCHANGED <<pc, planVars, flagVars, nextSeq, pending, workerVars, totals,
                 endVars>>

\* Mutants: sentinels overtake the queued batches; off by one at the capacity.
PutSentinel_Front    == PutSentinelAs(<<None>> \o queue, MaxInflight)
PutSentinel_OneShort == PutSentinelAs(Append(queue, None), MaxInflight - 1)

\* put_nowait(None), once per worker; queue.Full is swallowed.
PutSentinel == PutSentinelAs(Append(queue, None), MaxInflight)

\* join(timeout) of each worker returns: the worker is gone or it gave up.
Join ==
  /\ pc = "sentinels" /\ posted = Cardinality(Workers)
  /\ pc' = "close"
  /\ hung' = {w \in Workers : wpc[w] # "gone"}
  /\ UNCHANGED <<planVars, flagVars, feedVars, workerVars, totals, closed,
                 manifest, exitCode>>

\* metrics.stop_sampler(); exporter.close()
CloseExporter ==
  /\ pc = "close"
  /\ pc' = "manifest"
  /\ closed' = TRUE
  /\ UNCHANGED <<planVars, flagVars, feedVars, workerVars, totals, manifest,
                 exitCode, hung>>

\* metrics.snapshot(), and manifest.json built from it and from the first
\* and the last StepResult.
WriteManifest ==
  /\ pc = "manifest"
  /\ pc' = "return"
  /\ manifest' =
       [seq_min |-> IF stepNo > 0 THEN results[1].seq_start ELSE 0,
        seq_max |-> IF stepNo > 0 THEN results[stepNo].seq_end ELSE -1,
        totals  |-> totals]
  /\ UNCHANGED <<planVars, flagVars, feedVars, workerVars, totals, closed,
                 exitCode, hung>>

\* The process ends and takes the daemon threads with it.
Exit ==
  /\ pc = "return"
  /\ pc' = "exit"
  /\ exitCode' = IF abort THEN 5 ELSE 0
  /\ UNCHANGED <<planVars, flagVars, feedVars, workerVars, totals, closed,
                 manifest, hung>>

Main ==
  \/ RefuseToStart \/ StartEngine \/ BeginStep \/ LeaveSteps
  \/ PaceCheck \/ PaceWait \/ Allocate \/ PutCheck \/ Put \/ PutFull
  \/ GiveBack \/ RecordOffered \/ StepOffered
  \/ DrainDone \/ DrainTimeout \/ EndStep \/ Judge
  \/ StopEngine \/ PutSentinel \/ Join \/ CloseExporter \/ WriteManifest \/ Exit


-----------------------------------------------------------------------------
(* _worker_loop() and _send(): the workers                                 *)

Get_Peek(w) ==    \* mutant: the item stays on the queue
  /\ wpc[w] = "get" /\ queue # <<>>
  /\ item' = [item EXCEPT ![w] = Head(queue)]
  /\ wpc' = [wpc EXCEPT ![w] = IF Head(queue) = None THEN "gone" ELSE "send"]
  /\ UNCHANGED <<pc, planVars, flagVars, feedVars, code, inflight, outcome,
                 consec, totals, endVars>>

Get(w) ==
  /\ wpc[w] = "get" /\ queue # <<>>
  /\ queue' = Tail(queue)
  /\ item' = [item EXCEPT ![w] = Head(queue)]
  /\ wpc' = [wpc EXCEPT ![w] = IF Head(queue) = None THEN "gone" ELSE "send"]
  /\ UNCHANGED <<pc, planVars, flagVars, nextSeq, pending, posted, code,
                 inflight, outcome, consec, totals, endVars>>

\* The template is stamped, and only then record_inflight(+1) called.
Send(w) ==
  /\ wpc[w] = "send"
  /\ wpc' = [wpc EXCEPT ![w] = "rpc"]
  /\ inflight' = inflight + 1
  /\ UNCHANGED <<pc, planVars, flagVars, feedVars, item, code, outcome, consec,
                 totals, endVars>>

\* export() ends with status c, or raises because the channel is closed (the
\* worker loop logs that and takes the next item); then record_inflight(-1).
Export(w, c) ==
  /\ wpc[w] = "rpc"
  /\ c = "raised" => closed
  /\ inflight' = inflight - 1
  /\ outcome' = [outcome EXCEPT ![c] = @ \cup {item[w]}]
  /\ IF c = "raised"
     THEN /\ wpc' = [wpc EXCEPT ![w] = "get"]
          /\ item' = [item EXCEPT ![w] = None]
          /\ UNCHANGED code
     ELSE /\ wpc' = [wpc EXCEPT ![w] = IF c = "OK" THEN "success" ELSE "failure"]
          /\ code' = [code EXCEPT ![w] = c]
          /\ UNCHANGED item
  /\ UNCHANGED <<pc, planVars, flagVars, feedVars, consec, totals, endVars>>

\* Worker w moves from one of its own bookkeeping sections to the next.
Move(w, from, to) ==
  /\ wpc[w] = from
  /\ wpc' = [wpc EXCEPT ![w] = to]
  /\ IF to = "get"
     THEN /\ item' = [item EXCEPT ![w] = None]
          /\ code' = [code EXCEPT ![w] = None]
     ELSE UNCHANGED <<item, code>>
  /\ UNCHANGED <<pc, stepNo, step, deadline, warned, interrupted, feedVars,
                 inflight, outcome, endVars>>

BookSuccess(w, records) ==
  /\ Move(w, "success", "reset")
  /\ totals' = [totals EXCEPT !.sent = @ + 1, !.accepted = @ + records]
  /\ UNCHANGED <<results, stop, abort, consec>>

RecordSuccess_PerRequest(w) == BookSuccess(w, 1)    \* mutant

\* metrics.record_success()
RecordSuccess(w) == BookSuccess(w, BatchSize)

ResetConsecutive(w) ==
  /\ Move(w, "reset", "ackStep")
  /\ consec' = 0
  /\ UNCHANGED <<results, stop, abort, totals>>

\* The step current at this moment gets the batch; there may be none.
StepAccepted(w) ==
  /\ Move(w, "ackStep", "get")
  /\ results' = IF step = None THEN results
                ELSE [results EXCEPT ![step].accepted = @ + BatchSize,
                                     ![step].requests = @ + 1]
  /\ UNCHANGED <<stop, abort, consec, totals>>

Rejected(w) == code[w] = "RESOURCE_EXHAUSTED"

BookFailure(w, requests, rejects) ==
  /\ Move(w, "failure", "failStep")
  /\ totals' = [totals EXCEPT !.sent = @ + requests, !.failed = @ + requests,
                  !.rejected = IF rejects THEN @ + BatchSize ELSE @]
  /\ UNCHANGED <<results, stop, abort, consec>>

\* Mutant: a rejection is not a request.
RecordFailure_NotSent(w) == BookFailure(w, IF Rejected(w) THEN 0 ELSE 1,
                                        Rejected(w))

\* metrics.record_failure()
RecordFailure(w) == BookFailure(w, 1, Rejected(w))

StepFailedTo(w, next) ==
  /\ Move(w, "failStep", next)
  /\ results' = IF step = None THEN results
                ELSE [results EXCEPT ![step].requests = @ + 1,
                        ![step].failures = @ + 1,
                        ![step].rejected = IF Rejected(w) THEN @ + BatchSize
                                           ELSE @]
  /\ UNCHANGED <<stop, abort, consec, totals>>

StepFailed_Falls(w) == StepFailedTo(w, "count")    \* mutant: no early return

\* A rejection ends here, after a pause in polite mode; any other failure
\* goes on to be counted.
StepFailed(w) == StepFailedTo(w, IF Rejected(w) THEN "get" ELSE "count")

LimitReached(n) == AbortLimit # 0 /\ n >= AbortLimit

CountFailure(w) ==
  /\ consec' = consec + 1
  /\ IF LimitReached(consec + 1) /\ ~abort
     THEN Move(w, "count", "halt") /\ abort' = TRUE
     ELSE Move(w, "count", "get") /\ UNCHANGED abort
  /\ UNCHANGED <<results, stop, totals>>

Halt(w) ==
  /\ Move(w, "halt", "get")
  /\ stop' = TRUE
  /\ UNCHANGED <<results, abort, consec, totals>>

Worker(w) ==
  \/ Get(w) \/ Send(w) \/ \E c \in Outcomes : Export(w, c)
  \/ RecordSuccess(w) \/ ResetConsecutive(w) \/ StepAccepted(w)
  \/ RecordFailure(w) \/ StepFailed(w) \/ CountFailure(w) \/ Halt(w)

-----------------------------------------------------------------------------
Terminated == pc = "exit" /\ UNCHANGED vars

Next ==
  \/ Main \/ Signal \/ DeadlinePasses \/ Terminated
  \/ pc # "exit" /\ \E w \in Workers : Worker(w)

\* The main thread is scheduled and clocks advance.  Nothing is assumed of
\* the workers: an export may hang.
Fairness == WF_vars(Main) /\ WF_vars(DeadlinePasses)

Spec == Init /\ [][Next]_vars /\ Fairness

-----------------------------------------------------------------------------
(* Where the numbered batches are                                          *)

Queued  == {queue[i] : i \in DOMAIN queue} \ {None}
Holding == {w \in Workers : wpc[w] \in {"send", "rpc"}}
Held    == {item[w] : w \in Holding}
Settled == UNION {outcome[c] : c \in Outcomes}
Pending == {pending} \ {None}

Numbered == Queued \cup Held \cup Settled \cup Pending

Rows(s)     == s .. s + BatchSize - 1
RowsOf(S)   == UNION {Rows(s) : s \in S}
Count(c)    == BatchSize * Cardinality(outcome[c])
Sentinels   == {i \in DOMAIN queue : queue[i] = None}
Gone        == {w \in Workers : wpc[w] = "gone"}

\* Workers that have an outcome in hand the totals do not show yet.
Unbooked    == {w \in Workers : wpc[w] \in {"success", "failure"}}

MainLabels ==
  InStep \cup {"boot", "steps", "drain", "endStep", "judge", "stop",
               "sentinels", "close", "manifest", "return", "exit"}

WorkerLabels ==
  {"unborn", "get", "send", "rpc", "success", "reset", "ackStep", "failure",
   "failStep", "count", "halt", "gone"}

TotalsType ==
  [offered : Nat, accepted : Nat, rejected : Nat, sent : Nat, failed : Nat]

ResultType ==
  [offered : Nat, accepted : Nat, rejected : Nat, requests : Nat,
   failures : Nat, seq_start : Nat, seq_end : Nat]

ManifestType == [seq_min : Int, seq_max : Int, totals : TotalsType]
SummaryType  == [offered : Nat, accepted : Nat, rejected : Nat]

\* Python's None is no manifest and no copy of its counters.
ASSUME NoneAssumption == None \notin ManifestType \cup SummaryType

-----------------------------------------------------------------------------
(* Properties                                                              *)

TypeMain ==
  /\ pc \in MainLabels /\ stepNo \in 0..NumSteps /\ step \in Steps \cup {None}
  /\ results \in [Steps -> ResultType] /\ warned \subseteq Steps
  /\ deadline \in BOOLEAN /\ stop \in BOOLEAN /\ interrupted \in BOOLEAN
  /\ abort \in BOOLEAN

TypeFeed ==
  /\ nextSeq \in Nat /\ pending \in Nat \cup {None}
  /\ queue \in Seq(Nat \cup {None}) /\ Len(queue) <= MaxInflight
  /\ posted \in 0..Cardinality(Workers)

TypeWorkers ==
  /\ wpc \in [Workers -> WorkerLabels]
  /\ item \in [Workers -> Nat \cup {None}]
  /\ code \in [Workers -> Codes \cup {None}]
  /\ outcome \in [Outcomes -> SUBSET Nat]
  /\ inflight \in Int /\ consec \in Nat

TypeBooks ==
  /\ totals \in TotalsType /\ closed \in BOOLEAN /\ hung \subseteq Workers
  /\ manifest \in ManifestType \cup {None} /\ exitCode \in Nat \cup {None}

\* Every variable keeps its type, and the queue its capacity.
TypeOK == TypeMain /\ TypeFeed /\ TypeWorkers /\ TypeBooks

QueuedOnce ==
  \A i, j \in DOMAIN queue : queue[i] = queue[j] /\ queue[i] # None => i = j

HeldOnce == \A v, w \in Holding : item[v] = item[w] => v = w

SettledOnce ==
  \A b, c \in Outcomes : b # c => outcome[b] \cap outcome[c] = {}

Apart ==
  /\ Queued \cap (Held \cup Settled \cup Pending) = {}
  /\ Held \cap (Settled \cup Pending) = {}
  /\ Settled \cap Pending = {}

Spaced == \A s, t \in Numbered : s < t => s + BatchSize <= t

\* No sequence number is ever in two places: a batch being put, queued, held
\* by a worker or settled is in exactly one of these, is held by one worker
\* and queued once, has one outcome, and shares no row with another batch.
EachRowOnce == QueuedOnce /\ HeldOnce /\ SettledOnce /\ Apart /\ Spaced

\* The sequence numbers below _next_seq are exactly the rows of the batches
\* that were numbered: giving a batch back leaves no hole and no overlap, so
\* the checker may reason about the range as a whole.
NoHoles == RowsOf(Numbered) = 0 .. nextSeq - 1

\* When stop() saw every worker end, the manifest is exact: every offered
\* batch has its outcome and is counted in it.
ManifestExactOnceJoined ==
  manifest # None /\ hung = {} =>
    /\ Queued \cup Held = {}
    /\ manifest.totals.accepted = Count("OK")
    /\ manifest.totals.rejected = Count("RESOURCE_EXHAUSTED")
    /\ outcome["raised"] = {}

\* The manifest's range, from which the check derives the gaps it must find
\* explained (validate_correctness.py:176), leaves no offered row out.  It is
\* exact when the last step offered something; after a last step that was
\* stopped before its first batch it may hold one number too many.
RangeCoversOffers ==
  manifest # None =>
    LET claimed == manifest.seq_min .. manifest.seq_max
    IN /\ 0 .. nextSeq - 1 \subseteq claimed /\ claimed \subseteq 0 .. nextSeq
       /\ stepNo > 0 /\ results[stepNo].offered > 0 => claimed = 0 .. nextSeq - 1

\* Step accounting never runs ahead of the run's totals: every ack a step
\* shows was booked in the totals first, even when late acks cross a step
\* boundary.
StepsWithinTotals ==
  SumFunction([i \in Steps |-> results[i].accepted]) <= totals.accepted

\* Every batch that was counted in the totals has its one outcome: requests
\* sent are the exports that ended, minus those whose worker has not booked
\* them yet.
BooksBalance ==
  totals.sent + Cardinality(Unbooked) =
    Cardinality(Settled) - Cardinality(outcome["raised"])

\* A run is aborted only by failures that are not rejections: at least
\* AbortLimit exports ended with another status.  Rejection "is a
\* measurement", it never ends a run.
AbortJustified ==
  abort => Cardinality(UNION {outcome[c] : c \in
             Codes \ {"OK", "RESOURCE_EXHAUSTED"}}) >= AbortLimit

\* If the last drain did not time out, every worker has its sentinel: none
\* was dropped on a full queue, and no worker is left blocked in get().
NoSentinelLost ==
  posted = Cardinality(Workers) /\ stepNo \notin warned =>
    Cardinality(Sentinels) + Cardinality(Gone) = Cardinality(Workers)

\* The result of a finished step is final: a late ack or failure is never
\* added to a step that main() has already judged and reported.
FinishedStepIsFinal ==
  [][\A i \in Steps :
       (i < stepNo \/ (i = stepNo /\ pc \notin InStep \cup {"drain", "endStep"}))
         => results'[i] = results[i]]_vars

\* The generator implements RunLedger.  A batch is outstanding from put() to
\* the end of its export; the ledger's totals are three of metrics.totals.
Summary(t) == [offered |-> t.offered, accepted |-> t.accepted, rejected |-> t.rejected]

Ledger == INSTANCE RunLedger WITH
  Batches     <- 0 .. MaxRows,
  outstanding <- Queued \cup Held,
  totals      <- Summary(totals),
  manifest    <- IF manifest = None THEN None ELSE Summary(manifest.totals),
  over        <- pc = "exit"

\* Under every interleaving, time-out, signal and hung export, the generator
\* does nothing the ledger does not allow: each batch settles once, no counter
\* overtakes what happened, the manifest is a faithful copy, and nothing is
\* offered after it.
KeepsLedger == Ledger!Spec

\* Every run ends, and "stopping must still produce a complete manifest": a
\* run that was stopped, or has numbered a batch, ends with one, even when
\* workers hang for ever and the queue stays full.
RunEnds == <>(pc = "exit" /\ (stop \/ nextSeq > 0 => manifest # None))

-----------------------------------------------------------------------------
(* What the repository says of the program and the code does not keep      *)

\* _drain_inflight(): "Let outstanding RPCs complete so a step's accepted
\* count is real."  A step whose drain returned without the timeout warning
\* has no batch left with a worker, and shows every ack of its own batches.
DrainedStepIsReal ==
  pc = "judge" /\ stepNo \notin warned =>
    /\ Held = {}
    /\ results[stepNo].accepted = BatchSize *
         Cardinality({s \in outcome["OK"] : s >= results[stepNo].seq_start})

=============================================================================
