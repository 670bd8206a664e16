# TLA+ models of the analytics load-test harness

The repository drives synthetic OTLP log traffic through a collector into a
DuckLake table, watches the pipeline while it runs, decides afterwards whether
the run lost or duplicated anything, and reports the result. These modules model
the parts whose correctness depends on interleavings, failures and accounting;
TLC checks them on small instances and TLAPS proves most of the same properties
for every value of the constants.

## Inventory of the system

| part | state it keeps | operations | hard behaviour | modelled in |
|---|---|---|---|---|
| load engine `generator/src/loadgen.py` | sequence counter, bounded queue, worker threads, current step, consecutive failures, stop event | `start`, `run_step`, `_drain_inflight`, `_worker_loop`, `_send`, `_record_failure`, `stop` | one pacer and N workers on shared state under four different locks (and one counter under none); timeouts on put, drain and join; hung exports | `LoadGen` |
| driver `generator/src/main.py` | interrupted flag, step results, manifest | refusals, signal handler, loop over steps, stop rules, manifest, exit code | a signal at any point; everything that must still be written | `LoadGen` |
| metrics `generator/src/metrics.py` | totals, in-flight gauge, sample window, two files | `record_*`, `snapshot`, sampler, `stop_sampler`, `percentile` | window swap against recording threads; the last row after a join that gave up | `Metrics` |
| OTLP client `generator/src/otlp_client.py` | token cache, channels | `bearer`, `export`, `close` | refresh decided with a clock read before the lock; calls on a closed channel | `TokenSource`, `SendPath`, `LoadGen` |
| payloads `generator/src/payload*.py` | templates per worker and variant | `template_for`, `stamp`, pool construction, `coverage_warning` | templates are mutated in place | `SendPath` |
| configuration `generator/src/config.py` | none after loading | `load`, `_build_steps` | bounds the engine relies on | `LoadGen` (assumptions) |
| correctness check `bench/validate_correctness.py` | result being filled in, baseline | queries, checks, verdict | a sequence of statements without a common snapshot, on a table that is still written | `Reconcile` |
| host agent `bench/host_agent.py` | previous counters, pid, restarts, snapshot file | `sample`, `_resolve_pid`, `_refresh_deps`, `write_atomic` | three reads of `/proc` per sample around restarts and reused pids; the agent itself is killed | `HostAgent` |
| pipeline exporter `monitoring/exporters/pipeline_exporter.py` | gauges, caches | `poll_once`, `scrape_*` | stale snapshots, failed scrapes, cached values, two services reporting one counter | `PipelineExporter` |
| agent and exporter together | the snapshot file, two clocks | | a dead service behind a stale snapshot | `Monitoring` |
| run, collection, engineering report `scripts/run-test.sh`, `bench/report.py`, `bench/publish_report.py` | files of `results/<test-id>/` | levels, collection, validation, report, publication, repairs | conclusions from missing or contradictory files | `Report` |
| customer report and recovery drill `bench/customer_report.py`, `tests/recovery/run.sh` | the runs found on disk; the injector's timestamps | rebuild; kill, probe, recover | rebuilt at any moment, of runs unfinished or checked too early; probes over ssh | `CustomerReport` |
| process lifecycle, watchdogs, collection offsets | pid files, log positions | `start.sh`, `stop.sh`, `cred-watchdog*.sh` | stale pid files, restarts of what was just restarted | - |
| track A, compactor log analysis, dashboards, deployment, preflight, script libraries | files | formatting and remote commands | see *Not modelled* | - |

`main()` is the main thread and calls `run_step()`, so it is also the pacer;
workers share the queue, the step, the metrics and the token with it; the signal
handler runs on it between two of its steps. Generator and correctness check
communicate only through `manifest.json`; the check and the collector through
the table and its watermark. Host agent and exporter communicate only through
`state/health.json`, read over ssh. The reports read what the others left on
disk, at any time and in any state of completion.

What makes them correct:

* engine and driver: every sequence number goes out at most once and the range
  has no holes; the manifest never claims what did not happen, and is exact when
  all workers were joined; a judged step is final; only real failures abort a
  run; a stopped run always ends with a manifest.
* send path: a message carries its own batch; a request is not refused because
  of a token the client could have renewed; every count is reported once.
* check: a PASS without un-acked rows means the acked rows are in the table, each
  once; a clean run passes; what the watermark and the checksums are witnesses of.
* monitoring: `up` has recent evidence; what is dead for good is noticed;
  restarts are real; a failed source is never silently missing.
* reports: what a claim is worth: which samples, levels and checks stand behind
  it, and how far from them it can be.

`PROJECT.json` lists every component, the hazards with the line where each one
bites, and the properties that cover them.

## Modules

| module | models | composes |
|---|---|---|
| `RunLedger` | abstract specification: what the generator promises to the check | |
| `LoadGen` | the generator: main thread, workers, queue, totals, manifest, exit code | implements `RunLedger` |
| `Reconcile` | the correctness check against a collector, a table and a compactor | |
| `TokenSource` | the cached bearer token | |
| `Metrics` | totals, window, sampler thread, `stop_sampler`, `percentile` | |
| `SendPath` | a batch from `queue.get()` to the counters | `TokenSource`, `Metrics`, templates |
| `HostAgent` | the agent, the service it watches and the machine's process table | |
| `PipelineExporter` | one exporter polling all its sources | |
| `Monitoring` | the monitoring path end to end | `HostAgent`, `PipelineExporter` |
| `Report` | a run's levels and files, the engineering report and its publication | |
| `CustomerReport` | the customer's report over several runs, and the recovery drill | |
| `MC*` | values of the constants for TLC | |
| `LoadGenProofs`, `ReconcileProofs`, `SendPathProofs`, `PipelineExporterProofs`, `MonitoringProofs`, `ReportProofs`, `CustomerReportProofs` | theorems and proofs; `MonitoringProofs` holds those of `HostAgent` too | |
| `Sums` | lemmas about sums over finite sets, and induction over them | |

Operators with a suffix such as `GiveBack_Nothing`, or marked "mutant", are the
definition that follows them changed the way a plausible bug would change it.
They are not part of any specification; each shows that the property it is
paired with in `PROJECT.json` can fail. Some actions are written as an operator
with a parameter (`BeginSampleWhen(due)`) so that the action and its mutant are
each one line.

### LoadGen and RunLedger

State. `pc` and `wpc` are the program counters of the main thread and of each
worker; the other variables are the attributes of `LoadGenerator` and `Metrics`
under names close to the source's (`stop` is `_stop`, `nextSeq` is `_next_seq`,
`step` is `_step`, `consec` is `_consecutive_failures`, `abort` says whether
`_abort_reason` is set). `hung` and `outcome` are history variables. A batch is
named by its first sequence number.

Actions. One per critical section, so that everything another thread can see
between two locks is a state: `Allocate` (under `_seq_lock`), `Put`/`PutFull`,
`RecordOffered` (metrics lock), `StepOffered` (`_step_lock`), then on the worker's
side `Get`, `Send` (gauge +1), `Export` (the call, gauge -1), `RecordSuccess`,
`ResetConsecutive`, `StepAccepted`, or `RecordFailure`, `StepFailed`,
`CountFailure`, `Halt`.

`RunLedger` knows neither threads nor steps: batches are offered and settled
once and in one way, totals follow batch by batch and never overtake what
happened, the manifest is published once, as a copy of the totals, when every
offered batch is counted. `Ledger == INSTANCE RunLedger WITH ...` maps the
batches queued or held to `outstanding` and the manifest to its totals; every
action of `LoadGen` is a step of the ledger or leaves it alone (`KeepsLedger`).

Abstractions.

* Time is what it causes. A deadline passes (`DeadlinePasses`), a put, a drain
  or a join gives up (`PutFull`, `DrainTimeout`, `Join`), at any moment. Rates,
  intervals and `stalled_ms` decide only when a batch may be submitted, which is
  left open.
* Latencies, bytes and error texts are left out. The latency rule of `stop_when`
  may hold or not after any step.
* Status codes are three classes: ack, rejection, any other failure. A channel
  that is closed under a worker makes the call raise instead.
* The pause of the `polite` mode ends by itself and changes nothing, so it is
  part of the worker's next step.
* `_consecutive_failures += 1` and the comparison that follows are one action:
  the generator runs on CPython 3.11 (`generator/Dockerfile`), which does not
  switch threads between them except at calls and loop ends. The reset in
  `_send` is an action of its own.
* The signal handler is one action. That it could block on the event's own
  lock is a property of CPython's `Event`, listed as a hazard without a property.
* An exception that escapes `run_step` is not modelled (see *Disagreements*).

### SendPath, TokenSource, Metrics

`TokenSource` keeps ages instead of times: a token's age is the time since the clock
reading its expiry was computed from, and a reading has an age too, because
`bearer()` reads the clock before it takes the lock. `early` is what rounding "iat"
down to a second takes from a token. `Res` ticks make a second (one in the run, any
number in the theorems) and `MaxStall` bounds how old a reading may become before it
is used.

`Metrics` splits the sampler at its locks and writes: look, swap the window,
write to each file. `stop_sampler()` in the main thread may give up its join and
then swaps and writes its own row beside a sampler that still runs, and closes
the files under it. `lost` records the rows a closed file swallowed.

`SendPath` EXTENDS both. A worker takes a batch, stamps its template record by
record (one action per turn of the loop of `stamp()`), asks for a token, calls
with whatever the template holds at that moment, and books the outcome. Templates
are shared memory: nothing but `TemplateFor` keeps workers apart. The queue, the
steps and the sentinels are `LoadGen`'s; here the feed is a counter. Record
contents are random data and left out. As a bound, the
clock stands still while the last row is written (`ClockRuns`), which takes a moment
and looks at no token. Once the
process has exited or refused to start (`Over`) nothing happens: threads end with
it, which is why the run does not check for deadlock.

### Reconcile

State. `client` is what the generator knows of each row, `server` what the
collector did with it, `lake` the rows of this run in the table, `wm` the sum of
the watermark, `foreign` other rows in the window, `result` the dictionary
`validate()` fills in, `baseline` the first check's checksums. A row has its
number, its copy, the body and severity it was sent with, and `other`: whatever
no sum is taken over, timestamps and attributes among it.

Actions. `Offer` to `ForeignCommit` are the run; `WriteManifest` ends it with the
formulas of `main.py`; `Lose`, `Duplicate`, `Corrupt`, `Misalign` are faults
between two checks; `CountLanded` to `Verdict` are the statements of `validate()`
in their order, one action each; `CheckAgain` starts the check after a merge with
`--baseline`. A commit of another client, or of a call the generator has given
up on, can happen between any two of them.

The collector, the table and the compactor are not in the repository. The model
takes from it what the code relies on (`ARCHITECTURE.md`, "The RPC does not ack
until the batch is durable"; the watermark "committed in the SAME transaction")
and lets `Faults` break it. A sum of hashes is taken to tell apart any two bags
of values. Workers that `stop()` did not wait for look to the check like calls
that timed out. Timestamps decide nothing: every row of the model is in the
window. `Corrupt` may change any column, and `Checksums` sums the ones the code
compares (`validate_correctness.py:240-253`, 310), so that `SummedChangeCaught`
is about `Compared` tables, without the others.

### HostAgent, PipelineExporter, Monitoring

Time is kept as ages that stop growing at `Horizon`: an age only matters until it
passes the limit it is compared with. `okAge[c]` is a history variable, the time
since probe `c` would last have succeeded; it is what "recent evidence" means.

`HostAgent` has the service (`svc`, started under any pid of `Pids`, dying and
coming back between any two reads of `/proc`), perhaps a wrapper process that
matches the same pattern, and the agent as a sequence of steps at which it can be
killed: read the clocks, probe (one action per probe), `pid_of()`, the rest of
`_resolve_pid()`, the second read of `/proc`, the row, the temporary file, the
rename. `AgentCrash` forgets everything but the file. That a reader never sees
half a file is `rename(2)`'s promise and taken from it. The row keeps the process
it shows and the one its CPU rate starts from, whatever pids they had, and
`raced`, a history of whether the process changed between the two reads of
`/proc`: `ReplacementIsCounted` is about processes, not pids.

`PipelineExporter` is one thread; `epc` is the source whose turn it is. Reading a
snapshot and judging it are two steps with time in between. The up gauge is set
before the age is looked at, as in the code. `sample` is the JSON row under
construction. Both health modes are modelled, `mode` being fixed at the start.
A body may have fields the code does not expect (`BadBodies`); the scrape then
raises half way, with some of its gauges set. The stage it got to, `n` of
`Stages`, is a parameter of the action. What a failure sets down depends on where
it is raised: over ssh anything sets the minor tier down
(`pipeline_exporter.py:461-469`), of the major service only a failed fetch or
parse does (497-511).

`Monitoring` EXTENDS the agent and INSTANCEs the exporter. What they share is the
file: the exporter reads `file.deps["health"]` and `file.age`. The other sources
of the exporter are reduced; the module says how.

### Report, CustomerReport

`Report` runs the levels, then the steps of `run-test.sh` in their order, each of
which may be skipped or may leave nothing behind, then repairs by hand. `Render`
and `Publication` are what the two scripts conclude from the files then present:
slopes are fractions and rates are compared as products, so nothing is rounded.
The samples of `pipeline.jsonl` a line is fitted through are a set of their
positions, whose order is that of the file, and totals over levels, samples and
runs are sums over a set (`SumFunction`).
Formatting, charts, latencies, storage and the tables that print a value as it
was read are left out.

`CustomerReport` has runs that end with some fate, rows that land late, a check
that may be repeated, and one run that is the drill: kill (which may fail),
probes over ssh (which may fail), detection, recovery, help. The collector may go
down again and come back at any time after the kill. `Build` may happen at any
moment.

## Runs

| run | result | distinct states | shows |
|---|---|---|---|
| `generator_safety` | passes | 2.29 M | numbering, books, manifest, abort, sentinels and finality of judged steps under every interleaving; the refinement of `RunLedger` |
| `generator_live` | passes | 0.20 M | the run ends and a stopped run writes its manifest, whatever the worker does |
| `generator_drain` | violated | | a drain that ends without its warning is not always drained |
| `sendpath` | passes | 3.32 M | messages and the books of the run agree in every interleaving of workers, sampler and shutdown; tokens are fresh, and minted a refresh apart |
| `reconcile_check` | passes | 10.6 M | what PASS, a clean run and the watermark are worth, and which changes the checksums catch |
| `reconcile_loss` | violated | | a timed-out row that landed hides a lost acked row |
| `agent` | passes | 4.13 M | snapshots are evidence of their probes; restarts are not invented; a process that replaced another from one sample to the next is counted |
| `exporter` | passes | 2.26 M | samples are complete, the minor tier reads down after a failed scrape over ssh, the major counter has one owner, stale values are flagged |
| `exporter_down` | violated | | after a failed scrape the compactor still reads as up |
| `monitoring` | passes | 0.39 M | up is recent; a dead agent and a dead service are noticed |
| `report` | passes | 0.81 M | trend and constraint follow the samples; the sustainable rate is a prefix of levels that held; the summary follows the levels (not the verdict) |
| `customer` | passes | 0.50 M | how much the headline can hide; what the best rate and the survival claim rest on; the outage covers the downtime |

A violated run checks one sentence of the repository's own documentation,
quoted with its line under `findings`.

Every property of a passing run is about several steps, usually of several
actors; `PROJECT.json` gives for each the mutant of the code that breaks it.

### Bounds, and why they are enough

* `LoadGen`: two workers are the fewest that can interleave, and all they share
  is symmetric; two steps are needed for outcomes that cross a step boundary, and
  three batches of two rows (`MaxRows` 6) fill a queue of two while a worker
  holds another one, so that puts block, sentinels meet a full queue and a batch
  is given back. `AbortLimit` 2 needs failures of two batches in a row. The
  liveness run has one worker, which may hang for ever, and a queue of one, so
  that the third batch finds it full; it uses no symmetry.
* `Reconcile`: three rows allow one acked, one lost and one late row at once, two
  copies a duplicate, and two damages a loss made up for by a duplicate.
* `SendPath`: two workers with two variants have four templates, enough for
  slices to touch; records are stamped in two steps, so that a message can be
  half stamped. A lifetime of 4 ticks with a refresh at 3 and a stall of 1 has a
  token in each state: good, due, expired. With one tick a second "iat" is never
  rounded; the proofs cover every `Res`. `CustomerCounts` are a pool that
  covers its customers and one that does not.
* `HostAgent`: a check in every tick and a horizon of 2 let a check be not yet due,
  due and overdue; the proofs cover every interval. Three starts under two pids
  reuse a pid after an intermediate process. `PipelineExporter`: an interval and a
  horizon of 2 let a cached value be fresh, due, and older than its interval.
  `Monitoring`: an age limit of 0 and a horizon of 1 leave one age that is accepted
  and one that is refused.
* `Report`: two levels, target rates that differ, series on both sides of the
  eight samples from which a warm-up is cut off, with warm-ups of either
  direction and a slope of exactly one half; one repair. `CustomerReport`: two
  runs, one the drill; fates for every combination of clean, short, lost, doubled
  and masked that the verdict tells apart; fewer probes than in the script, of
  which the last two come after the drill's own help.

### Fairness

* `LoadGen`: `Main` is weakly fair: the main thread is never blocked without a
  timeout, and the operating system schedules it. `DeadlinePasses` is weakly
  fair: clocks advance. Nothing is assumed of workers, exports or the signal, so
  `RunEnds` holds even if every export hangs.
* `Monitoring`: the exporter, a running agent and the clock are weakly fair. What
  the two loops ask of the services has a timeout (`host_agent.py:156`, 178, 225,
  248, 265, 328; `pipeline_exporter.py:226`, 334) and their sleeps are bounded.
  The queries of the catalog and the watermark have a connect timeout only
  (`pipeline_exporter.py:301`); that a query, once connected, ends is assumed. That
  systemd restarts a dead agent is not assumed, nor that a service comes back.
* The other modules state no liveness and assume no fairness.

## Proofs

Each theorem is `Spec => []Inv` (or an action property) for every value of the
constants that the named `ASSUME`s allow: what `config.py` or the argument
parsers enforce, and that `None` is not a number or one of the strings it is
compared with. TLC evaluates the assumptions in every run. The invariants that
make the proofs go through:

* `LoadGenProofs`. `TypeCorrect`: the types are inductive only together with
  `Control`, which ties the program counters to the data. `RowsAreUnique` and
  `SequenceHasNoHoles`: neither is inductive alone. That giving a batch back
  leaves no overlap needs that the pending batch has the highest numbers
  (`PendingLast`), that a new batch is fresh needs `NoHoles`, that nothing is sent
  twice needs the places to be disjoint; the three together are `Numbering`.
  On top of them, `BookInv` ties each counter to the outcomes not
  yet booked (`BooksAlwaysBalance`); with `EndInv`, for the end of the run, it
  gives the refinement `GeneratorKeepsLedger`, one lemma per action of the ledger
  and one for the steps that leave it alone. `SentinelsArrive` needs the order of
  the queue (`OrderInv`: sentinels behind batches) and what a drain leaves
  (`DrainInv`). `ManifestIsExact` rests on `JoinInv` (a joined worker holds
  nothing), `AbortsAreJustified` on `AbortInv` (failures counted in a row were
  failures), `StepsAreFinal` and `RangesCover` on `StepInv` (only the step being
  run is written to; ranges follow `NextFree`). `StepsStayWithinTotals` compares a
  sum over the steps with a total booked earlier; `CreditInv` makes it inductive by
  adding the acks that are in the totals and in no step yet.
* `ReconcileProofs`. The check compares numbers read at different moments.
  `Sound` says what each number is still worth later: the row count is right
  unless a row that was not acked has landed since, because after the run only
  failed calls can still be committed. With no duplicate key, equal counts become
  equal sets (`PassMeansExact`). `WatermarkIsWitness`: the watermark only grows,
  and the window was counted earlier. `CleanRunsPass` and `SummedChangesAreCaught`
  need `Complete`: the checksums are sums over a known set of rows (`Summed`), the
  bounds enclose it (`Ranged`), and undamaged rows give each check the answer it
  passes on (`Clean`).
* `SendPathProofs`. `TokenInv` (a held token is no older than the reading it was
  taken with allows), `Spaced` (the tokens held and the cached one are one or dated
  a refresh apart), `StampInv` (a worker's template has the batch's numbers up
  to where it has stamped, and no other worker's slice meets it), the books of
  the sampler (`BookInv`, a conservation law over window, hands, files and losses)
  and `ReportInv`, which adds the order rows are written in. `PercentilesAreNear`
  is arithmetic about rounding halves to even.
* `MonitoringProofs`. For the agent, `EvidenceInv`: every positive probe result,
  wherever it is (in the dictionary being built, in `_deps`, in the file), has
  evidence no older than its age allows. `RestartInv` bounds what the agent can have
  seen of the starts since its own. `RowInv` ties the two processes of a row to what
  the agent remembers, so that a change of process is a change of pid or start time
  and is counted. For agent and exporter together, `HeldInv`: a snapshot in the
  exporter's hands has the evidence the file had. With `EvidenceInv` this gives
  `UpStaysRecent`, whose bound is `MaxStateAge - Skew + CheckInterval - 1`.
* `PipelineExporterProofs`. `ProgressInv`: the sources polled so far have entries
  that agree with their flags. `CacheInv`: a value can outlive its interval only
  behind a failed try. `FailedMinorStaysDown` needs that only the scrape of the
  compactor writes its flag and its tier.
* `Sums`. A sum over a finite set is a recursive function over its subsets; that
  it exists is proved from the well-foundedness of strict inclusion, stated for a
  set of cases instead of a predicate, since the library's induction theorems take
  an operator the provers cannot instantiate. From it follow additivity,
  monotonicity and `Chebyshev`: two series that never move against each other have
  a sum of products no smaller than the product of the sums allows.
* `ReportProofs`. `IInv` says what the files and the two documents are at any
  time: `Books` (`generator.json` holds the levels and their sums, and up to each
  level the acks are no more than the offers), `Reported` (a report was rendered
  from the levels and samples on disk and from some hosts and verdict, which may
  since have been collected or checked again) and `Published` (a summary, likewise).
  The rest is about the analysis: the sign of a fitted slope is that of the samples
  (`SlopeSign`, from `Chebyshev`), the loop over the levels stops at the first that
  did not hold, and, for `SummaryAlwaysFollows`, the prefix inequality of `Books`:
  when the totals are clean, a level that fell short needs later acks.
* `CustomerReportProofs`. `DrillInv` and `QuoteInv` (the outage, and where it is
  quoted, spans the downtime); `VerdictInv` and `ClaimInv` (a PASS on record was
  true when it was given, and stays true of what it says). `HeadlineStaysBounded`
  needs `CheckInv` (every `correctness.json` is a check of the run's fate against a
  number of rows that have landed by now): run by run, the loss it shows is no more
  than there was, and together with the copies no less than what is still missing;
  the sums follow, and rows that land later only lower what is missing.
  `BestAlwaysEarned` needs that a maximum exists among finitely many candidates,
  which is one more induction over a finite set, and then `VerdictInv`.

Every invariant and every action property that a passing run checks is proved.
Only model-checked are `RunEnds`, `DeadAgentIsNoticed` and `DeadServiceIsNoticed`:
liveness under fairness, and the ENABLED behind it, are out of the prover's reach.

## Disagreements

Three sentences of the repository are refuted by a run: a drain that ends without
its warning is not always drained (`generator_drain`); a timed-out row that
landed hides a lost acked row (`reconcile_loss`); a compactor whose scrape failed
keeps reading as up (`exporter_down`). What was met besides, and can be read off
the code without a model checker:

* Generator. After an abort the manifest's range can name one row too many
  (`loadgen.py:220`, `main.py:243`, against `ARCHITECTURE.md:221`); the range is
  exact otherwise (`RangeCoversOffers`). Exit code 5 stands for an aborted run with
  a manifest and for a refusal without one (`main.py:201`, `run-test.sh:111`). A
  batch size between 0 and 1 becomes 0 (`config.py:227`) and `run_step` divides by
  it (`loadgen.py:126`); `--rps` and `--duration` are ignored when the configuration
  has steps (`main.py:57`). `percentile()` is documented as nearest-rank
  (`metrics.py:35`) and reads one rank more when q*n is an odd integer.
* Check. A row that lands after its call failed is called DUPLICATION
  (`validate_correctness.py:145`). Traffic of other clients between two statements
  looks like a torn transaction (227, comment 215). `--baseline` is there "to prove
  a compaction changed nothing" (271): it compares sums per column, which do not see
  values moved between rows (244), nor any change of a timestamp (its bounds are
  recorded, 247, and not compared, 310) or of an attribute; and two queries for the
  checksums that both failed compare equal (254, 311).
* Monitoring. A restart that happens between two samples and is seen as an
  absence is not counted (`host_agent.py:386-395`), a wrapper found by the
  fallback is counted as a restart (194): `RestartsAreReal` bounds the count from
  above only. "Tier service /health reachable and UP" (`pipeline_exporter.py:147`) is
  not what `tier_up` says in three cases: in http mode it stays at 1 after a failed
  scrape (470); the major tier keeps its 1, or is given one, by a scrape that raises
  after the body was read (512-516); and when the agent's probe of a compactor
  failed, its snapshot has no body and leaves the minor tier as it was, beside an up
  of 0 (391-392, 423).
* Engineering report. A sustainable rate is announced although the backlog grows or
  a service restarted (`report.py:943-970`, against 631-634 and 750): the loop asks
  for the ratio and the rejections alone, and a slope between 0 and 0.5, which is
  "positive", is called flat; the trend is that of the run, not of the level. A
  slope of exactly 0.5 is neither flat nor growing in both places. "Backlog flat and
  CPU below 85%" is also said when neither was collected, and a missing success rate
  prints as a number (583-584). Late acks can make every total clean while no level
  is sustainable. "Every step passed cleanly — zero rejected, zero lost"
  (`publish_report.py:145-147`) is decided from acks and may stand beside VERDICT:
  FAIL (`report.py:824`), or beside none. The slice of the pipeline log has a start
  but no end (`collect-results.sh:28`), and collecting again truncates the host
  files (47).
* Customer report. "Every record the pipeline acknowledged was independently
  verified present ... after every run" (171-174) is said with runs that were never
  validated, which count as 0 lost, and with a loss that a late row makes up for
  (`reconcile_loss`), which counts as 0 too: `HeadlineIsBounded` states what is
  left; a literal 0 is printed for the drill also after FAIL (271-272); "100%
  delivery" is said at 99 % of the offered rows. A drill that passed and saw no
  recovery makes the report raise (178). "The collector was terminated" is also said
  when the kill over ssh failed (`run.sh:72`, `|| true`).
* Track A. Row counts that do not fit are trimmed with a log line, though
  "emitted as an explicit NOT TESTED row" (`track_a.py:723-725` against 9-12).
  `slowdown_vs_4GB` is set in the last pass only, since its baseline is measured
  there (594-609). Five cold runs are labelled with the outcome of the last one
  (237-247 against 118-119).

## Plan

Done: `LoadGen`, `RunLedger` and the refinement, `Reconcile`, `Metrics`,
`TokenSource`, `SendPath`, `HostAgent`, `PipelineExporter`, `Monitoring`,
`Report`, `CustomerReport`, and the proofs above.

Left, in this order: the merge and step rules of the configuration; `LoadGen`
composed with `Reconcile` through the manifest (so far both use the formulas of
`main.py`, and `RunLedger` states what the one owes the other); `CredWatchdog` and
`PidFile`; verdict rules of the drain and soak tests.

## Not modelled

* Watchdogs and pid files (`scripts/cred-watchdog*.sh`, `start.sh`, `stop.sh`):
  shell loops around ssh, `date` and the process table. Their hazards are listed;
  they keep no state of their own beyond a pid and a time of day.
* `Event.set()` in a signal handler: CPython's own lock.
* Configuration loading: a sequential merge; only the bounds it enforces matter to
  the models, as assumptions.
* `track_a.py`, `parse_compactor_log.py`: one pass over query timings or log
  lines; sequential arithmetic a unit test reaches.
* Dashboards and alert rules: generated JSON and Prometheus configuration.
* Deployment, preflight and script libraries: sequences of remote commands.
* `--once` and `--print-state` of the agent, gauges that copy a number, the
  Prometheus exposition of the generator, charts and tables of the reports, and
  record contents: values that are passed on as they are.
