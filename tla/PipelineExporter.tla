-------------------------- MODULE PipelineExporter --------------------------
(***************************************************************************)
(* The central exporter, monitoring/exporters/pipeline_exporter.py: one    *)
(* thread that polls every source in turn, sets Prometheus gauges as it    *)
(* goes, and writes one JSON sample per poll.  Two services are seen       *)
(* through the snapshots their host agents publish (or, in http mode,      *)
(* directly), the major compactor through its own /health, and two         *)
(* expensive sources only when their interval has elapsed, with the last   *)
(* value served in between.                                                *)
(*                                                                         *)
(* A gauge nothing has set yet is None where it has a label, and 0 where   *)
(* it has none.  Everything a scrape reads is a choice of the environment; *)
(* counters other than the major tier's are left out, and the services     *)
(* have one database, which every body names.                              *)
(*                                                                         *)
(* A body with a field that is not what the code expects there raises in   *)
(* the middle of a scrape, which then has set some of its gauges and not   *)
(* the others.  How far a scrape gets is its parameter n, a stage of       *)
(* Stages: the number of gauges it has set, in the order the code sets     *)
(* them; at End it returns.                                                *)
(***************************************************************************)
EXTENDS Integers

CONSTANTS
  None,
  Modes,        \* the values of --health-mode: "ssh", "http"
  Split,        \* is compactor_major_health_port > 0?
  MaxStateAge,  \* --max-state-age
  Skew,         \* exporter's clock minus an agent's, in either direction
  Interval,     \* --watermark-interval and --s3-interval
  Formats,      \* the /health formats deployed: "flat", "tiers"
  Cycles,       \* values of the major compaction counter
  BadBodies,    \* may a body have fields the code does not expect?
  Horizon       \* bound: ages stop growing here

ASSUME ExporterAssumption ==
  /\ Modes \subseteq {"ssh", "http"} /\ Split \in BOOLEAN
  /\ MaxStateAge \in Nat /\ Interval \in Nat /\ Horizon \in Nat
  /\ Skew \in Int
  /\ Interval <= Horizon /\ MaxStateAge < Horizon
  /\ Formats \subseteq {"flat", "tiers"} /\ Cycles \subseteq Nat
  /\ BadBodies \in BOOLEAN

Roles   == {"collector", "compactor"}
Tiers   == {"minor", "major"}
Slow    == {"watermark", "s3"}
Sources == Roles \cup {"compactor_major", "catalog"} \cup Slow

VARIABLES
  mode,      \* health_mode, fixed when the exporter starts
  epc,       \* the source being polled, or "sleep" or "write"
  held,      \* the snapshot just read and not yet evaluated, or None
  due,       \* due[s]: did this poll's clock find slow source s due?
  pollAge,   \* time since the current poll began
  tryAge,    \* time since _last_lag, _last_s3
  cacheAge,  \* time since the value in _lag_cache, _s3_cache was read
  sample,    \* what the poll has recorded of each source
  up,        \* bench_collector_up, bench_compactor_up
  tierUp,    \* bench_compactor_tier_up
  scrapeOk,  \* bench_scrape_ok
  major,     \* the major compaction counter's gauge
  majorSeen  \* history: what the major service last reported

gauges   == <<up, tierUp, scrapeOk, major, majorSeen>>
slowVars == <<due, pollAge, tryAge, cacheAge>>
vars     == <<mode, epc, held, slowVars, sample, gauges>>

Ages     == 0..Horizon
Older(a) == IF a < Horizon THEN a + 1 ELSE Horizon

\* A /health body: its status, its format, and its major counter (always 0
\* in the minor service's own view when the tiers are split).
Bodies == [up : BOOLEAN, format : Formats, major : Cycles]

\* A snapshot of a host agent; the body is absent unless the probe succeeded.
Snapshots ==
  [age : Ages, ok : {TRUE}, body : Bodies] \cup
  [age : Ages, ok : {FALSE}, body : {None}]

Init ==
  /\ mode \in Modes
  /\ epc = "sleep" /\ held = None
  /\ due = [s \in Slow |-> FALSE] /\ pollAge = 0
  /\ tryAge = [s \in Slow |-> Horizon] /\ cacheAge = [s \in Slow |-> Horizon]
  /\ sample = [s \in Sources |-> "missing"]
  /\ up = [r \in Roles |-> 0] /\ tierUp = [t \in Tiers |-> None]
  /\ scrapeOk = [s \in Sources |-> None]
  /\ major = None /\ majorSeen = None

\* Time passes for a snapshot in hand, and for the slow sources.
HeldOlder ==
  held' = IF held = None THEN None ELSE [held EXCEPT !.age = Older(@)]

SlowOlder ==
  /\ pollAge' = IF epc = "sleep" THEN 0 ELSE Older(pollAge)
  /\ tryAge' = [s \in Slow |-> Older(tryAge[s])]
  /\ cacheAge' = [s \in Slow |-> Older(cacheAge[s])]

Tick == HeldOlder /\ SlowOlder /\ UNCHANGED <<epc, due, sample, gauges>>

-----------------------------------------------------------------------------
(* poll_once()                                                             *)

\* The clock is read once, at the start; both slow sources compare with it.
BeginPoll ==
  /\ epc = "sleep" /\ epc' = "collector"
  /\ due' = [s \in Slow |-> tryAge[s] >= Interval] /\ pollAge' = 0
  /\ UNCHANGED <<held, tryAge, cacheAge, sample, gauges>>

After(src) ==
  CASE src = "collector"       -> "compactor"
    [] src = "compactor"       -> IF Split THEN "compactor_major" ELSE "catalog"
    [] src = "compactor_major" -> "catalog"
    [] src = "catalog"         -> "watermark"
    [] src = "watermark"       -> "s3"
    [] src = "s3"              -> "write"

RecordAs(src, ok, flag, next) ==
  /\ epc' = next
  /\ sample' = [sample EXCEPT ![src] = IF ok THEN "ok" ELSE "failed"]
  /\ scrapeOk' = [scrapeOk EXCEPT ![src] = flag]

\* Mutants: an exception ends the poll; a failure leaves the gauge alone.
Record_Aborts(src, ok) ==
  RecordAs(src, ok, IF ok THEN 1 ELSE 0, IF ok THEN After(src) ELSE "write")
Record_KeepsGauge(src, ok) ==
  RecordAs(src, ok, IF ok THEN 1 ELSE scrapeOk[src], After(src))
\* _run_source(): an exception of the scrape is recorded, and the poll goes on.
Record(src, ok) == RecordAs(src, ok, IF ok THEN 1 ELSE 0, After(src))

\* up, the major counter, tier_up; and the gauges set after them.
Stages == 0..4
End == 4

\* Of a body that was read, only a bad one raises.
Reaches(n) == n = End \/ BadBodies

UpAfter(r, isUp, n) ==
  IF n >= 1 THEN [up EXCEPT ![r] = IF isUp THEN 1 ELSE 0] ELSE up

Owned_Never(b) == FALSE    \* mutant: ownership ignored

\* The major counter in the minor compactor's body belongs to the major
\* service if that is scraped and the tiers are split.
Owned(b) == Split /\ b.format = "tiers"

\* What the scrape of role r makes of the body b, if there is one.
MajorAfter(r, b, n) ==
  IF r = "compactor" /\ b # None /\ n >= 2 /\ ~Owned(b) THEN b.major ELSE major

\* _set_tier_metrics() is called for bodies in the new format only.
SetTier(t, b) == [tierUp EXCEPT ![t] = IF b.up THEN 1 ELSE 0]

TierAfter(r, b, n) ==
  IF r = "compactor" /\ b # None /\ n >= 3 /\ b.format = "tiers"
  THEN SetTier("minor", b) ELSE tierUp

\* _agent_state() returns the snapshot v.
ReadState(r, v) ==
  /\ mode = "ssh" /\ epc = r /\ held = None
  /\ held' = v
  /\ UNCHANGED <<epc, slowVars, sample, gauges>>

MinorDown_Never(r) == tierUp    \* mutant: the exception is let through

\* scrape_compactor() in ssh mode, when an exception of any kind reaches it.
MinorDown(r) == IF r = "compactor" THEN [tierUp EXCEPT !["minor"] = 0] ELSE tierUp

\* ssh fails, or the file is empty, absent, or no snapshot at all.
ReadFails(r) ==
  /\ mode = "ssh" /\ epc = r /\ held = None
  /\ Record(r, FALSE)
  /\ tierUp' = MinorDown(r)
  /\ UNCHANGED <<held, slowVars, up, major, majorSeen>>

StateAge == IF held.age + Skew < 0 THEN 0 ELSE held.age + Skew

\* The rest of _scrape_agent(): the up gauge is set before the age is looked
\* at; a snapshot that is too old is a failed scrape.
EvaluateWithin(r, limit, n) ==
  /\ epc = r /\ held # None /\ n >= 1
  /\ IF StateAge > limit THEN n = 1 ELSE Reaches(n)
  /\ held' = None
  /\ Record(r, n = End)
  /\ up' = UpAfter(r, held.ok, n)
  /\ major' = MajorAfter(r, held.body, n)
  /\ tierUp' = IF n = End THEN TierAfter(r, held.body, n) ELSE MinorDown(r)
  /\ UNCHANGED <<slowVars, majorSeen>>

\* Mutant: no age limit.
Evaluate_AnyAge(r) == \E n \in Stages : EvaluateWithin(r, Horizon + Skew, n)

Evaluate(r) == \E n \in Stages : EvaluateWithin(r, MaxStateAge, n)

\* http mode: /health is read across the network and returns b, or fails.
\* What a failure leaves behind is not set down again.
ScrapeHttp(r, b, n) ==
  /\ mode = "http" /\ epc = r
  /\ IF b = None THEN n = 0 ELSE Reaches(n)
  /\ Record(r, n = End)
  /\ up' = UpAfter(r, b # None /\ b.up, n)
  /\ major' = MajorAfter(r, b, n) /\ tierUp' = TierAfter(r, b, n)
  /\ UNCHANGED <<held, slowVars, majorSeen>>

\* scrape_compactor_major(): the major service does not answer, or not in JSON.
MajorFails ==
  /\ epc = "compactor_major"
  /\ Record(epc, FALSE)
  /\ tierUp' = [tierUp EXCEPT !["major"] = 0]
  /\ UNCHANGED <<held, slowVars, up, major, majorSeen>>

\* It answers b.  Its gauges are tier_up, then the counter; an exception
\* between them is outside of the try statement and sets nothing down.
ScrapeMajor(b, n) ==
  /\ epc = "compactor_major" /\ Reaches(n)
  /\ Record(epc, n = End)
  /\ tierUp' = IF n >= 1 THEN SetTier("major", b) ELSE tierUp
  /\ IF n >= 2 THEN major' = b.major /\ majorSeen' = b.major
     ELSE UNCHANGED <<major, majorSeen>>
  /\ UNCHANGED <<held, slowVars, up>>

\* scrape_catalog()
ScrapeCatalog ==
  /\ epc = "catalog"
  /\ \E ok \in BOOLEAN : Record(epc, ok)
  /\ UNCHANGED <<held, slowVars, up, tierUp, major, majorSeen>>

\* scrape_watermark() and scrape_s3(): when it fails, the old value stays in
\* the cache and the next try is a full interval away.  _last_lag and _last_s3
\* become the time the poll began, no later than the value is read.
ScrapeSlow(s) ==
  /\ epc = s /\ due[s]
  /\ \E ok \in BOOLEAN :
       /\ Record(s, ok)
       /\ cacheAge' = IF ok THEN [cacheAge EXCEPT ![s] = 0] ELSE cacheAge
  /\ tryAge' = [tryAge EXCEPT ![s] = pollAge]
  /\ UNCHANGED <<held, due, pollAge, up, tierUp, major, majorSeen>>

ServeCached(s) ==
  /\ epc = s /\ ~due[s]
  /\ epc' = After(s)
  /\ sample' = [sample EXCEPT ![s] = "cached"]
  /\ UNCHANGED <<held, slowVars, gauges>>

\* run(): the sample goes to the JSONL file.
WriteSample ==
  /\ epc = "write" /\ epc' = "sleep"
  /\ sample' = [s \in Sources |-> "missing"] /\ pollAge' = 0
  /\ UNCHANGED <<held, due, tryAge, cacheAge, gauges>>

\* What needs no snapshot of a host agent.
PollRest ==
  \/ BeginPoll \/ ScrapeCatalog \/ MajorFails \/ WriteSample
  \/ \E b \in Bodies, n \in Stages : ScrapeMajor(b, n)
  \/ \E s \in Slow : ScrapeSlow(s) \/ ServeCached(s)

Poll ==
  \/ PollRest \/ Tick
  \/ \E r \in Roles :
       \/ \E v \in Snapshots : ReadState(r, v)
       \/ \E b \in Bodies \cup {None}, n \in Stages : ScrapeHttp(r, b, n)
       \/ ReadFails(r) \/ Evaluate(r)

Next == Poll /\ UNCHANGED mode

Spec == Init /\ [][Next]_vars

-----------------------------------------------------------------------------
(* Properties                                                              *)

\* Every variable keeps its type.
TypeOK ==
  /\ mode \in Modes /\ epc \in Sources \cup {"sleep", "write"}
  /\ held \in Snapshots \cup {None}
  /\ due \in [Slow -> BOOLEAN]
  /\ pollAge \in Ages /\ tryAge \in [Slow -> Ages] /\ cacheAge \in [Slow -> Ages]
  /\ sample \in [Sources -> {"missing", "ok", "failed", "cached"}]
  /\ up \in [Roles -> {0, 1}] /\ tierUp \in [Tiers -> {None, 0, 1}]
  /\ scrapeOk \in [Sources -> {None, 0, 1}]
  /\ major \in Cycles \cup {None} /\ majorSeen \in Cycles \cup {None}

\* "A source that is down produces a recorded failure, never a silently
\* missing sample": whatever failed on the way, the sample written has an
\* entry for every source, and it agrees with bench_scrape_ok.
SampleIsComplete ==
  epc = "write" =>
    \A s \in Sources \ (IF Split THEN {} ELSE {"compactor_major"}) :
      /\ sample[s] # "missing"
      /\ sample[s] = "ok" => scrapeOk[s] = 1
      /\ sample[s] = "failed" => scrapeOk[s] = 0

\* "A failed scrape must read as DOWN, not as the last good value": this is
\* so of tier_up of the minor tier in ssh mode, whatever ended the scrape and
\* whatever it had set by then.  It is not so of bench_compactor_up (below), in
\* http mode, or of the major tier when its body, once read, raises.
FailedMinorReadsDown ==
  mode = "ssh" /\ scrapeOk["compactor"] = 0 => tierUp["minor"] = 0

\* With the tiers split, the major counter is the major service's number at
\* all times: the scrape of the minor service never makes it flap.
MajorIsOwned ==
  Split /\ Formats = {"tiers"} => major = majorSeen

\* A cached value that a poll is going to serve although it is older than
\* its interval is always accompanied by bench_scrape_ok = 0.
StaleValueIsFlagged ==
  [][epc = "sleep" /\ epc' # "sleep" =>
       \A s \in Slow :
         due'[s] \/ cacheAge[s] < Interval \/ scrapeOk[s] = 0]_vars

-----------------------------------------------------------------------------
(* What the repository says of the exporter and the code does not keep     *)

\* "A failed scrape must read as DOWN, not as the last good value."
FailedScrapeReadsDown == scrapeOk["compactor"] = 0 => up["compactor"] = 0

=============================================================================
