------------------------------ MODULE Report ------------------------------
(***************************************************************************)
(* What one run turns into: the generator's levels, the files of           *)
(* results/<test-id>/, the engineering report bench/report.py judges from  *)
(* them, and the summary bench/publish_report.py publishes next to a copy  *)
(* of that report.  scripts/run-test.sh takes the steps in this order;     *)
(* afterwards the files can be collected, validated and reported again.    *)
(*                                                                         *)
(* Rates are compared as products and slopes as fractions, so nothing is   *)
(* rounded.  All levels last equally long.                                 *)
(***************************************************************************)
EXTENDS Integers, Sequences, FiniteSets, FiniteSetsExt, SequencesExt

CONSTANTS
  None,           \* a file or a value that is missing: NOT MEASURED
  Outcomes,       \* what a level can come to: [offered, accepted, rejected, late]
  TargetRates,    \* target_rps of the levels, in their order
  Series,         \* backlog_files of the samples in pipeline.jsonl; None: no catalog
  HostCases,      \* role -> [cpu, restarts], or None: no samples of the host
  Circumstances,  \* [transport, stalled, short, watermark]
  MaxRepairs      \* bound: steps repeated by hand after the run

Roles == <<"generator", "collector", "compactor">>

ASSUME FilesAssumption ==
  /\ \A o \in Outcomes : /\ {o.offered, o.accepted, o.rejected, o.late} \subseteq Nat
                         /\ o.accepted + o.rejected + o.late <= o.offered
  /\ TargetRates \in Seq(Nat \ {0})
  /\ \A s \in Series : s \in Seq(Nat \cup {None})
  /\ MaxRepairs \in Nat

Trends == {"flat", "GROWING", "draining"}
Constraints == {"collector ingestion queue", "collector accept path", "compaction",
                "generator", "in-flight bound", "CPU", "not reached"}

ASSUME NoneAssumption ==
  None \notin Nat \cup Trends \cup Constraints /\ None \notin [num : Int, den : Int]

VARIABLES
  pc,          \* the step of run-test.sh that comes next
  facts,       \* what the run was like, an element of Circumstances
  steps,       \* steps of generator.json: the judged levels
  late,        \* accepted after their level was judged, not yet booked
  generator,   \* generator.json, or None
  pipeline,    \* raw/pipeline.jsonl: a member of Series
  hosts,       \* raw/host-*.jsonl: a member of HostCases
  verdict,     \* correctness.json: "PASS", "FAIL" or None
  report,      \* report.md, or None
  published,   \* report/<test-id>/SUMMARY.md and DETAILED.md, or None
  repairs      \* how many steps were repeated by hand

files == <<generator, pipeline, hosts, verdict>>
vars == <<pc, facts, steps, late, files, report, published, repairs>>

-----------------------------------------------------------------------------
(* report.py: the analysis. *)

SteadyWindow_Whole(rows) == rows      \* mutant: the warm-up is fitted too

\* steady_window(): the first quarter of eight samples or more is warm-up.
SteadyWindow(rows) ==
  IF Cardinality(rows) < 8 THEN rows
  ELSE {i \in rows : Cardinality({j \in rows : j <= i}) > Cardinality(rows) \div 4}

\* linear_slope() of the series over these samples, as a fraction.
LinearSlope(rows, series) ==
  LET n == Cardinality(rows)
      X == [i \in rows |-> i]
      Y == [i \in rows |-> series[i]]
      XY == [i \in rows |-> i * series[i]]
      XX == [i \in rows |-> i * i]
      den == n * SumFunction(XX) - SumFunction(X) * SumFunction(X)
  IN IF n < 3 \/ den = 0 THEN [num |-> 0, den |-> 1]
     ELSE [num |-> n * SumFunction(XY) - SumFunction(X) * SumFunction(Y), den |-> den]

\* A slope per sample against 0.5 files per minute, at six samples a minute.
AboveHalf(slope) == 12 * slope.num > slope.den
BelowHalf(slope) == 12 * slope.num < slope.den /\ -12 * slope.num < slope.den

\* The samples of pipeline.jsonl whose catalog scrape succeeded.
Catalogued(series) == {i \in DOMAIN series : series[i] # None}

\* analyse_backlog(): None when there are fewer than four such samples.
AnalyseBacklog(series) ==
  IF Cardinality(Catalogued(series)) < 4 THEN None
  ELSE LinearSlope(SteadyWindow(Catalogued(series)), series)

\* analyse_lag(): is there any reading of the watermark?
LagAvailable(series) == facts.watermark /\ series # <<>>

\* The trend named in section "Backlog".
Trend(slope) ==
  IF slope = None THEN None
  ELSE IF BelowHalf(slope) THEN "flat"
  ELSE IF slope.num > 0 THEN "GROWING" ELSE "draining"

Measured(cpuOf) == {r \in 1..3 : cpuOf[Roles[r]] # None}

\* max(host_cpu, key=...): the busiest host, the first of equals.
Busiest(cpuOf) ==
  Roles[CHOOSE r \in Measured(cpuOf) :
          \A q \in Measured(cpuOf) : \/ cpuOf[Roles[q]].cpu < cpuOf[Roles[r]].cpu
                                     \/ cpuOf[Roles[q]].cpu = cpuOf[Roles[r]].cpu /\ r <= q]

StallVerdict(cpuOf) ==
  IF Measured(cpuOf) # {} /\ Busiest(cpuOf) = "generator" /\ cpuOf["generator"].cpu > 80
  THEN "generator" ELSE "in-flight bound"

Bottleneck_LateBacklog(file, slope, cpuOf) ==    \* mutant: compaction is asked last
  LET t == IF file = None THEN [offered |-> 0] ELSE file.totals
  IN IF facts.transport # "direct" \/ t.offered = 0 THEN None
     ELSE IF t.rejected > 0 THEN "collector ingestion queue"
     ELSE IF 100 * t.accepted < 99 * t.offered THEN "collector accept path"
     ELSE IF facts.stalled THEN StallVerdict(cpuOf)
     ELSE IF slope # None /\ AboveHalf(slope) THEN "compaction"
     ELSE "not reached"

\* bottleneck(): the binding constraint, or None for NOT MEASURED.
Bottleneck(file, slope, cpuOf) ==
  LET t == IF file = None THEN [offered |-> 0] ELSE file.totals
  IN IF facts.transport # "direct" \/ t.offered = 0 THEN None
     ELSE IF t.rejected > 0 THEN "collector ingestion queue"
     ELSE IF 100 * t.accepted < 99 * t.offered THEN "collector accept path"
     ELSE IF slope # None /\ AboveHalf(slope) THEN "compaction"
     ELSE IF facts.stalled THEN StallVerdict(cpuOf)
     ELSE IF \E r \in Measured(cpuOf) : cpuOf[Roles[r]].cpu > 85 THEN "CPU"
     ELSE "not reached"

Holds(s) == s.offered > 0 /\ 100 * s.accepted >= 99 * s.offered /\ s.rejected = 0

Sustainable_Best(ss) ==    \* mutant: the loop goes on after a level that failed
  Max({0} \cup {i \in DOMAIN ss : Holds(ss[i])})

\* The loop over the levels, up to the first that fails; 0: none held.
Sustainable(ss) ==
  LET judged[i \in 0..Len(ss)] ==
        IF i = 0 THEN [level |-> 0, open |-> TRUE]
        ELSE LET before == judged[i - 1]
             IN IF before.open /\ Holds(ss[i]) THEN [level |-> i, open |-> TRUE]
                ELSE [before EXCEPT !.open = FALSE]
  IN judged[Len(ss)].level

Restarted(cpuOf) == {Roles[r] : r \in {q \in Measured(cpuOf) : cpuOf[Roles[q]].restarts > 0}}

\* The list "What this run does not establish".
Unknowns(ss, series, slope, cpuOf, checked) ==
  {u \in {"collector host", "backlog", "lag", "ceiling", "short", "correctness"} :
     \/ u = "collector host" /\ cpuOf["collector"] = None
     \/ u = "backlog" /\ slope = None
     \/ u = "lag" /\ ~LagAvailable(series)
     \/ u = "ceiling" /\ Len(ss) <= 1
     \/ u = "short" /\ (facts.short \/ generator = None)
     \/ u = "correctness" /\ checked = None}

\* What the document says against its own sustainable rate, in its sections
\* "Backlog", "Resource utilisation" and "Maximum sustainable rate".
Caveats(slope, cpuOf) ==
  (IF Trend(slope) = "GROWING" THEN {"not sustainable"} ELSE {})
  \cup (IF Restarted(cpuOf) # {} THEN {"restart invalidates"} ELSE {})
  \cup (IF slope = None THEN {"provisional"} ELSE {})

\* Section "Correctness" without correctness.json: "A performance number
\* without a correctness verdict is not a result."
CorrectnessSection == IF verdict = None THEN "not a result" ELSE verdict

\* load_json() of a missing file, "or {}".
StepsOf(file) == IF file = None THEN <<>> ELSE file.steps

\* render(): what the engineering report concludes from the files.
Render ==
  LET slope == AnalyseBacklog(pipeline)
      ss == StepsOf(generator)
  IN [correctness |-> CorrectnessSection,
      notValid   |-> facts.transport # "direct",
      table      |-> IF Len(ss) > 1 THEN ss ELSE <<>>,
      trend      |-> Trend(slope),
      constraint |-> Bottleneck(generator, slope, hosts),
      sustainable |-> IF Len(ss) > 1 THEN Sustainable(ss) ELSE None,
      caveats    |-> Caveats(slope, hosts),
      unknowns   |-> Unknowns(ss, pipeline, slope, hosts, verdict)]

-----------------------------------------------------------------------------
(* publish_report.py. *)

AllClean_Rejections(t) == t.rejected = 0 /\ t.offered > 0    \* mutant: losses do not count

\* all_clean: the bottom line "Every step passed cleanly".
AllClean(t) == t.rejected = 0 /\ t.offered = t.accepted /\ t.offered > 0

MaxStep(ss) == IF ss = <<>> THEN 0 ELSE Max({ss[i].target : i \in DOMAIN ss})

\* main(): SUMMARY.md from the files, DETAILED.md a copy of report.md.
Publication ==
  LET t == IF generator = None THEN [offered |-> 0, accepted |-> 0, rejected |-> 0]
           ELSE generator.totals
      ss == StepsOf(generator)
  IN [clean  |-> AllClean(t),
      rate   |-> MaxStep(ss),
      rows   |-> ss,
      detail |-> report]

-----------------------------------------------------------------------------
(* The run and its files. *)

Init ==
  /\ pc = "run" /\ facts \in Circumstances
  /\ steps = <<>> /\ late = 0
  /\ generator = None /\ pipeline = <<>> /\ verdict = None
  /\ hosts = [r \in ToSet(Roles) |-> None]
  /\ report = None /\ published = None /\ repairs = 0

\* A level is judged.  Late acks of the one before are booked to it.
LevelEnds(o) ==
  /\ pc = "run" /\ Len(steps) < Len(TargetRates)
  /\ steps' = Append(steps, [offered |-> o.offered, accepted |-> o.accepted + late,
                             rejected |-> o.rejected, target |-> TargetRates[Len(steps) + 1]])
  /\ late' = o.late
  /\ UNCHANGED <<pc, facts, files, report, published, repairs>>

\* The generator ends by itself or early, and writes generator.json.
GeneratorExits ==
  LET Offered == [i \in DOMAIN steps |-> steps[i].offered]
      Accepted == [i \in DOMAIN steps |-> steps[i].accepted]
      Rejected == [i \in DOMAIN steps |-> steps[i].rejected]
  IN /\ pc = "run" /\ pc' = "collect"
     /\ generator' = [steps  |-> steps,
                      totals |-> [offered  |-> SumFunction(Offered),
                                  accepted |-> SumFunction(Accepted) + late,
                                  rejected |-> SumFunction(Rejected)]]
     /\ UNCHANGED <<facts, steps, late, pipeline, hosts, verdict, report, published, repairs>>

\* It is killed: run-test.sh goes on without generator.json.
GeneratorDies ==
  /\ pc = "run" /\ pc' = "collect"
  /\ UNCHANGED <<facts, steps, late, files, report, published, repairs>>

\* collect-results.sh: what each log offers now, which may be nothing.
Collect(series, cpuOf) ==
  /\ pc = "collect" /\ pc' = "validate"
  /\ pipeline' = series /\ hosts' = cpuOf
  /\ UNCHANGED <<facts, steps, late, generator, verdict, report, published, repairs>>

\* validate-correctness.sh: it may also end without a verdict.
Validate(v) ==
  /\ pc = "validate" /\ pc' = "report"
  /\ verdict' = v
  /\ UNCHANGED <<facts, steps, late, generator, pipeline, hosts, report, published, repairs>>

\* generate-report.sh, from run-test.sh or again by hand.
GenerateReport ==
  /\ pc \in {"report", "done"} /\ pc' = "done"
  /\ report' = Render
  /\ UNCHANGED <<facts, steps, late, files, published, repairs>>

\* run-test.sh with COLLECT=0 or REPORT=0.
Skip ==
  /\ \/ pc = "collect" /\ pc' = "validate"
     \/ pc = "report" /\ pc' = "done"
  /\ UNCHANGED <<facts, steps, late, files, report, published, repairs>>

\* By hand: the hosts are collected again, or the run is validated again.
Repair(cpuOf, v) ==
  /\ pc = "done" /\ repairs < MaxRepairs
  /\ repairs' = repairs + 1
  /\ hosts' = cpuOf /\ verdict' = v
  /\ cpuOf = hosts \/ v = verdict
  /\ UNCHANGED <<pc, facts, steps, late, generator, pipeline, report, published>>

\* run-and-publish.sh refuses when there is no report.md.
Publish ==
  /\ pc = "done" /\ report # None
  /\ published' = Publication
  /\ UNCHANGED <<pc, facts, steps, late, files, report, repairs>>

Next ==
  \/ \E o \in Outcomes : LevelEnds(o)
  \/ GeneratorExits \/ GeneratorDies
  \/ \E series \in Series, cpuOf \in HostCases : Collect(series, cpuOf)
  \/ \E v \in {"PASS", "FAIL", None} : Validate(v)
  \/ GenerateReport \/ Skip \/ Publish
  \/ \E cpuOf \in HostCases, v \in {"PASS", "FAIL", None} : Repair(cpuOf, v)

Spec == Init /\ [][Next]_vars

-----------------------------------------------------------------------------
(* Properties. *)

\* The samples a trend may rest on: with eight or more, all but the first
\* quarter.
Steady ==
  LET rows == Catalogued(pipeline)
  IN {i \in rows : \/ Cardinality(rows) < 8
                   \/ 4 * Cardinality({j \in rows : j <= i}) > Cardinality(rows)}

\* "fitting a trend through it measures the warm-up" (report.py:411): a trend
\* that is named can be pointed at in the samples after the warm-up, and a
\* backlog that stands still there is called flat.
TrendIsReal ==
  LET Rises == \E a, b \in Steady : a < b /\ pipeline[a] < pipeline[b]
      Falls == \E a, b \in Steady : a < b /\ pipeline[a] > pipeline[b]
  IN report # None =>
       /\ report.trend = "GROWING" => Rises
       /\ report.trend = "draining" => Falls
       /\ Cardinality(Steady) >= 4 /\ ~Rises /\ ~Falls => report.trend = "flat"

\* "backlog flat" is claimed by four of the verdicts of bottleneck(): none of
\* them stands in a report whose backlog section says GROWING, but for a slope
\* of exactly 0.5; and compaction is only blamed where that section agrees.
ConstraintFollowsTrend ==
  report # None =>
    /\ report.constraint = "compaction" => report.trend = "GROWING"
    /\ report.trend = "GROWING" /\ AboveHalf(AnalyseBacklog(pipeline))
         => report.constraint \notin {"not reached", "CPU", "in-flight bound", "generator"}

\* The sustainable rate is the end of an unbroken run of levels that held: a
\* level above it that held by luck, or on late acks, does not count.
SustainableIsPrefix ==
  report # None /\ report.table # <<>> =>
    LET ss == report.table
        n == report.sustainable
    IN /\ \A i \in 1..n : Holds(ss[i])
       /\ n < Len(ss) => ~Holds(ss[n + 1])

\* The bottom line of SUMMARY.md judges totals, the table under it levels
\* (publish_report.py:145, :178), and an ack that comes late is booked to the
\* next level or to the totals alone.  They do not contradict each other: a
\* line that calls every step clean stands over levels without a rejection,
\* each of which got all its acks or the rest of them later, and next to a
\* report that blames no refusal and no shortfall; a line that sends the
\* reader to the table sends him to a level that was refused or fell short.
\* All this is about acks.  The "zero lost" of the line does not ask for a
\* verdict: DETAILED.md may say VERDICT: FAIL next to it, or have none.
SummaryFollowsLevels ==
  published # None =>
    LET ss == published.rows
        Refused == {i \in DOMAIN ss : ss[i].rejected > 0}
        Short == {i \in DOMAIN ss : ss[i].accepted < ss[i].offered}
        Over == {i \in DOMAIN ss : ss[i].accepted > ss[i].offered}
    IN /\ published.clean =>
            /\ Refused = {} /\ \A i \in Short : late > 0 \/ \E j \in Over : j > i
            /\ published.detail.constraint
                 \notin {"collector ingestion queue", "collector accept path"}
       /\ ~published.clean =>
            Refused \cup Short # {} \/ \A i \in DOMAIN ss : ss[i].offered = 0
=============================================================================
