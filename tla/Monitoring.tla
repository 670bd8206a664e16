----------------------------- MODULE Monitoring -----------------------------
(***************************************************************************)
(* The monitoring path end to end: the host agent beside the collector     *)
(* publishes state/health.json, the exporter reads it over ssh on its own  *)
(* schedule, and bench_collector_up with bench_scrape_ok is all that the   *)
(* alert rules of monitoring/prometheus/rules/pipeline.yml see.  The other *)
(* sources of the exporter are reduced: the compactor's host does not      *)
(* answer, the catalog and the lake do, and are asked in every poll, so    *)
(* that the ages of their values decide nothing and stand still.           *)
(***************************************************************************)
EXTENDS HostAgent

CONSTANTS MaxStateAge, Skew

ASSUME LimitAssumption == MaxStateAge \in Nat /\ Skew \in Int

VARIABLES epc, held, due, pollAge, tryAge, cacheAge, sample, up, tierUp,
          scrapeOk, major, majorSeen

X == INSTANCE PipelineExporter WITH
       mode <- "ssh", Modes <- {"ssh"}, Split <- FALSE, Interval <- 0,
       Formats <- {"flat"}, Cycles <- {0}, BadBodies <- TRUE

agentState    == vars
exporterState == <<epc, held, due, pollAge, tryAge, cacheAge, sample, up,
                   tierUp, scrapeOk, major, majorSeen>>
allVars       == <<agentState, exporterState>>

MonInit == Init /\ X!Init

\* The collector's /health body, as far as the exporter looks at it.
Body == [up |-> TRUE, format |-> "flat", major |-> 0]

\* health_snapshot(): what of the sample goes into the file.
Snapshot ==
  [age |-> file.age, ok |-> file.deps["health"],
   body |-> IF file.deps["health"] THEN Body ELSE None]

ReadCollector ==
  \/ file # None /\ X!ReadState("collector", Snapshot)
  \/ X!ReadFails("collector")

OtherSources ==
  /\ X!ReadFails("compactor") \/ X!ScrapeCatalog \/ X!ScrapeSlow("watermark")
     \/ X!ScrapeSlow("s3")
  /\ \A s \in {"catalog", "watermark", "s3"} : sample'[s] # "failed"

Exporter ==
  /\ X!BeginPoll \/ ReadCollector \/ X!Evaluate("collector") \/ OtherSources
     \/ X!WriteSample
  /\ UNCHANGED agentState

AgentStep == Agent /\ UNCHANGED exporterState
HostStep  == Environment /\ UNCHANGED exporterState
Clock     == /\ Tick /\ X!HeldOlder
             /\ UNCHANGED <<epc, due, pollAge, tryAge, cacheAge, sample, up,
                            tierUp, scrapeOk, major, majorSeen>>

MonNext == AgentStep \/ HostStep \/ Clock \/ Exporter

\* The exporter and a running agent are scheduled and clocks advance.  That
\* systemd brings a dead agent back is not assumed.
MonFairness ==
  /\ WF_allVars(AgentStep /\ apc # "off") /\ WF_allVars(Clock)
  /\ WF_allVars(Exporter)

MonSpec == MonInit /\ [][MonNext]_allVars /\ MonFairness

-----------------------------------------------------------------------------
\* When a scrape succeeds and shows the collector up, its health endpoint did
\* answer, no longer ago than the limit on the snapshot's age, corrected for
\* the skew of the two clocks, plus a check interval: slow checks, a killed
\* agent and a slow read cannot stretch this.
UpIsRecent ==
  [][epc = "collector" /\ epc' # "collector"
       /\ scrapeOk'["collector"] = 1 /\ up'["collector"] = 1
     => okAge["health"] <= MaxStateAge - Skew + CheckInterval - 1]_allVars

\* "a snapshot older than 90 s is reported as a scrape failure": when the
\* agent is dead for good, the collector's scrapes fail from some point on.
DeadAgentIsNoticed ==
  <>[](apc = "off") => <>[](scrapeOk["collector"] = 0)

\* A collector that is down for good is not shown as up by a good scrape for
\* ever, whatever its agent does.
DeadServiceIsNoticed ==
  <>[](svc = None) => <>[](up["collector"] = 0 \/ scrapeOk["collector"] = 0)

=============================================================================
