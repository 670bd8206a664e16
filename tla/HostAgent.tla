------------------------------ MODULE HostAgent ------------------------------
(***************************************************************************)
(* The host agent of bench/host_agent.py: a loop that samples the machine  *)
(* it runs on, probes the service and its dependencies on a slower clock,  *)
(* appends a row to a JSONL file and publishes a snapshot for the central  *)
(* exporter.  The service it watches can die, be restarted, and be         *)
(* restarted under a reused pid, between any two reads of /proc; the agent *)
(* itself can be killed and is restarted by systemd.                       *)
(*                                                                         *)
(* Time is kept as ages: an age grows with every Tick, up to Horizon.      *)
(***************************************************************************)
EXTENDS Integers

CONSTANTS
  None,           \* Python's None
  Pids,           \* process ids the service may get
  WrapperPids,    \* pids a process that matches the pattern and is not java may have
  Checks,         \* the configured probes: "health" and dependencies
  CheckInterval,  \* --check-interval
  Horizon,        \* bound: ages stop growing here
  MaxStarts,      \* bound: how often the service is started
  MaxCrashes      \* bound: how often the agent is killed

ASSUME ProcessAssumption ==
  /\ None \notin Int /\ Pids \subseteq Nat \ {0}
  /\ WrapperPids \subseteq Nat \ {0} /\ WrapperPids \cap Pids = {}
  /\ "health" \in Checks /\ MaxStarts \in Nat /\ MaxCrashes \in Nat

ASSUME ClockAssumption ==
  /\ CheckInterval \in Nat \ {0} /\ Horizon \in Nat
  /\ CheckInterval <= Horizon

VARIABLES
  svc,       \* the service's process [pid, start], or None
  starts,    \* how often the service was started; also its start_ticks
  wrapper,   \* the pid of the wrapper, which never restarts, or None
  answers,   \* answers[c]: would probe c succeed now?
  okAge,     \* okAge[c]: time since probe c would last have succeeded
  apc,       \* where the agent is
  crashes,   \* how often the agent was killed
  warm,      \* has the first sample been taken and discarded?
  pid,       \* self.pid
  pidStart,  \* self.pid_start_ticks
  restarts,  \* self.restarts
  prevProc,  \* the process self.prev_proc was read from, or None
  found,     \* local pid of _resolve_pid()
  deps,      \* deps[c]: is self._deps[c]["ok"] true?
  probing,   \* the dictionary of checks being built, partial
  depAge,    \* time since self._dep_last
  tsAge,     \* time since the current sample's "ts"
  row,       \* the sample being built: the process it shows and the one its
             \* CPU rate starts from, its restart count; and, as history, did
             \* the process change between the two reads of /proc?
  lastRow,   \* history: the sample before it
  file,      \* state/health.json: [age, deps], or None
  bootStart  \* history: starts when this agent was started

svcVars   == <<svc, starts, wrapper, answers>>
pidVars   == <<pid, pidStart, restarts, prevProc, found>>
depVars   == <<deps, probing, depAge>>
rowVars   == <<row, lastRow>>
agentVars == <<apc, crashes, warm, bootStart>>

vars == <<svcVars, okAge, pidVars, depVars, rowVars, agentVars, tsAge, file>>

NoRow == [process |-> None, prev |-> None, raced |-> FALSE, restarts |-> 0]
NoProbe == [c \in {} |-> FALSE]

\* The memory of a new Agent object; _dep_last = 0.0 makes every check due.
Forget ==
  /\ pid' = None /\ pidStart' = None /\ restarts' = 0 /\ prevProc' = None
  /\ found' = None
  /\ deps' = [c \in Checks |-> FALSE] /\ probing' = NoProbe
  /\ depAge' = Horizon /\ tsAge' = Horizon
  /\ row' = NoRow /\ lastRow' = NoRow /\ warm' = FALSE

Init ==
  /\ svc = None /\ starts = 0 /\ wrapper \in WrapperPids \cup {None}
  /\ answers = [c \in Checks |-> FALSE]
  /\ okAge = [c \in Checks |-> Horizon]
  /\ apc = "off" /\ crashes = 0 /\ bootStart = 0 /\ file = None
  /\ pid = None /\ pidStart = None /\ restarts = 0 /\ prevProc = None
  /\ found = None
  /\ deps = [c \in Checks |-> FALSE] /\ probing = NoProbe
  /\ depAge = Horizon /\ tsAge = Horizon
  /\ row = NoRow /\ lastRow = NoRow /\ warm = FALSE

-----------------------------------------------------------------------------
(* The machine around the agent                                            *)

Service == /\ UNCHANGED <<pidVars, depVars, rowVars, agentVars, tsAge, file>>

ServiceStarts ==
  /\ svc = None /\ starts < MaxStarts
  /\ \E p \in Pids : svc' = [pid |-> p, start |-> starts + 1]
  /\ starts' = starts + 1
  /\ UNCHANGED <<wrapper, answers, okAge>> /\ Service

ServiceDies ==
  /\ svc # None
  /\ svc' = None
  /\ answers' = [answers EXCEPT !["health"] = FALSE]
  /\ UNCHANGED <<starts, wrapper, okAge>> /\ Service

\* A dependency, or the health endpoint of a running service, comes or goes.
\* okAge is 0 as long as it answers.
AnswerChanges(c) ==
  /\ c = "health" => svc # None
  /\ answers' = [answers EXCEPT ![c] = ~@]
  /\ okAge' = [okAge EXCEPT ![c] = 0]
  /\ UNCHANGED <<svc, starts, wrapper>> /\ Service

Older(a) == IF a < Horizon THEN a + 1 ELSE Horizon

Tick ==
  /\ okAge' = [c \in Checks |-> IF answers[c] THEN 0 ELSE Older(okAge[c])]
  /\ depAge' = Older(depAge) /\ tsAge' = Older(tsAge)
  /\ file' = IF file = None THEN None ELSE [file EXCEPT !.age = Older(@)]
  /\ UNCHANGED <<svcVars, pidVars, deps, probing, rowVars, agentVars>>

-----------------------------------------------------------------------------
(* The agent                                                               *)

AgentStart ==
  /\ apc = "off"
  /\ apc' = "begin" /\ bootStart' = starts
  /\ Forget
  /\ UNCHANGED <<svcVars, okAge, crashes, file>>

\* Killed between any two steps; systemd starts it again.
AgentCrash ==
  /\ apc # "off" /\ crashes < MaxCrashes
  /\ apc' = "off" /\ crashes' = crashes + 1
  /\ Forget
  /\ UNCHANGED <<svcVars, okAge, bootStart, file>>

\* sample() reads both clocks first, then asks _refresh_deps() whether the
\* checks are due.
BeginSampleWhen(due) ==
  /\ apc = "begin"
  /\ tsAge' = 0
  /\ lastRow' = row
  /\ IF due
     THEN apc' = "probe" /\ depAge' = 0 /\ probing' = NoProbe
     ELSE apc' = "find" /\ UNCHANGED <<depAge, probing>>
  /\ UNCHANGED <<svcVars, okAge, pidVars, deps, row, crashes, warm,
                 bootStart, file>>

BeginSample_Late == BeginSampleWhen(depAge > CheckInterval)    \* mutant

BeginSample_Once == BeginSampleWhen(~warm)    \* mutant: probed once only

BeginSample == BeginSampleWhen(depAge >= CheckInterval)

\* check_health(), check_tcp(), check_s3(), systemd_unit(): each asks once
\* and turns any failure into ok = False.
Probe(c) ==
  /\ apc = "probe" /\ c \in Checks \ DOMAIN probing
  /\ probing' = [d \in DOMAIN probing \cup {c} |->
                   IF d = c THEN answers[c] ELSE probing[d]]
  /\ UNCHANGED <<svcVars, okAge, pidVars, deps, depAge, rowVars, agentVars,
                 tsAge, file>>

\* The finished dictionary replaces self._deps as a whole.
ProbesDone ==
  /\ apc = "probe" /\ DOMAIN probing = Checks
  /\ apc' = "find"
  /\ deps' = probing /\ probing' = NoProbe
  /\ UNCHANGED <<svcVars, okAge, pidVars, depAge, rowVars, crashes, warm,
                 bootStart, tsAge, file>>

\* pid_of(): the java process if there is one, else whatever else matches.
PidOf == IF svc # None THEN svc.pid ELSE wrapper

\* proc_stat(p): the start_ticks of the process that has pid p now, or None.
\* The wrapper never restarts; its start_ticks are 0.
ProcStat(p) ==
  IF p = None THEN None
  ELSE IF p = wrapper THEN 0
  ELSE IF svc # None /\ svc.pid = p THEN svc.start ELSE None

Find ==
  /\ apc = "find"
  /\ apc' = "resolve" /\ found' = PidOf
  /\ UNCHANGED <<svcVars, okAge, pid, pidStart, restarts, prevProc, depVars,
                 rowVars, crashes, warm, bootStart, tsAge, file>>

Replaced(p, s) == pid # None /\ (p # pid \/ s # pidStart)

ResolveAs(replaced) ==
  /\ apc = "resolve" /\ apc' = "proc"
  /\ LET s == ProcStat(found)
     IN IF s = None
        THEN pid' = None /\ UNCHANGED <<pidStart, restarts>>
        ELSE /\ restarts' = IF replaced THEN restarts + 1 ELSE restarts
             /\ pid' = found /\ pidStart' = s
  /\ UNCHANGED <<svcVars, okAge, prevProc, found, depVars, rowVars, crashes,
                 warm, bootStart, tsAge, file>>

\* Mutants: the first sighting counts as a restart; start_ticks are ignored.
Resolve_FirstCounts == ResolveAs(found # pid \/ ProcStat(found) # pidStart)
Resolve_PidOnly     == ResolveAs(pid # None /\ found # pid)

\* The rest of _resolve_pid(), after pid_of() has returned.
Resolve == ResolveAs(Replaced(found, ProcStat(found)))

\* The process section of sample(): /proc is read once more, by pid, and the
\* CPU rate is taken against prev_proc, which outlives a process that is gone.
ReadProc ==
  /\ apc = "proc" /\ apc' = "row"
  /\ LET s == ProcStat(pid)
     IN /\ row' = [process |-> s, prev |-> IF s = None THEN None ELSE prevProc,
                   raced |-> s # None /\ s # pidStart, restarts |-> restarts]
        /\ prevProc' = IF s = None THEN prevProc ELSE s
  /\ UNCHANGED <<svcVars, okAge, pid, pidStart, restarts, found, depVars,
                 lastRow, crashes, warm, bootStart, tsAge, file>>

\* The first sample is discarded; the others are appended to the JSONL file.
EmitRow ==
  /\ apc = "row"
  /\ apc' = IF warm THEN "publish" ELSE "begin"
  /\ warm' = TRUE
  /\ UNCHANGED <<svcVars, okAge, pidVars, depVars, rowVars, crashes,
                 bootStart, tsAge, file>>

\* write_atomic() fills health.json.tmp, which nobody reads.
WriteTemp ==
  /\ apc = "publish" /\ apc' = "rename"
  /\ UNCHANGED <<svcVars, okAge, pidVars, depVars, rowVars, crashes, warm,
                 bootStart, tsAge, file>>

\* os.replace(), then the sleep until the next sample.
Rename ==
  /\ apc = "rename" /\ apc' = "begin"
  /\ file' = [age |-> tsAge, deps |-> deps]
  /\ UNCHANGED <<svcVars, okAge, pidVars, depVars, rowVars, crashes, warm,
                 bootStart, tsAge>>

Agent ==
  \/ AgentStart \/ BeginSample \/ (\E c \in Checks : Probe(c)) \/ ProbesDone
  \/ Find \/ Resolve \/ ReadProc \/ EmitRow \/ WriteTemp \/ Rename

Environment ==
  \/ ServiceStarts \/ ServiceDies \/ (\E c \in Checks : AnswerChanges(c))
  \/ AgentCrash

Next == Agent \/ Environment \/ Tick

Spec == Init /\ [][Next]_vars

-----------------------------------------------------------------------------
(* Properties                                                              *)

Ages == 0..Horizon
Starts == 0..MaxStarts

RowType ==
  [process : Starts \cup {None}, prev : Starts \cup {None},
   raced : BOOLEAN, restarts : Nat]

FileType == [age : Ages, deps : [Checks -> BOOLEAN]]

TypeService ==
  /\ svc \in [pid : Pids, start : Starts] \cup {None} /\ starts \in Starts
  /\ wrapper \in WrapperPids \cup {None}
  /\ answers \in [Checks -> BOOLEAN] /\ okAge \in [Checks -> Ages]

TypeAgent ==
  /\ apc \in {"off", "begin", "probe", "find", "resolve", "proc", "row",
              "publish", "rename"}
  /\ crashes \in Nat /\ warm \in BOOLEAN /\ bootStart \in Starts
  /\ pid \in Nat \cup {None} /\ pidStart \in Starts \cup {None}
  /\ restarts \in Nat /\ prevProc \in Starts \cup {None}
  /\ found \in Nat \cup {None}

TypeSample ==
  /\ deps \in [Checks -> BOOLEAN]
  /\ DOMAIN probing \subseteq Checks
  /\ \A c \in DOMAIN probing : probing[c] \in BOOLEAN
  /\ depAge \in Ages /\ tsAge \in Ages
  /\ row \in RowType /\ lastRow \in RowType
  /\ file \in FileType \cup {None}

\* Every variable keeps its type.
TypeOK == TypeService /\ TypeAgent /\ TypeSample

\* A snapshot that says a probe succeeded is evidence: it did succeed, no
\* longer ago than the snapshot is old plus one check interval (less one),
\* however long the checks took, and whether or not the agent has been
\* killed since.  The age the exporter tests is that of "ts", not of the
\* checks, so this bound is what its 90 s limit really buys.  That a rename
\* is atomic is taken from the operating system.
SnapshotIsEvidence ==
  file # None =>
    \A c \in Checks : file.deps[c] => okAge[c] <= file.age + CheckInterval - 1

\* Every restart counted is one: there were at least as many starts of the
\* service while this agent was running.  A wrapper that matches the pattern
\* stands in for the service while it is gone, so that each death and each
\* start may then be counted, and no more.
RestartsAreReal ==
  restarts <= LET n == starts - bootStart
              IN IF wrapper = None THEN n ELSE 2 * n + 1

\* A process that took the place of the one in the sample before is counted
\* as a restart in the sample that shows it first, whether or not it has the
\* same pid, so a CPU rate taken across two processes can be told.  If it came
\* between the two reads of /proc of one sample, which are not atomic, the
\* count goes up in the next sample that shows a process.  A replacement seen
\* as an absence is not counted at all: of that the code makes no promise, and
\* the row before it, which shows no process, is excluded here.
ReplacementIsCounted ==
  apc \in {"row", "publish"} /\ row.process # None /\ lastRow.process # None =>
    /\ row.prev # row.process => row.restarts > lastRow.restarts \/ row.raced
    /\ lastRow.raced => row.restarts > lastRow.restarts

=============================================================================
