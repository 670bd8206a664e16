-------------------------- MODULE MonitoringProofs --------------------------
(***************************************************************************)
(* What is proved of the host agent, for every set of pids and probes,     *)
(* every check interval, and any number of starts, deaths and kills; and   *)
(* of the monitoring path end to end, for every age limit and skew of the  *)
(* clocks: the bound on the age of the evidence behind a collector that is *)
(* shown as up.                                                            *)
(***************************************************************************)
EXTENDS Monitoring, TLAPS

USE DEF svcVars, pidVars, depVars, rowVars, agentVars

\* What the agent does to its own memory and to the file.
AgentMoves == AgentStart \/ AgentCrash \/ BeginSample \/ ProbesDone \/ Find \/ Resolve
              \/ ReadProc \/ EmitRow \/ WriteTemp \/ Rename \/ (\E c \in Checks : Probe(c))

\* What changes around it.
WorldMoves == ServiceStarts \/ ServiceDies \/ (\E c \in Checks : AnswerChanges(c))

\* These, the clock, and nothing else.
LEMMA Moves == [Next]_vars => AgentMoves \/ WorldMoves \/ Tick \/ UNCHANGED vars
BY DEF Next, Agent, Environment, AgentMoves, WorldMoves

-----------------------------------------------------------------------------
(* Evidence                                                                *)

\* Ages are ages, and the dictionaries hold booleans.
AgeTypes ==
  /\ okAge \in [Checks -> Ages] /\ answers \in [Checks -> BOOLEAN]
  /\ depAge \in Ages /\ tsAge \in Ages
  /\ deps \in [Checks -> BOOLEAN]
  /\ DOMAIN probing \subseteq Checks /\ \A c \in DOMAIN probing : probing[c] \in BOOLEAN
  /\ probing = [c \in DOMAIN probing |-> probing[c]]
  /\ file \in FileType \cup {None}

Sampling == {"probe", "find", "resolve", "proc", "row", "publish", "rename"}

\* A probe is no older than the round it belongs to, a round is at most one
\* check interval older than the sample that shows it, and a snapshot is as
\* old as its sample.
EvidenceInv ==
  /\ AgeTypes
  /\ \A c \in Checks : answers[c] => okAge[c] = 0
  /\ \A c \in DOMAIN probing : probing[c] => okAge[c] <= depAge
  /\ apc # "probe" => \A c \in Checks : deps[c] => okAge[c] <= depAge
  /\ apc \in Sampling => depAge <= tsAge + CheckInterval - 1
  /\ file # None =>
       \A c \in Checks : file.deps[c] => okAge[c] <= file.age + CheckInterval - 1

\* An older age is an age, no older ages overtake, and all stop at Horizon.
LEMMA OlderAge ==
  ASSUME NEW a \in Ages
  PROVE  /\ Older(a) \in Ages
         /\ \A b \in Ages : a <= b => Older(a) <= Older(b)
         /\ \A b \in Ages : a <= b + CheckInterval - 1 => Older(a) <= Older(b) + CheckInterval - 1
BY ClockAssumption DEF Ages, Older

\* Nothing has been probed at the start.
LEMMA EvidenceStart == Init => EvidenceInv
BY ClockAssumption DEF Init, EvidenceInv, AgeTypes, Ages, NoProbe, Sampling

\* A new agent has no memory.
LEMMA EvidenceForget ==
  ASSUME EvidenceInv, AgentStart \/ AgentCrash
  PROVE  EvidenceInv'
<1>1. UNCHANGED <<okAge, answers, file>> /\ apc' \in {"off", "begin"}
    BY DEF AgentStart, AgentCrash
<1>2. deps' = [c \in Checks |-> FALSE] /\ probing' = NoProbe /\ depAge' = Horizon /\ tsAge' = Horizon
    BY DEF AgentStart, AgentCrash, Forget
<1>3. DOMAIN NoProbe = {} /\ NoProbe = [c \in DOMAIN NoProbe |-> NoProbe[c]]
    BY DEF NoProbe
<1>4. AgeTypes'
    BY <1>1, <1>2, <1>3, ClockAssumption DEF EvidenceInv, AgeTypes, Ages
<1> QED
    BY <1>1, <1>2, <1>3, <1>4 DEF EvidenceInv, Sampling

\* A sample begins: with checks that are young enough, or with a new round.
LEMMA EvidenceBegin ==
  ASSUME EvidenceInv, BeginSample
  PROVE  EvidenceInv'
<1>1. apc = "begin" /\ tsAge' = 0 /\ UNCHANGED <<okAge, answers, deps, file>>
    BY DEF BeginSample, BeginSampleWhen
<1>2. CASE depAge >= CheckInterval
  <2>1. apc' = "probe" /\ depAge' = 0 /\ probing' = NoProbe
      BY <1>2 DEF BeginSample, BeginSampleWhen
  <2> QED
      BY <1>1, <2>1, ClockAssumption DEF EvidenceInv, AgeTypes, Ages, NoProbe, Sampling
<1>3. CASE depAge < CheckInterval
  <2>1. apc' = "find" /\ UNCHANGED <<depAge, probing>>
      BY <1>3, ClockAssumption DEF BeginSample, BeginSampleWhen, EvidenceInv, AgeTypes, Ages
  <2> QED
      BY <1>1, <1>3, <2>1, ClockAssumption DEF EvidenceInv, AgeTypes, Ages, Sampling
<1> QED
    BY <1>2, <1>3, ClockAssumption DEF EvidenceInv, AgeTypes, Ages

\* A probe that succeeds does so now.
LEMMA EvidenceProbe ==
  ASSUME EvidenceInv, NEW c \in Checks, Probe(c)
  PROVE  EvidenceInv'
<1>1. apc' = apc /\ UNCHANGED <<okAge, answers, deps, depAge, tsAge, file>>
    BY DEF Probe
<1>2. probing' = [d \in DOMAIN probing \cup {c} |-> IF d = c THEN answers[c] ELSE probing[d]]
    BY DEF Probe
<1>3. DOMAIN probing' = DOMAIN probing \cup {c} /\ probing'[c] = answers[c]
      /\ \A d \in DOMAIN probing : d # c => probing'[d] = probing[d]
    BY <1>2
<1>4. probing' = [d \in DOMAIN probing' |-> probing'[d]]
    BY <1>2
<1>5. AgeTypes'
    BY <1>1, <1>3, <1>4 DEF EvidenceInv, AgeTypes
<1>6. \A d \in DOMAIN probing' : probing'[d] => okAge'[d] <= depAge'
    BY <1>1, <1>3, ClockAssumption DEF EvidenceInv, AgeTypes, Ages
<1> QED
    BY <1>1, <1>5, <1>6 DEF EvidenceInv

\* The dictionary is complete and replaces the old one.
LEMMA EvidenceDone ==
  ASSUME EvidenceInv, ProbesDone
  PROVE  EvidenceInv'
<1>1. apc = "probe" /\ apc' = "find" /\ deps' = probing /\ probing' = NoProbe
      /\ DOMAIN probing = Checks /\ UNCHANGED <<okAge, answers, depAge, tsAge, file>>
    BY DEF ProbesDone
<1>2. deps' \in [Checks -> BOOLEAN]
  <2>1. probing = [c \in Checks |-> probing[c]]
      BY <1>1 DEF EvidenceInv, AgeTypes
  <2> QED
      BY <1>1, <2>1 DEF EvidenceInv, AgeTypes
<1> QED
    BY <1>1, <1>2 DEF EvidenceInv, AgeTypes, NoProbe, Sampling

\* os.replace() publishes the checks with the age of the sample.
LEMMA EvidenceRename ==
  ASSUME EvidenceInv, Rename
  PROVE  EvidenceInv'
<1>1. apc = "rename" /\ apc' = "begin" /\ file' = [age |-> tsAge, deps |-> deps]
      /\ UNCHANGED <<okAge, answers, deps, probing, depAge, tsAge>>
    BY DEF Rename
<1>2. file' \in FileType
    BY <1>1 DEF EvidenceInv, AgeTypes, FileType
<1>3. \A c \in Checks : deps[c] => okAge[c] <= tsAge + CheckInterval - 1
    BY <1>1, ClockAssumption DEF EvidenceInv, AgeTypes, Ages, Sampling
<1> QED
    BY <1>1, <1>2, <1>3 DEF EvidenceInv, AgeTypes, Sampling

\* Time passes for all ages alike; a probe that would succeed stays at 0.
LEMMA EvidenceTick ==
  ASSUME EvidenceInv, Tick
  PROVE  EvidenceInv'
<1>1. UNCHANGED <<answers, deps, probing, apc>>
      /\ depAge' = Older(depAge) /\ tsAge' = Older(tsAge)
      /\ file' = (IF file = None THEN None ELSE [file EXCEPT !.age = Older(@)])
    BY DEF Tick
<1>2. \A c \in Checks : okAge'[c] = IF answers[c] THEN 0 ELSE Older(okAge[c])
    BY DEF Tick
<1>3. \A c \in Checks : okAge'[c] \in Ages /\ okAge'[c] <= Older(okAge[c])
    BY <1>2, OlderAge, ClockAssumption DEF EvidenceInv, AgeTypes, Ages
<1>4. okAge' \in [Checks -> Ages]
    BY <1>3 DEF Tick
<1>5. file' \in FileType \cup {None}
    BY <1>1, OlderAge DEF EvidenceInv, AgeTypes, FileType
<1>6. ASSUME NEW c \in Checks, NEW a \in Ages, okAge[c] <= a
      PROVE  okAge'[c] <= Older(a)
    BY <1>3, <1>6, OlderAge DEF EvidenceInv, AgeTypes, Ages
<1>7. ASSUME NEW c \in Checks, NEW a \in Ages, okAge[c] <= a + CheckInterval - 1
      PROVE  okAge'[c] <= Older(a) + CheckInterval - 1
    BY <1>3, <1>7, OlderAge, ClockAssumption DEF EvidenceInv, AgeTypes, Ages
<1>8. depAge' \in Ages /\ tsAge' \in Ages
    BY <1>1, OlderAge DEF EvidenceInv, AgeTypes
<1>9. AgeTypes'
    BY <1>1, <1>4, <1>5, <1>8 DEF EvidenceInv, AgeTypes
<1>10. \A c \in Checks : answers'[c] => okAge'[c] = 0
    BY <1>1, <1>2
<1>11. \A c \in DOMAIN probing' : probing'[c] => okAge'[c] <= depAge'
    BY <1>1, <1>6 DEF EvidenceInv, AgeTypes
<1>12. apc' # "probe" => \A c \in Checks : deps'[c] => okAge'[c] <= depAge'
    BY <1>1, <1>6 DEF EvidenceInv, AgeTypes
<1>13. apc' \in Sampling => depAge' <= tsAge' + CheckInterval - 1
    BY <1>1, OlderAge DEF EvidenceInv, AgeTypes
<1>14. ASSUME file' # None
       PROVE  \A c \in Checks : file'.deps[c] => okAge'[c] <= file'.age + CheckInterval - 1
  <2>1. file # None /\ file \in FileType /\ file.age \in Ages
      BY <1>1, <1>14 DEF EvidenceInv, AgeTypes, FileType
  <2>2. file' = [file EXCEPT !.age = Older(@)]
      BY <1>1, <2>1
  <2>3. file'.deps = file.deps /\ file'.age = Older(file.age)
      BY <2>1, <2>2 DEF FileType
  <2> QED
      BY <1>7, <2>1, <2>3 DEF EvidenceInv
<1> QED
    BY <1>9, <1>10, <1>11, <1>12, <1>13, <1>14 DEF EvidenceInv

\* What changes around the agent can only make a success more recent.
LEMMA EvidenceWorld ==
  ASSUME EvidenceInv, WorldMoves
  PROVE  EvidenceInv'
<1>1. UNCHANGED <<deps, probing, depAge, tsAge, apc, file>>
    BY DEF WorldMoves, ServiceStarts, ServiceDies, AnswerChanges, Service
<1>2. CASE ServiceStarts
  <2>1. UNCHANGED <<answers, okAge>>
      BY <1>2 DEF ServiceStarts
  <2> QED
      BY <1>1, <2>1 DEF EvidenceInv, AgeTypes
<1>3. CASE ServiceDies
  <2>1. okAge' = okAge /\ answers' = [answers EXCEPT !["health"] = FALSE]
      BY <1>3 DEF ServiceDies
  <2> QED
      BY <1>1, <2>1 DEF EvidenceInv, AgeTypes
<1>4. ASSUME NEW c \in Checks, AnswerChanges(c)
      PROVE  EvidenceInv'
  <2>1. okAge' = [okAge EXCEPT ![c] = 0] /\ answers' = [answers EXCEPT ![c] = ~@]
      BY <1>4 DEF AnswerChanges
  <2>2. okAge' \in [Checks -> Ages] /\ answers' \in [Checks -> BOOLEAN]
      BY <2>1, ClockAssumption DEF EvidenceInv, AgeTypes, Ages
  <2>3. \A d \in Checks : okAge'[d] = 0 \/ (d # c /\ okAge'[d] = okAge[d] /\ answers'[d] = answers[d])
      BY <2>1 DEF EvidenceInv, AgeTypes
  <2>4. okAge'[c] = 0
      BY <2>1 DEF EvidenceInv, AgeTypes
  <2>5. file # None => file.age + CheckInterval - 1 >= 0
      BY ClockAssumption DEF EvidenceInv, AgeTypes, FileType, Ages
  <2>6. depAge >= 0
      BY DEF EvidenceInv, AgeTypes, Ages
  <2> QED
      BY <1>1, <2>2, <2>3, <2>4, <2>5, <2>6 DEF EvidenceInv, AgeTypes
<1> QED
    BY <1>2, <1>3, <1>4 DEF WorldMoves

\* The invariant is inductive.
LEMMA EvidenceStep ==
  ASSUME EvidenceInv, [Next]_vars
  PROVE  EvidenceInv'
<1>1. CASE Find \/ Resolve \/ ReadProc \/ EmitRow \/ WriteTemp \/ UNCHANGED vars
  <2>1. UNCHANGED <<okAge, answers, deps, probing, depAge, tsAge, file>>
      BY <1>1 DEF Find, Resolve, ResolveAs, ReadProc, EmitRow, WriteTemp, vars
  <2>2. apc' = apc \/ (apc \in Sampling \ {"probe"} /\ apc' # "probe")
      BY <1>1 DEF Find, Resolve, ResolveAs, ReadProc, EmitRow, WriteTemp, vars, Sampling
  <2> QED
      BY <2>1, <2>2 DEF EvidenceInv, AgeTypes
<1> QED
    BY <1>1, Moves, EvidenceForget, EvidenceBegin, EvidenceProbe, EvidenceDone,
       EvidenceRename, EvidenceTick, EvidenceWorld
    DEF AgentMoves

\* For every check interval, however long checks take and whatever is killed:
\* a good probe in a snapshot succeeded within the snapshot's age plus one
\* check interval, and no snapshot is half written.
THEOREM SnapshotsAreEvidence == Spec => []SnapshotIsEvidence
<1>1. EvidenceInv => SnapshotIsEvidence
    BY DEF EvidenceInv, SnapshotIsEvidence
<1> QED
    BY <1>1, EvidenceStart, EvidenceStep, PTL DEF Spec

-----------------------------------------------------------------------------
(* Restarts                                                                *)

\* What n starts may add to the count: with a wrapper to stand in, each start
\* counts twice.
Worth(n) == IF wrapper = None THEN n ELSE 2 * n
StandIn  == IF wrapper = None THEN 0 ELSE 1

Since == starts - bootStart

MachineTypes ==
  /\ starts \in Nat /\ bootStart \in Nat /\ bootStart <= starts /\ restarts \in Nat
  /\ wrapper \in WrapperPids \cup {None}
  /\ svc # None => svc.pid \in Pids /\ svc.start = starts /\ starts > 0
  /\ found \in Pids \cup {wrapper, None}
  /\ pid \in Pids \cup {wrapper, None}

\* The process the agent knows is one that was started since it runs, and the
\* count is covered by the starts up to that one; while pid_of()'s answer is
\* in hand, a process that is still there is the one it named.
KnowsService ==
  pid \in Pids =>
    /\ pidStart \in Nat /\ bootStart <= pidStart /\ pidStart <= starts
    /\ restarts <= Worth(pidStart - bootStart)
    /\ svc # None /\ svc.start = pidStart =>
         pid = svc.pid /\ (apc = "resolve" => found = svc.pid)

\* The agent knows the wrapper, or nothing: a service that runs by now was
\* started after the last one that was counted.
KnowsNone ==
  pid \notin Pids =>
    /\ pid # None => pidStart = 0
    /\ svc = None => restarts <= Worth(Since) + StandIn
    /\ svc # None => restarts <= Worth(Since) - 1 \/ (pid = None /\ restarts = 0)

\* pid_of() named the wrapper because the service was gone: if it runs by now
\* it was started since.
FoundWrapper ==
  apc = "resolve" /\ found = wrapper /\ wrapper # None /\ svc # None => starts > bootStart

RestartInv == MachineTypes /\ KnowsService /\ KnowsNone /\ FoundWrapper

\* Pids, wrapper and None are told apart.
LEMMA PidKinds ==
  /\ None \notin Pids /\ None \notin WrapperPids /\ Pids \cap WrapperPids = {}
  /\ None \notin Nat
<1>1. None \notin Int /\ \A p \in Pids \cup WrapperPids : p \in Int
    BY ProcessAssumption
<1>2. Pids \cap WrapperPids = {}
    BY ProcessAssumption, Zenon
<1> QED
    BY <1>1, <1>2

\* Neither a service nor an agent runs at the start.
LEMMA RestartStart == Init => RestartInv
BY PidKinds
DEF Init, RestartInv, MachineTypes, KnowsService, KnowsNone, FoundWrapper, Worth, StandIn, Since

\* A new agent has counted nothing.
LEMMA RestartForget ==
  ASSUME RestartInv, AgentStart \/ AgentCrash
  PROVE  RestartInv'
<1>1. UNCHANGED <<svc, starts, wrapper>> /\ apc' \in {"begin", "off"}
      /\ pid' = None /\ restarts' = 0 /\ found' = None /\ bootStart' \in {bootStart, starts}
    BY DEF AgentStart, AgentCrash, Forget
<1>2. MachineTypes'
    BY <1>1 DEF RestartInv, MachineTypes
<1>3. KnowsService' /\ FoundWrapper'
    BY <1>1, PidKinds DEF KnowsService, FoundWrapper
<1>4. KnowsNone'
  <2>1. (Worth(Since) + StandIn)' >= 0
      BY <1>2 DEF MachineTypes, Worth, StandIn, Since
  <2> QED
      BY <1>1, <2>1 DEF KnowsNone
<1> QED
    BY <1>2, <1>3, <1>4 DEF RestartInv

\* A start makes room for what it may add; a death adds nothing.
LEMMA RestartWorld ==
  ASSUME RestartInv, WorldMoves
  PROVE  RestartInv'
<1>1. UNCHANGED <<wrapper, pid, pidStart, restarts, found, apc, bootStart>>
    BY DEF WorldMoves, ServiceStarts, ServiceDies, AnswerChanges, Service
<1>2. CASE ServiceStarts
  <2>1. svc = None /\ starts' = starts + 1 /\ \E p \in Pids : svc' = [pid |-> p, start |-> starts + 1]
      BY <1>2 DEF ServiceStarts
  <2>2. MachineTypes'
      BY <1>1, <2>1 DEF RestartInv, MachineTypes
  <2> QED
      BY <1>1, <2>1, <2>2
      DEF RestartInv, MachineTypes, KnowsService, KnowsNone, FoundWrapper, Worth, StandIn, Since
<1>3. CASE ServiceDies
  <2>1. svc' = None /\ starts' = starts
      BY <1>3 DEF ServiceDies
  <2> QED
      BY <1>1, <2>1
      DEF RestartInv, MachineTypes, KnowsService, KnowsNone, FoundWrapper, Worth, StandIn, Since
<1>4. ASSUME NEW c \in Checks, AnswerChanges(c) PROVE RestartInv'
  <2>1. UNCHANGED <<svc, starts>>
      BY <1>4 DEF AnswerChanges
  <2> QED
      BY <1>1, <2>1
      DEF RestartInv, MachineTypes, KnowsService, KnowsNone, FoundWrapper, Worth, StandIn, Since
<1> QED
    BY <1>2, <1>3, <1>4 DEF WorldMoves

\* pid_of() names the service when it runs.
LEMMA RestartFind ==
  ASSUME RestartInv, Find
  PROVE  RestartInv'
<1>1. UNCHANGED <<svc, starts, wrapper, pid, pidStart, restarts, bootStart>>
      /\ found' = (IF svc # None THEN svc.pid ELSE wrapper)
    BY DEF Find, PidOf
<1>2. MachineTypes'
    BY <1>1 DEF RestartInv, MachineTypes
<1>3. svc # None /\ wrapper # None => found' # wrapper
    BY <1>1, PidKinds DEF RestartInv, MachineTypes
<1> QED
    BY <1>1, <1>2, <1>3
    DEF RestartInv, MachineTypes, KnowsService, KnowsNone, FoundWrapper, Worth, StandIn, Since

\* A restart is counted when the process that answers is not the known one;
\* each count is covered by a later start, or by the wrapper standing in.
LEMMA RestartResolve ==
  ASSUME RestartInv, Resolve
  PROVE  RestartInv'
<1> DEFINE s == ProcStat(found)
<1>1. apc = "resolve" /\ apc' = "proc"
      /\ UNCHANGED <<svc, starts, wrapper, found, bootStart>>
    BY DEF Resolve, ResolveAs
<1>2. FoundWrapper'
    BY <1>1 DEF FoundWrapper
<1>3. CASE s = None
  <2>1. pid' = None /\ UNCHANGED <<pidStart, restarts>>
      BY <1>3 DEF Resolve, ResolveAs
  <2>2. MachineTypes'
      BY <1>1, <2>1 DEF RestartInv, MachineTypes
  <2>3. svc # None => found # svc.pid
      BY <1>3, PidKinds DEF ProcStat, RestartInv, MachineTypes
  <2>4. KnowsNone'
    <3>1. CASE pid \in Pids
        BY <1>1, <2>1, <2>3, <3>1
        DEF RestartInv, MachineTypes, KnowsService, KnowsNone, Worth, StandIn, Since
    <3>2. CASE pid \notin Pids
        BY <1>1, <2>1, <3>2 DEF RestartInv, MachineTypes, KnowsNone, Worth, StandIn, Since
    <3> QED
        BY <3>1, <3>2
  <2>5. KnowsService'
      BY <2>1, PidKinds DEF KnowsService
  <2> QED
      BY <1>2, <2>2, <2>4, <2>5 DEF RestartInv
<1>4. CASE s # None
  <2>1. pid' = found /\ pidStart' = s
        /\ restarts' = IF pid # None /\ (found # pid \/ s # pidStart) THEN restarts + 1 ELSE restarts
      BY <1>4 DEF Resolve, ResolveAs, Replaced
  <2>2. \/ found = wrapper /\ wrapper # None /\ s = 0
        \/ found \in Pids /\ found # wrapper /\ svc # None /\ found = svc.pid /\ s = starts
      BY <1>4 DEF ProcStat, RestartInv, MachineTypes
  <2>3. MachineTypes'
      BY <1>1, <2>1, <2>2 DEF RestartInv, MachineTypes
  <2>4. CASE found \in Pids /\ svc # None /\ found = svc.pid /\ s = starts
    <3>1. CASE pid \in Pids
      <4>1. pidStart \in Nat /\ pidStart <= starts /\ bootStart <= pidStart
            /\ restarts <= Worth(pidStart - bootStart)
          BY <3>1 DEF RestartInv, KnowsService
      <4>2. pidStart = starts => found = pid
          BY <2>4, <3>1 DEF RestartInv, MachineTypes, KnowsService
      <4>3. restarts' <= Worth(starts - bootStart)
          BY <2>1, <2>4, <4>1, <4>2 DEF RestartInv, MachineTypes, Worth
      <4> QED
          BY <1>1, <1>2, <2>1, <2>3, <2>4, <4>3
          DEF RestartInv, MachineTypes, KnowsService, KnowsNone, Worth
    <3>2. CASE pid \notin Pids
      <4>1. restarts' <= Worth(starts - bootStart)
          BY <2>1, <2>4, <3>2 DEF RestartInv, MachineTypes, KnowsNone, Worth, Since
      <4> QED
          BY <1>1, <1>2, <2>1, <2>3, <2>4, <4>1
          DEF RestartInv, MachineTypes, KnowsService, KnowsNone, Worth
    <3> QED
        BY <3>1, <3>2
  <2>5. CASE found = wrapper /\ wrapper # None /\ s = 0
    <3>1. found \notin Pids
        BY <2>5, PidKinds DEF RestartInv, MachineTypes
    <3>2. CASE pid \in Pids
      <4>1. pidStart \in Nat /\ pidStart <= starts /\ bootStart <= pidStart
            /\ restarts <= 2 * (pidStart - bootStart)
          BY <2>5, <3>2 DEF RestartInv, KnowsService, Worth
      <4>2. svc # None => pidStart < starts
          BY <1>1, <2>5, <3>1, <3>2, <4>1 DEF RestartInv, MachineTypes, KnowsService
      <4>3. restarts' <= restarts + 1
          BY <2>1 DEF RestartInv, MachineTypes
      <4>4. KnowsNone'
          BY <1>1, <2>1, <2>3, <2>5, <4>1, <4>2, <4>3
          DEF RestartInv, MachineTypes, KnowsNone, Worth, StandIn, Since
      <4> QED
          BY <1>2, <2>1, <2>3, <3>1, <4>4 DEF RestartInv, KnowsService
    <3>3. CASE pid \notin Pids
      <4>1. restarts' = restarts
          BY <2>1, <2>5, <3>3 DEF RestartInv, MachineTypes, KnowsNone
      <4>2. KnowsNone'
          BY <1>1, <2>1, <2>3, <2>5, <3>3, <4>1
          DEF RestartInv, MachineTypes, KnowsNone, FoundWrapper, Worth, StandIn, Since
      <4> QED
          BY <1>2, <2>1, <2>3, <3>1, <4>2 DEF RestartInv, KnowsService
    <3> QED
        BY <3>2, <3>3
  <2> QED
      BY <2>2, <2>4, <2>5
<1> QED
    BY <1>3, <1>4

\* The invariant is inductive.
LEMMA RestartStep ==
  ASSUME RestartInv, [Next]_vars
  PROVE  RestartInv'
<1>1. CASE \/ BeginSample \/ ProbesDone \/ ReadProc \/ EmitRow \/ WriteTemp \/ Rename
           \/ (\E c \in Checks : Probe(c)) \/ Tick \/ UNCHANGED vars
  <2>1. UNCHANGED <<svc, starts, wrapper, pid, pidStart, restarts, found, bootStart>>
        /\ (apc' = apc \/ apc' # "resolve")
      BY <1>1 DEF BeginSample, BeginSampleWhen, ProbesDone, ReadProc, EmitRow, WriteTemp,
                  Rename, Probe, Tick, vars
  <2> QED
      BY <2>1
      DEF RestartInv, MachineTypes, KnowsService, KnowsNone, FoundWrapper, Worth, StandIn, Since
<1> QED
    BY <1>1, Moves, RestartForget, RestartWorld, RestartFind, RestartResolve DEF AgentMoves

\* For every run: restarts are never counted that did not happen, but for the
\* wrapper that stands in for the service.
THEOREM CountedRestartsAreReal == Spec => []RestartsAreReal
<1>1. RestartInv => RestartsAreReal
  <2> SUFFICES ASSUME RestartInv PROVE RestartsAreReal
      OBVIOUS
  <2>1. CASE pid \in Pids
      BY <2>1 DEF RestartInv, MachineTypes, KnowsService, RestartsAreReal, Worth
  <2>2. CASE pid \notin Pids
      BY <2>2 DEF RestartInv, MachineTypes, KnowsNone, RestartsAreReal, Worth, StandIn, Since
  <2> QED
      BY <2>1, <2>2
<1> QED
    BY <1>1, RestartStart, RestartStep, PTL DEF Spec

-----------------------------------------------------------------------------
(* Types                                                                   *)

\* /proc answers with the start of a process, or not at all.
LEMMA ProcStatType ==
  ASSUME TypeService, NEW p
  PROVE  ProcStat(p) \in Starts \cup {None}
BY ProcessAssumption DEF TypeService, ProcStat, Starts

\* Every variable has its type at the start.
LEMMA TypeStart == Init => TypeOK
<1> SUFFICES ASSUME Init PROVE TypeOK
    OBVIOUS
<1>1. NoRow \in RowType /\ DOMAIN NoProbe = {}
    BY ProcessAssumption DEF NoRow, RowType, Starts, NoProbe
<1>2. TypeService
  <2>1. 0 \in Starts /\ Horizon \in Ages
      BY ProcessAssumption, ClockAssumption DEF Starts, Ages
  <2> QED
      BY <2>1 DEF Init, TypeService
<1>3. TypeAgent
  <2>1. 0 \in Starts
      BY ProcessAssumption DEF Starts
  <2>2. crashes \in Nat /\ restarts \in Nat
      BY DEF Init
  <2>3. warm \in BOOLEAN /\ apc = "off" /\ bootStart \in Starts
      BY <2>1, Zenon DEF Init
  <2>4. pid = None /\ pidStart = None /\ prevProc = None /\ found = None
      BY DEF Init
  <2> QED
      BY <2>2, <2>3, <2>4, Zenon DEF TypeAgent
<1>4. TypeSample
    BY <1>1, ClockAssumption DEF Init, TypeSample, Ages
<1> QED
    BY <1>2, <1>3, <1>4 DEF TypeOK

\* The types are kept around the agent.
LEMMA TypeWorld ==
  ASSUME TypeOK, WorldMoves
  PROVE  TypeOK'
<1>1. UNCHANGED <<pidVars, depVars, rowVars, agentVars, tsAge, file>>
    BY DEF WorldMoves, ServiceStarts, ServiceDies, AnswerChanges, Service
<1>2. TypeAgent' /\ TypeSample'
    BY <1>1 DEF TypeOK, TypeAgent, TypeSample
<1>3. CASE ServiceStarts
  <2>1. \E p \in Pids : svc' = [pid |-> p, start |-> starts + 1]
      BY <1>3 DEF ServiceStarts
  <2>2. starts + 1 \in Starts
      BY <1>3, ProcessAssumption DEF ServiceStarts, TypeOK, TypeService, Starts
  <2>3. TypeService'
      BY <1>3, <2>1, <2>2 DEF ServiceStarts, TypeOK, TypeService
  <2> QED
      BY <1>2, <2>3 DEF TypeOK
<1>4. CASE ServiceDies
    BY <1>2, <1>4 DEF ServiceDies, TypeOK, TypeService
<1>5. ASSUME NEW c \in Checks, AnswerChanges(c) PROVE TypeOK'
  <2>1. TypeService'
      BY <1>5, ClockAssumption DEF AnswerChanges, TypeOK, TypeService, Ages
  <2> QED
      BY <1>2, <2>1 DEF TypeOK
<1> QED
    BY <1>3, <1>4, <1>5 DEF WorldMoves

\* The types are kept by the clock.
LEMMA TypeTick ==
  ASSUME TypeOK, Tick
  PROVE  TypeOK'
<1>1. TypeAgent'
    BY DEF Tick, TypeOK, TypeAgent
<1>2. okAge' \in [Checks -> Ages]
    BY OlderAge, ClockAssumption DEF Tick, TypeOK, TypeService, Ages
<1>3. file' \in FileType \cup {None} /\ depAge' \in Ages /\ tsAge' \in Ages
    BY OlderAge DEF Tick, TypeOK, TypeSample, FileType
<1> QED
    BY <1>1, <1>2, <1>3 DEF Tick, TypeOK, TypeService, TypeSample

\* The types are kept by the agent.
LEMMA TypeMoves ==
  ASSUME TypeOK, EvidenceInv, AgentMoves
  PROVE  TypeOK'
<1> USE DEF TypeOK
<1>1. UNCHANGED svcVars /\ UNCHANGED okAge
    BY DEF AgentMoves, AgentStart, AgentCrash, BeginSample, BeginSampleWhen, ProbesDone, Find,
           Resolve, ResolveAs, ReadProc, EmitRow, WriteTemp, Rename, Probe
<1>2. TypeService'
    BY <1>1 DEF TypeService
<1>3. NoRow \in RowType /\ DOMAIN NoProbe = {} /\ 0 \in Ages /\ Horizon \in Ages
    BY ProcessAssumption, ClockAssumption DEF NoRow, RowType, Starts, NoProbe, Ages
<1>4. CASE AgentStart \/ AgentCrash
  <2>0. /\ pid' = None /\ pidStart' = None /\ restarts' = 0 /\ prevProc' = None /\ found' = None
        /\ warm' = FALSE /\ apc' \in {"off", "begin"}
        /\ crashes' \in {crashes, crashes + 1} /\ bootStart' \in {bootStart, starts}
      BY <1>4 DEF AgentStart, AgentCrash, Forget
  <2>1. TypeAgent'
    <3>1. crashes' \in Nat /\ restarts' \in Nat
        BY <2>0 DEF TypeAgent
    <3>2. bootStart' \in Starts
        BY <2>0 DEF TypeAgent, TypeService
    <3>3. warm' \in BOOLEAN
        BY <2>0, Zenon
    <3>4. apc' \in {"off", "begin", "probe", "find", "resolve", "proc", "row", "publish",
                     "rename"}
        BY <2>0
    <3> QED
        BY <2>0, <3>1, <3>2, <3>3, <3>4, Zenon DEF TypeAgent
  <2>2. deps' = [c \in Checks |-> FALSE] /\ probing' = NoProbe /\ depAge' = Horizon
        /\ tsAge' = Horizon /\ row' = NoRow /\ lastRow' = NoRow /\ file' = file
      BY <1>4 DEF AgentStart, AgentCrash, Forget
  <2>3. TypeSample'
      BY <1>3, <2>2 DEF TypeSample
  <2> QED
      BY <1>2, <2>1, <2>3
<1>5. CASE BeginSample
  <2>1. TypeAgent'
      BY <1>5 DEF BeginSample, BeginSampleWhen, TypeAgent
  <2>2. TypeSample'
      BY <1>3, <1>5 DEF BeginSample, BeginSampleWhen, TypeSample
  <2> QED
      BY <1>2, <2>1, <2>2
<1>6. CASE EmitRow \/ WriteTemp
  <2>1. TypeAgent'
      BY <1>6 DEF EmitRow, WriteTemp, TypeAgent
  <2>2. TypeSample'
      BY <1>6 DEF EmitRow, WriteTemp, TypeSample
  <2> QED
      BY <1>2, <2>1, <2>2
<1>7. CASE Find
  <2>1. found' \in Nat \cup {None}
      BY <1>7, ProcessAssumption DEF Find, PidOf, TypeService
  <2>2. TypeAgent'
      BY <1>7, <2>1 DEF Find, TypeAgent
  <2>3. TypeSample'
      BY <1>7 DEF Find, TypeSample
  <2> QED
      BY <1>2, <2>2, <2>3
<1>8. CASE Resolve
  <2>1. ProcStat(found) \in Starts \cup {None}
      BY ProcStatType
  <2>2. TypeAgent'
      BY <1>8, <2>1 DEF Resolve, ResolveAs, TypeAgent
  <2>3. TypeSample'
      BY <1>8 DEF Resolve, ResolveAs, TypeSample
  <2> QED
      BY <1>2, <2>2, <2>3
<1>9. CASE ReadProc
  <2>1. ProcStat(pid) \in Starts \cup {None}
      BY ProcStatType
  <2>2. TypeAgent'
      BY <1>9, <2>1 DEF ReadProc, TypeAgent
  <2>3. row' \in RowType
      BY <1>9, <2>1 DEF ReadProc, TypeAgent, RowType
  <2>4. TypeSample'
      BY <1>9, <2>3 DEF ReadProc, TypeSample
  <2> QED
      BY <1>2, <2>2, <2>4
<1>10. CASE Rename
  <2>1. file' \in FileType
      BY <1>10 DEF Rename, TypeSample, FileType
  <2>2. TypeAgent'
      BY <1>10 DEF Rename, TypeAgent
  <2>3. TypeSample'
      BY <1>10, <2>1 DEF Rename, TypeSample
  <2> QED
      BY <1>2, <2>2, <2>3
<1>11. ASSUME NEW c \in Checks, Probe(c) PROVE TypeOK'
  <2>1. probing' = [d \in DOMAIN probing \cup {c} |-> IF d = c THEN answers[c] ELSE probing[d]]
        /\ UNCHANGED <<deps, depAge, rowVars, agentVars, tsAge, file, pidVars>>
      BY <1>11 DEF Probe
  <2>2. DOMAIN probing' \subseteq Checks /\ \A d \in DOMAIN probing' : probing'[d] \in BOOLEAN
      BY <2>1 DEF TypeSample, TypeService
  <2>3. TypeAgent' /\ TypeSample'
      BY <2>1, <2>2 DEF TypeAgent, TypeSample
  <2> QED
      BY <1>2, <2>3
<1>12. CASE ProbesDone
  <2>0. probing \in [Checks -> BOOLEAN]
    <3>1. probing = [c \in Checks |-> probing[c]] /\ \A c \in Checks : probing[c] \in BOOLEAN
        BY <1>12 DEF ProbesDone, EvidenceInv, AgeTypes
    <3> QED
        BY <3>1
  <2>1. TypeAgent'
      BY <1>12 DEF ProbesDone, TypeAgent
  <2>2. TypeSample'
      BY <1>3, <1>12, <2>0 DEF ProbesDone, TypeSample
  <2> QED
      BY <1>2, <2>1, <2>2
<1> QED
    BY <1>4, <1>5, <1>6, <1>7, <1>8, <1>9, <1>10, <1>11, <1>12 DEF AgentMoves

\* For every instance: every variable keeps its type.
THEOREM HostAgentTypeCorrect == Spec => []TypeOK
<1>1. TypeOK /\ EvidenceInv /\ [Next]_vars => TypeOK'
  <2>1. TypeOK /\ UNCHANGED vars => TypeOK'
      BY DEF TypeOK, TypeService, TypeAgent, TypeSample, vars
  <2> QED
      BY <2>1, Moves, TypeWorld, TypeTick, TypeMoves
<1> QED
    BY <1>1, TypeStart, EvidenceStart, EvidenceStep, PTL DEF Spec

-----------------------------------------------------------------------------
(* Rates                                                                   *)

\* A row shows a process that had been started by then, or none.
RowTypes ==
  \A r \in {row, lastRow} :
    /\ r.restarts \in Nat
    /\ r.process # None => r.process \in Nat /\ r.process <= starts

\* What the agent still knows of row r: its count and its process, which has
\* taken the place of the one it resolved if the reads of /proc raced.
Remembered(r) ==
  /\ r.restarts = restarts
  /\ r.process # None =>
       /\ pid # None /\ prevProc = r.process
       /\ IF r.raced THEN pid \in Pids /\ pidStart < r.process
          ELSE pidStart = r.process

\* A process other than the one that row r shows, or one behind a race, counts
\* as a restart.
Counted(r, process, count) == r.raced \/ process # r.process => count > r.restarts

\* The agent remembers its last row until the pid is resolved; what it has
\* resolved then, and shows in the new row, is counted against that row.
RowInv ==
  /\ RowTypes
  /\ apc \in {"off", "begin", "row", "publish", "rename"} => Remembered(row)
  /\ apc \in {"probe", "find", "resolve"} => Remembered(lastRow)
  /\ apc = "proc" /\ lastRow.process # None =>
       prevProc = lastRow.process /\ (pid # None => Counted(lastRow, pidStart, restarts))
  /\ apc \in {"row", "publish"} /\ lastRow.process # None /\ row.process # None =>
       /\ row.prev = lastRow.process
       /\ lastRow.raced => row.restarts > lastRow.restarts
       /\ ~row.raced => Counted(lastRow, row.process, row.restarts)

\* Nothing has been seen at the start.
LEMMA RowStart == Init => RowInv
BY DEF Init, RowInv, RowTypes, Remembered, NoRow

\* The start_ticks /proc shows are those of the wrapper, which are 0, or those
\* of the latest start.
LEMMA SeenInProc ==
  ASSUME RestartInv, NEW p \in Pids \cup {wrapper, None}, ProcStat(p) # None
  PROVE  \/ p = wrapper /\ p \notin Pids /\ p # None /\ ProcStat(p) = 0
         \/ p \in Pids /\ p # None /\ ProcStat(p) = starts
BY PidKinds DEF ProcStat, RestartInv, MachineTypes

\* A process resolved in place of the one the row before shows is counted: it
\* has another pid or other start_ticks than the agent remembers, also when
\* what it remembers was already gone when the row was read.
LEMMA RowResolve ==
  ASSUME RowInv, RestartInv, Resolve
  PROVE  RowInv'
<1>1. apc = "resolve" /\ apc' = "proc" /\ UNCHANGED <<row, lastRow, prevProc, starts>>
    BY DEF Resolve, ResolveAs
<1>2. RowTypes /\ Remembered(lastRow)
    BY <1>1 DEF RowInv
<1>3. RowTypes'
    BY <1>1, <1>2 DEF RowTypes
<1>4. ASSUME lastRow.process # None, pid' # None
      PROVE  Counted(lastRow, pidStart', restarts')
  <2>1. pid' = found /\ pidStart' = ProcStat(found) /\ ProcStat(found) # None
        /\ restarts' = IF Replaced(found, ProcStat(found)) THEN restarts + 1 ELSE restarts
      BY <1>4 DEF Resolve, ResolveAs
  <2>2. pid # None /\ restarts = lastRow.restarts /\ restarts \in Nat
      BY <1>2, <1>4 DEF Remembered, RowTypes
  <2>3. Replaced(found, ProcStat(found)) => restarts' > lastRow.restarts
      BY <2>1, <2>2
  <2>4. CASE lastRow.raced
    <3>1. pid \in Pids /\ pidStart < lastRow.process
          /\ lastRow.process \in Nat /\ lastRow.process <= starts
        BY <1>2, <1>4, <2>4 DEF Remembered, RowTypes
    <3>2. found \in Pids \cup {wrapper, None} /\ starts \in Nat
        BY DEF RestartInv, MachineTypes
    <3>3. pidStart \in Nat
        BY <3>1 DEF RestartInv, KnowsService
    <3>4. found # pid \/ ProcStat(found) # pidStart
        BY <2>1, <3>1, <3>2, <3>3, SeenInProc
    <3> QED
        BY <2>2, <2>3, <3>4 DEF Replaced, Counted
  <2>5. CASE ~lastRow.raced
    <3>1. pidStart = lastRow.process
        BY <1>2, <1>4, <2>5 DEF Remembered
    <3> QED
        BY <2>1, <2>2, <2>3, <2>5, <3>1 DEF Replaced, Counted
  <2> QED
      BY <2>4, <2>5
<1>5. lastRow'.process # None => prevProc' = lastRow'.process
    BY <1>1, <1>2 DEF Remembered
<1>6. lastRow'.process # None /\ pid' # None => Counted(lastRow', pidStart', restarts')
    BY <1>1, <1>4
<1>7. Counted(lastRow, pidStart, restarts)' = Counted(lastRow', pidStart', restarts')
    BY DEF Counted
<1> QED
    BY <1>1, <1>3, <1>5, <1>6, <1>7 DEF RowInv

\* The row shows the process that was resolved, or one that took its pid.
LEMMA RowRead ==
  ASSUME RowInv, RestartInv, ReadProc
  PROVE  RowInv'
<1> DEFINE s == ProcStat(pid)
<1>1. apc = "proc" /\ apc' = "row"
      /\ UNCHANGED <<pid, pidStart, restarts, lastRow, starts>>
      /\ row' = [process |-> s, prev |-> IF s = None THEN None ELSE prevProc,
                 raced |-> s # None /\ s # pidStart, restarts |-> restarts]
      /\ prevProc' = IF s = None THEN prevProc ELSE s
    BY DEF ReadProc
<1>2. pid \in Pids \cup {wrapper, None} /\ starts \in Nat /\ restarts \in Nat
    BY DEF RestartInv, MachineTypes
<1>3. s # None => \/ pid \notin Pids /\ pid # None /\ s = 0
                  \/ pid \in Pids /\ pid # None /\ s = starts
    BY <1>2, SeenInProc
<1>4. s # None => s \in Nat /\ s <= starts
    BY <1>2, <1>3
<1>5. s # None => pid # None /\ IF s # pidStart THEN pid \in Pids /\ pidStart < s
                                ELSE pidStart = s
  <2>1. CASE pid \in Pids
      BY <1>2, <1>3, <2>1 DEF RestartInv, KnowsService
  <2>2. CASE pid \notin Pids
      BY <1>3, <2>2 DEF RestartInv, KnowsNone
  <2> QED
      BY <2>1, <2>2
<1> HIDE DEF s
<1>6. RowTypes'
    BY <1>1, <1>2, <1>4 DEF RowInv, RowTypes
<1>7. Remembered(row)'
    BY <1>1, <1>5 DEF Remembered
<1>8. ASSUME lastRow'.process # None, row'.process # None
      PROVE  /\ row'.prev = lastRow'.process
             /\ lastRow'.raced => row'.restarts > lastRow'.restarts
             /\ ~row'.raced => Counted(lastRow, row.process, row.restarts)'
  <2>1. s # None /\ pid # None
      BY <1>1, <1>5, <1>8
  <2>2. prevProc = lastRow.process /\ Counted(lastRow, pidStart, restarts)
      BY <1>1, <1>8, <2>1 DEF RowInv
  <2> QED
      BY <1>1, <2>1, <2>2 DEF Counted
<1> QED
    BY <1>1, <1>6, <1>7, <1>8 DEF RowInv

\* The invariant is inductive.
LEMMA RowStep ==
  ASSUME RowInv, RestartInv, [Next]_vars
  PROVE  RowInv'
<1>1. CASE AgentStart \/ AgentCrash
    BY <1>1 DEF AgentStart, AgentCrash, Forget, RowInv, RowTypes, Remembered, NoRow
<1>2. CASE BeginSample
    BY <1>2 DEF BeginSample, BeginSampleWhen, RowInv, RowTypes, Remembered
<1>3. CASE Find \/ ProbesDone \/ EmitRow \/ WriteTemp \/ Rename
    BY <1>3 DEF Find, ProbesDone, EmitRow, WriteTemp, Rename, RowInv, RowTypes, Remembered, Counted
<1>4. CASE (\E c \in Checks : Probe(c)) \/ WorldMoves \/ Tick \/ UNCHANGED vars
  <2>1. UNCHANGED <<row, lastRow, restarts, apc, pid, pidStart, prevProc>>
        /\ starts' \in {starts, starts + 1}
      BY <1>4 DEF Probe, WorldMoves, ServiceStarts, ServiceDies, AnswerChanges, Service, Tick, vars
  <2>2. starts \in Nat
      BY DEF RestartInv, MachineTypes
  <2>3. RowTypes'
      BY <2>1, <2>2 DEF RowInv, RowTypes
  <2> QED
      BY <2>1, <2>3 DEF RowInv, Remembered, Counted
<1> QED
    BY <1>1, <1>2, <1>3, <1>4, Moves, RowResolve, RowRead DEF AgentMoves

\* For every run, whatever pids are reused: a process that took the place of
\* the one in the row before is counted in the row that shows it, or in the
\* next one that shows a process if it came between two reads of /proc.
THEOREM ReplacementsAreCounted == Spec => []ReplacementIsCounted
<1>1. RowInv => ReplacementIsCounted
    BY DEF RowInv, Counted, ReplacementIsCounted
<1> QED
    BY <1>1, RowStart, RowStep, RestartStart, RestartStep, PTL DEF Spec

-----------------------------------------------------------------------------
(* The monitoring path.  EvidenceInv says what a published snapshot is     *)
(* worth; HeldInv carries that over to the snapshot the exporter has read  *)
(* and not yet looked at.                                                  *)

\* The domains of the gauges the property reads, and the shape of a snapshot.
GaugeTypes ==
  /\ "collector" \in DOMAIN up /\ "collector" \in DOMAIN scrapeOk
  /\ held \in [age : Ages, ok : BOOLEAN, body : {Body, None}] \cup {None}

\* A snapshot in hand that shows the probe succeeding is as good as the file
\* it was read from, and it is in hand only while the collector is polled.
HeldInv ==
  /\ GaugeTypes
  /\ held # None =>
       (held.ok => okAge["health"] <= held.age + CheckInterval - 1)

MonInv == EvidenceInv /\ HeldInv

LEMMA HealthIsChecked == "health" \in Checks
  BY ProcessAssumption

\* A record is not None.
LEMMA SnapshotIsNotNone ==
  ASSUME EvidenceInv, file # None
  PROVE  /\ Snapshot \in [age : Ages, ok : BOOLEAN, body : {Body, None}]
         /\ Snapshot.ok => okAge["health"] <= Snapshot.age + CheckInterval - 1
<1>1. file \in FileType
  BY DEF EvidenceInv, AgeTypes
<1>2. file.age \in Ages /\ file.deps["health"] \in BOOLEAN
  BY <1>1, HealthIsChecked DEF FileType
<1>3. Snapshot.ok = file.deps["health"] /\ Snapshot.age = file.age
  BY DEF Snapshot
<1>4. file.deps["health"] => okAge["health"] <= file.age + CheckInterval - 1
  BY HealthIsChecked DEF EvidenceInv
<1>5. Snapshot \in [age : Ages, ok : BOOLEAN, body : {Body, None}]
  BY <1>2 DEF Snapshot
<1>6. Snapshot.ok => okAge["health"] <= Snapshot.age + CheckInterval - 1
  BY <1>3, <1>4
<1> QED
  BY <1>5, <1>6

LEMMA MonStart == MonInit => MonInv
<1> SUFFICES ASSUME MonInit PROVE MonInv
  OBVIOUS
<1>1. EvidenceInv
  BY EvidenceStart DEF MonInit
<1>2. X!Init
  BY DEF MonInit
<1>3. held = None
  BY <1>2 DEF X!Init
<1>4. "collector" \in DOMAIN up
  BY <1>2 DEF X!Init, X!Roles
<1>5. "collector" \in DOMAIN scrapeOk
  BY <1>2 DEF X!Init, X!Sources, X!Roles
<1> QED
  BY <1>1, <1>3, <1>4, <1>5 DEF MonInv, HeldInv, GaugeTypes

\* Whatever happens, the agent takes one of its steps or none.
LEMMA AgentSteps == [MonNext]_allVars => [Next]_vars
  BY DEF MonNext, AgentStep, HostStep, Clock, Exporter, Next, allVars, agentState

\* A step of the agent or of the machine leaves the exporter alone, and makes
\* the last success of a probe no older.
LEMMA MachineStep ==
  ASSUME MonInv, AgentStep \/ HostStep
  PROVE  HeldInv'
<1>1. UNCHANGED <<up, scrapeOk, held>>
  BY DEF AgentStep, HostStep, exporterState
<1>2. okAge' = okAge \/ \E c \in Checks : okAge' = [okAge EXCEPT ![c] = 0]
  BY DEF AgentStep, HostStep, Agent, Environment, AgentStart, AgentCrash, BeginSample,
     BeginSampleWhen, Probe, ProbesDone, Find, Resolve, ResolveAs, ReadProc, EmitRow,
     WriteTemp, Rename, ServiceStarts, ServiceDies, AnswerChanges
<1>3. okAge \in [Checks -> Ages]
  BY DEF MonInv, EvidenceInv, AgeTypes
<1>4. okAge'["health"] <= okAge["health"]
  BY <1>2, <1>3, HealthIsChecked, ClockAssumption DEF Ages
<1>5. okAge'["health"] \in Int /\ okAge["health"] \in Int
  BY <1>2, <1>3, HealthIsChecked, ClockAssumption DEF Ages
<1>6. held # None => held.age \in Int
  BY ClockAssumption DEF MonInv, HeldInv, GaugeTypes, Ages
<1>7. held # None /\ held.ok => okAge'["health"] <= held.age + CheckInterval - 1
  BY <1>4, <1>5, <1>6, ClockAssumption DEF MonInv, HeldInv
<1>8. GaugeTypes'
  BY <1>1 DEF MonInv, HeldInv, GaugeTypes
<1> QED
  BY <1>1, <1>7, <1>8 DEF HeldInv

\* Time passes for the evidence and for the snapshot in hand alike.
LEMMA ClockStep ==
  ASSUME MonInv, Clock
  PROVE  HeldInv'
<1>1. UNCHANGED <<up, scrapeOk>> /\ X!HeldOlder /\ Tick
  BY DEF Clock
<1>2. CASE held = None
  <2>1. held' = None
    BY <1>1, <1>2 DEF X!HeldOlder
  <2> QED
    BY <1>1, <2>1 DEF MonInv, HeldInv, GaugeTypes
<1>3. CASE held # None
  <2>1. held' = [held EXCEPT !.age = Older(held.age)]
    BY <1>1, <1>3 DEF X!HeldOlder, X!Older, Older
  <2>2. held \in [age : Ages, ok : BOOLEAN, body : {Body, None}]
    BY <1>3 DEF MonInv, HeldInv, GaugeTypes
  <2>3. held.age \in Ages /\ Older(held.age) \in Ages
    BY <2>2, OlderAge
  <2>4. held' \in [age : Ages, ok : BOOLEAN, body : {Body, None}]
    BY <2>1, <2>2, <2>3
  <2>5. held'.age = Older(held.age) /\ held'.ok = held.ok
    BY <2>1, <2>2
  <2>6. okAge["health"] \in Ages
    BY HealthIsChecked DEF MonInv, EvidenceInv, AgeTypes
  <2>7. okAge'["health"] <= Older(okAge["health"])
    <3>1. okAge'["health"] = IF answers["health"] THEN 0 ELSE Older(okAge["health"])
      BY <1>1, HealthIsChecked DEF Tick
    <3>2. Older(okAge["health"]) \in Ages
      BY <2>6, OlderAge
    <3> QED
      BY <3>1, <3>2, ClockAssumption DEF Ages
  <2>8. okAge'["health"] \in Int
    BY <1>1, <2>6, OlderAge, HealthIsChecked, ClockAssumption DEF Tick, Ages
  <2>9. ASSUME held.ok PROVE okAge'["health"] <= Older(held.age) + CheckInterval - 1
    <3>1. okAge["health"] <= held.age + CheckInterval - 1
      BY <1>3, <2>9 DEF MonInv, HeldInv
    <3>2. Older(okAge["health"]) <= Older(held.age) + CheckInterval - 1
      BY <3>1, <2>3, <2>6, OlderAge
    <3>3. Older(okAge["health"]) \in Int /\ Older(held.age) \in Int
      BY <2>3, <2>6, OlderAge, ClockAssumption DEF Ages
    <3> QED
      BY <2>7, <2>8, <3>2, <3>3, ClockAssumption
  <2>10. GaugeTypes'
    BY <1>1, <2>4 DEF MonInv, HeldInv, GaugeTypes
  <2> QED
    BY <2>5, <2>9, <2>10 DEF HeldInv
<1> QED
  BY <1>2, <1>3

\* The exporter reads the file into its hand, drops what it holds, or does
\* something else.
LEMMA ExporterStep ==
  ASSUME MonInv, Exporter
  PROVE  HeldInv'
<1>1. UNCHANGED <<okAge, answers, file>>
  BY DEF Exporter, agentState, vars, svcVars
<1>2. "collector" \in DOMAIN up' /\ "collector" \in DOMAIN scrapeOk'
  BY DEF Exporter, ReadCollector, OtherSources, X!BeginPoll, X!ReadState, X!ReadFails,
     X!Evaluate, X!EvaluateWithin, X!UpAfter, X!ScrapeCatalog, X!ScrapeSlow, X!WriteSample,
     X!Record, X!RecordAs, X!gauges, MonInv, HeldInv, GaugeTypes
<1>3. CASE X!ReadState("collector", Snapshot) /\ file # None
  <2>1. held' = Snapshot
    BY <1>3 DEF X!ReadState
  <2>2. Snapshot \in [age : Ages, ok : BOOLEAN, body : {Body, None}]
    BY <1>3, SnapshotIsNotNone DEF MonInv
  <2>3. Snapshot.ok => okAge["health"] <= Snapshot.age + CheckInterval - 1
    BY <1>3, SnapshotIsNotNone DEF MonInv
  <2> QED
    BY <1>1, <1>2, <2>1, <2>2, <2>3 DEF HeldInv, GaugeTypes
<1>4. CASE held' = None
  BY <1>2, <1>4 DEF HeldInv, GaugeTypes
<1>5. CASE held' = held
  BY <1>1, <1>2, <1>5 DEF MonInv, HeldInv, GaugeTypes
<1>6. \/ X!ReadState("collector", Snapshot) /\ file # None
      \/ held' = None \/ held' = held
  BY DEF Exporter, ReadCollector, OtherSources, X!BeginPoll, X!ReadFails,
     X!Evaluate, X!EvaluateWithin, X!ScrapeCatalog, X!ScrapeSlow, X!WriteSample
<1> QED
  BY <1>3, <1>4, <1>5, <1>6

LEMMA MonStep ==
  ASSUME MonInv, [MonNext]_allVars
  PROVE  MonInv'
<1>1. EvidenceInv'
  BY AgentSteps, EvidenceStep DEF MonInv
<1>2. CASE UNCHANGED allVars
  <2>1. UNCHANGED <<okAge, held, up, scrapeOk>>
    BY <1>2 DEF allVars, agentState, exporterState, vars
  <2> QED
    BY <1>1, <2>1 DEF MonInv, HeldInv, GaugeTypes
<1>3. CASE MonNext
  BY <1>1, <1>3, MachineStep, ClockStep, ExporterStep DEF MonNext, MonInv
<1> QED
  BY <1>2, <1>3

\* The step that decides about the collector: a good scrape that shows it up
\* comes from a snapshot in hand that is young enough and says ok.
LEMMA DecisionIsEvaluation ==
  ASSUME MonInv, MonNext, epc = "collector", epc' # "collector",
         scrapeOk'["collector"] = 1, up'["collector"] = 1
  PROVE  held # None /\ held.ok /\ X!StateAge <= MaxStateAge
<1>1. ~(AgentStep \/ HostStep \/ Clock)
  BY DEF AgentStep, HostStep, Clock, exporterState
<1>2. Exporter
  BY <1>1 DEF MonNext
<1>3. "collector" \in DOMAIN up /\ "collector" \in DOMAIN scrapeOk
  BY DEF MonInv, HeldInv, GaugeTypes
<1>4. ~(X!BeginPoll \/ X!WriteSample \/ X!ScrapeCatalog
        \/ X!ScrapeSlow("watermark") \/ X!ScrapeSlow("s3") \/ X!ReadFails("compactor"))
  BY DEF X!BeginPoll, X!WriteSample, X!ScrapeCatalog, X!ScrapeSlow, X!ReadFails
<1>5. ~X!ReadState("collector", Snapshot)
  BY DEF X!ReadState
<1>6. ~X!ReadFails("collector")
  BY <1>3 DEF X!ReadFails, X!Record, X!RecordAs
<1>7. PICK n \in X!Stages : X!EvaluateWithin("collector", MaxStateAge, n)
  BY <1>2, <1>4, <1>5, <1>6 DEF Exporter, ReadCollector, OtherSources, X!Evaluate
<1>8. /\ held # None /\ n >= 1 /\ X!Record("collector", n = X!End)
      /\ X!StateAge > MaxStateAge => n = 1
      /\ up' = X!UpAfter("collector", held.ok, n)
  BY <1>7 DEF X!EvaluateWithin
<1>9. held.ok
  BY <1>3, <1>8 DEF X!UpAfter
<1>10. ASSUME X!StateAge > MaxStateAge PROVE FALSE
  <2>1. n # X!End
    BY <1>8, <1>10 DEF X!End
  <2>2. scrapeOk'["collector"] = 0
    BY <1>3, <1>8, <2>1 DEF X!Record, X!RecordAs
  <2> QED
    BY <2>2
<1>11. X!StateAge \in Int
  <2>1. held.age \in Int
    BY <1>8, ClockAssumption DEF MonInv, HeldInv, GaugeTypes, Ages
  <2> QED
    BY <2>1, LimitAssumption DEF X!StateAge
<1> QED
  BY <1>8, <1>9, <1>10, <1>11, LimitAssumption

\* A collector shown up by a good scrape did answer its health probe, no
\* longer ago than the age limit, less the skew, plus a check interval.
THEOREM UpStaysRecent == MonSpec => UpIsRecent
<1> DEFINE Recent ==
      epc = "collector" /\ epc' # "collector"
        /\ scrapeOk'["collector"] = 1 /\ up'["collector"] = 1
      => okAge["health"] <= MaxStateAge - Skew + CheckInterval - 1
<1>1. ASSUME MonInv, [MonNext]_allVars
      PROVE  [Recent]_allVars
  <2>1. SUFFICES ASSUME MonNext, epc = "collector", epc' # "collector",
                        scrapeOk'["collector"] = 1, up'["collector"] = 1
                 PROVE  okAge["health"] <= MaxStateAge - Skew + CheckInterval - 1
    BY <1>1
  <2>2. held # None /\ held.ok /\ X!StateAge <= MaxStateAge
    BY <1>1, <2>1, DecisionIsEvaluation
  <2>3. okAge["health"] <= held.age + CheckInterval - 1
    BY <1>1, <2>2 DEF MonInv, HeldInv
  <2>4. held.age \in Int
    BY <1>1, <2>2, ClockAssumption DEF MonInv, HeldInv, GaugeTypes, Ages
  <2>5. okAge["health"] \in Int
    BY <1>1, HealthIsChecked, ClockAssumption DEF MonInv, EvidenceInv, AgeTypes, Ages
  <2>6. held.age <= MaxStateAge - Skew
    BY <2>2, <2>4, LimitAssumption DEF X!StateAge
  <2> QED
    BY <2>3, <2>4, <2>5, <2>6, LimitAssumption, ClockAssumption
<1> QED
  BY <1>1, MonStart, MonStep, PTL DEF MonSpec, UpIsRecent

=============================================================================
