--------------------------- MODULE LoadGenProofs ---------------------------
(***************************************************************************)
(* Proofs about LoadGen, for every pool, plan, batch size and capacity.    *)
(***************************************************************************)
EXTENDS LoadGen, Sums, SequenceTheorems

\* What the program counters say of the other variables: the pacer holds a
\* batch exactly while it is putting it, a step is entered inside run_step(),
\* no worker runs before the engine starts, and a sending worker has a batch.
Control ==
  /\ pc \in {"put", "putting"} <=> pending # None
  /\ pc \in InStep \cup {"drain", "endStep", "judge"} => stepNo \in Steps
  /\ pc = "boot" => \A w \in Workers : wpc[w] = "unborn"
  /\ \A w \in Workers : wpc[w] \in {"send", "rpc"} => item[w] \in Nat

TypeInv == TypeOK /\ Control

\* The worker pool is finite: stop() puts finitely many sentinels.
LEMMA PoolSize == Cardinality(Workers) \in Nat
BY PoolAssumption, FS_CardinalityType

\* run_step() begins every step with a well-formed StepResult.
LEMMA NewResultType == \A seq \in Nat : NewResult(seq) \in ResultType
BY DEF NewResult, ResultType

\* The state main() starts in is well-typed.
LEMMA TypeInit == Init => TypeInv
<1> SUFFICES ASSUME Init PROVE TypeInv
    OBVIOUS
<1>1. TypeMain
  <2>1. results \in [Steps -> ResultType]
      BY NewResultType DEF Init
  <2>2. stepNo \in 0..NumSteps /\ pc \in MainLabels /\ warned \subseteq Steps
      BY PlanAssumption DEF Init, MainLabels
  <2>3. /\ step \in Steps \cup {None} /\ deadline \in BOOLEAN
        /\ stop \in BOOLEAN /\ interrupted \in BOOLEAN /\ abort \in BOOLEAN
      BY DEF Init
  <2> QED
      BY <2>1, <2>2, <2>3 DEF TypeMain
<1>2. TypeFeed
    BY PoolSize, PoolAssumption DEF Init, TypeFeed
<1>3. TypeWorkers
    BY DEF Init, TypeWorkers, WorkerLabels
<1>4. TypeBooks
    BY DEF Init, TypeBooks, TotalsType
<1>5. Control
    BY DEF Init, Control, InStep
<1> QED
    BY <1>1, <1>2, <1>3, <1>4, <1>5 DEF TypeInv, TypeOK

-----------------------------------------------------------------------------
(* Type correctness is inductive                                           *)

\* A step that leaves the plan and the flags alone keeps their types.
LEMMA KeepMain == TypeMain /\ UNCHANGED <<pc, planVars, flagVars>> => TypeMain'
BY DEF TypeMain, planVars, flagVars

\* A step that leaves the numbering and the queue alone keeps their types.
LEMMA KeepFeed == TypeFeed /\ UNCHANGED feedVars => TypeFeed'
BY DEF TypeFeed, feedVars

\* A step that leaves the workers alone keeps their types.
LEMMA KeepWorkers == TypeWorkers /\ UNCHANGED workerVars => TypeWorkers'
BY DEF TypeWorkers, workerVars

\* A step that leaves totals, manifest and exit code alone keeps their types.
LEMMA KeepBooks == TypeBooks /\ UNCHANGED <<totals, endVars>> => TypeBooks'
BY DEF TypeBooks, endVars

\* A step of the main thread that only moves its control keeps the types, if
\* it respects where a batch is pending and where a step must be current.
LEMMA GotoType ==
  ASSUME TypeInv, NEW l \in MainLabels, Goto(l),
         l \in {"put", "putting"} <=> pc \in {"put", "putting"},
         l \in InStep \cup {"drain", "endStep", "judge"} => stepNo \in Steps,
         l # "boot"
  PROVE  TypeInv'
<1> USE DEF TypeInv
<1>1. UNCHANGED <<planVars, flagVars, feedVars, workerVars, totals, endVars>>
      /\ pc' = l
    BY DEF Goto
<1>2. TypeMain'
    BY <1>1 DEF TypeOK, TypeMain, planVars, flagVars
<1>3. TypeFeed' /\ TypeWorkers' /\ TypeBooks'
    BY <1>1, KeepFeed, KeepWorkers, KeepBooks DEF TypeOK
<1>4. Control'
    BY <1>1 DEF Control, planVars, feedVars, workerVars
<1> QED
    BY <1>2, <1>3, <1>4 DEF TypeOK

\* Every step of main() and run_step(), the signal handler and the clock
\* keep the types, and put() the capacity of the queue.
LEMMA MainType ==
  ASSUME TypeInv, Main \/ Signal \/ DeadlinePasses
  PROVE  TypeInv'
<1> USE DEF TypeInv, TypeOK
<1>1. CASE RefuseToStart
  <2>1. TypeMain'
      BY <1>1 DEF RefuseToStart, TypeMain, planVars, flagVars, MainLabels, InStep
  <2>2. TypeBooks'
      BY <1>1, PlanAssumption DEF RefuseToStart, TypeBooks
  <2>3. TypeFeed' /\ TypeWorkers'
      BY <1>1, KeepFeed, KeepWorkers DEF RefuseToStart
  <2>4. Control'
      BY <1>1 DEF RefuseToStart, Control, InStep, planVars, feedVars, workerVars
  <2> QED
      BY <2>1, <2>2, <2>3, <2>4
<1>2. CASE StartEngine
  <2>1. TypeMain'
      BY <1>2 DEF StartEngine, TypeMain, planVars, flagVars, MainLabels, InStep
  <2>2. TypeWorkers'
      BY <1>2 DEF StartEngine, TypeWorkers, workerVars, WorkerLabels
  <2>3. TypeFeed' /\ TypeBooks'
      BY <1>2, KeepFeed, KeepBooks DEF StartEngine
  <2>4. Control'
      BY <1>2 DEF StartEngine, Control, InStep, planVars, feedVars, workerVars
  <2> QED
      BY <2>1, <2>2, <2>3, <2>4
<1>3. CASE BeginStep
  <2>1. TypeMain'
    <3>1. NewResult(nextSeq) \in ResultType
        BY NewResultType DEF TypeFeed
    <3>2. results' \in [Steps -> ResultType]
        BY <1>3, <3>1 DEF BeginStep, TypeMain
    <3>3. stepNo' \in 0..NumSteps /\ step' \in Steps
        BY <1>3, PlanAssumption DEF BeginStep, TypeMain, Steps
    <3> QED
        BY <1>3, <3>2, <3>3 DEF BeginStep, TypeMain, flagVars, MainLabels, InStep
  <2>2. TypeFeed' /\ TypeWorkers' /\ TypeBooks'
      BY <1>3, KeepFeed, KeepWorkers, KeepBooks DEF BeginStep
  <2>3. Control'
      BY <1>3, PlanAssumption
      DEF BeginStep, Control, InStep, TypeMain, Steps, feedVars, workerVars
  <2> QED
      BY <2>1, <2>2, <2>3
<1>4. CASE LeaveSteps
    BY <1>4, GotoType DEF LeaveSteps, Control, InStep, MainLabels
<1>5. CASE PaceCheck
    BY <1>5, GotoType DEF PaceCheck, Control, InStep, MainLabels
<1>6. CASE PaceWait
    BY <1>6, GotoType DEF PaceWait, Control, InStep, MainLabels
<1>7. CASE Allocate
  <2>1. TypeMain'
      BY <1>7 DEF Allocate, TypeMain, planVars, flagVars, MainLabels, InStep
  <2>2. TypeFeed'
      BY <1>7, PlanAssumption DEF Allocate, TypeFeed
  <2>3. TypeWorkers' /\ TypeBooks'
      BY <1>7, KeepWorkers, KeepBooks DEF Allocate
  <2>4. Control'
      BY <1>7, CodeAssumption
      DEF Allocate, Control, InStep, TypeFeed, planVars, workerVars
  <2> QED
      BY <2>1, <2>2, <2>3, <2>4
<1>8. CASE PutCheck
    BY <1>8, GotoType DEF PutCheck, Control, InStep, MainLabels
<1>9. CASE Put
  <2>1. TypeMain'
      BY <1>9 DEF Put, PutWhen, TypeMain, planVars, flagVars, MainLabels, InStep
  <2>2. TypeFeed'
    <3>1. /\ queue' \in Seq(Nat \cup {None})
          /\ Len(queue') = Len(queue) + 1
        BY <1>9, AppendProperties DEF Put, PutWhen, TypeFeed
    <3>2. Len(queue) \in Nat /\ Len(queue) < MaxInflight
        BY <1>9 DEF Put, PutWhen, TypeFeed
    <3> QED
        BY <1>9, <3>1, <3>2, PoolAssumption DEF Put, PutWhen, TypeFeed
  <2>3. TypeWorkers' /\ TypeBooks'
      BY <1>9, KeepWorkers, KeepBooks DEF Put, PutWhen
  <2>4. Control'
      BY <1>9 DEF Put, PutWhen, Control, InStep, planVars, feedVars, workerVars
  <2> QED
      BY <2>1, <2>2, <2>3, <2>4
<1>10. CASE PutFull
    BY <1>10, GotoType DEF PutFull, Control, InStep, MainLabels
<1>11. CASE GiveBack
  <2>1. TypeMain'
      BY <1>11 DEF GiveBack, GiveBackTo, TypeMain, planVars, flagVars, MainLabels, InStep
  <2>2. TypeFeed'
      BY <1>11 DEF GiveBack, GiveBackTo, TypeFeed, Control
  <2>3. TypeWorkers' /\ TypeBooks'
      BY <1>11, KeepWorkers, KeepBooks DEF GiveBack, GiveBackTo
  <2>4. Control'
      BY <1>11 DEF GiveBack, GiveBackTo, Control, InStep, planVars, feedVars, workerVars
  <2> QED
      BY <2>1, <2>2, <2>3, <2>4
<1>12. CASE RecordOffered
  <2>1. TypeMain'
      BY <1>12 DEF RecordOffered, TypeMain, planVars, flagVars, MainLabels, InStep
  <2>2. TypeBooks'
      BY <1>12, PlanAssumption
      DEF RecordOffered, TypeBooks, TotalsType, endVars
  <2>3. TypeFeed' /\ TypeWorkers'
      BY <1>12, KeepFeed, KeepWorkers DEF RecordOffered
  <2>4. Control'
      BY <1>12 DEF RecordOffered, Control, InStep, planVars, feedVars, workerVars
  <2> QED
      BY <2>1, <2>2, <2>3, <2>4
<1>13. CASE StepOffered
  <2>1. TypeMain'
    <3> DEFINE r == results[stepNo]
    <3>1. stepNo \in Steps /\ r \in ResultType
        BY <1>13 DEF StepOffered, Control, InStep, TypeMain
    <3>2. [r EXCEPT !.offered = @ + BatchSize] \in ResultType
        BY <3>1, PlanAssumption DEF ResultType
    <3>3. results' \in [Steps -> ResultType]
        BY <1>13, <3>1, <3>2 DEF StepOffered, TypeMain
    <3> QED
        BY <1>13, <3>3 DEF StepOffered, TypeMain, flagVars, MainLabels, InStep
  <2>2. TypeFeed' /\ TypeWorkers' /\ TypeBooks'
      BY <1>13, KeepFeed, KeepWorkers, KeepBooks DEF StepOffered
  <2>3. Control'
      BY <1>13 DEF StepOffered, Control, InStep, planVars, feedVars, workerVars
  <2> QED
      BY <2>1, <2>2, <2>3
<1>14. CASE DrainDone
    BY <1>14, GotoType DEF DrainDone, Control, InStep, MainLabels
<1>15. CASE DrainTimeout
  <2>1. TypeMain'
      BY <1>15 DEF DrainTimeout, TypeMain, Control, flagVars, MainLabels
  <2>2. TypeFeed' /\ TypeWorkers' /\ TypeBooks'
      BY <1>15, KeepFeed, KeepWorkers, KeepBooks DEF DrainTimeout
  <2>3. Control'
      BY <1>15 DEF DrainTimeout, Control, InStep, planVars, feedVars, workerVars
  <2> QED
      BY <2>1, <2>2, <2>3
<1>16. CASE EndStep
  <2>1. TypeMain'
    <3>1. stepNo \in Steps /\ results[stepNo].seq_start \in Nat
        BY <1>16 DEF EndStep, EndStepTo, Control, TypeMain, ResultType
    <3>2. SeqEnd(results[stepNo].seq_start, nextSeq) \in Nat
        BY <3>1 DEF SeqEnd, TypeFeed
    <3>3. results' \in [Steps -> ResultType]
        BY <1>16, <3>2 DEF EndStep, EndStepTo, TypeMain, ResultType
    <3> QED
        BY <1>16, <3>3 DEF EndStep, EndStepTo, TypeMain, flagVars, MainLabels
  <2>2. TypeFeed' /\ TypeWorkers' /\ TypeBooks'
      BY <1>16, KeepFeed, KeepWorkers, KeepBooks DEF EndStep, EndStepTo
  <2>3. Control'
      BY <1>16 DEF EndStep, EndStepTo, Control, InStep, planVars, feedVars, workerVars
  <2> QED
      BY <2>1, <2>2, <2>3
<1>17. CASE Judge
    BY <1>17, GotoType DEF Judge, Control, InStep, MainLabels
<1>18. CASE StopEngine
  <2>1. TypeMain'
      BY <1>18 DEF StopEngine, TypeMain, planVars, flagVars, MainLabels, InStep
  <2>2. TypeFeed' /\ TypeWorkers' /\ TypeBooks'
      BY <1>18, KeepFeed, KeepWorkers, KeepBooks DEF StopEngine
  <2>3. Control'
      BY <1>18 DEF StopEngine, Control, InStep, planVars, feedVars, workerVars
  <2> QED
      BY <2>1, <2>2, <2>3
<1>19. CASE PutSentinel
  <2>1. TypeFeed'
    <3>1. /\ queue' \in Seq(Nat \cup {None})
          /\ Len(queue') <= MaxInflight
        BY <1>19, AppendProperties, PoolAssumption
        DEF PutSentinel, PutSentinelAs, TypeFeed
    <3> QED
        BY <1>19, <3>1, PoolSize DEF PutSentinel, PutSentinelAs, TypeFeed
  <2>2. TypeMain' /\ TypeWorkers' /\ TypeBooks'
      BY <1>19, KeepMain, KeepWorkers, KeepBooks DEF PutSentinel, PutSentinelAs
  <2>3. Control'
      BY <1>19 DEF PutSentinel, PutSentinelAs, Control, InStep, planVars, feedVars, workerVars
  <2> QED
      BY <2>1, <2>2, <2>3
<1>20. CASE Join
  <2>1. TypeMain'
      BY <1>20 DEF Join, TypeMain, planVars, flagVars, MainLabels, InStep
  <2>2. TypeBooks'
      BY <1>20 DEF Join, TypeBooks, endVars, TotalsType, ManifestType
  <2>3. TypeFeed' /\ TypeWorkers'
      BY <1>20, KeepFeed, KeepWorkers DEF Join
  <2>4. Control'
      BY <1>20 DEF Join, Control, InStep, planVars, feedVars, workerVars
  <2> QED
      BY <2>1, <2>2, <2>3, <2>4
<1>21. CASE CloseExporter
  <2>1. TypeMain'
      BY <1>21 DEF CloseExporter, TypeMain, planVars, flagVars, MainLabels, InStep
  <2>2. TypeBooks'
      BY <1>21 DEF CloseExporter, TypeBooks, endVars, TotalsType, ManifestType
  <2>3. TypeFeed' /\ TypeWorkers'
      BY <1>21, KeepFeed, KeepWorkers DEF CloseExporter
  <2>4. Control'
      BY <1>21 DEF CloseExporter, Control, InStep, planVars, feedVars, workerVars
  <2> QED
      BY <2>1, <2>2, <2>3, <2>4
<1>22. CASE WriteManifest
  <2>1. TypeMain'
      BY <1>22 DEF WriteManifest, TypeMain, planVars, flagVars, MainLabels, InStep
  <2>2. TypeBooks'
    <3>1. stepNo > 0 => 1 \in Steps /\ stepNo \in Steps
        BY PlanAssumption DEF TypeMain, Steps
    <3>2. stepNo > 0 => /\ results[1].seq_start \in Int
                        /\ results[stepNo].seq_end \in Int
        BY <3>1 DEF TypeMain, ResultType
    <3>3. manifest' \in ManifestType
        BY <1>22, <3>2 DEF WriteManifest, ManifestType, TypeBooks
    <3> QED
        BY <1>22, <3>3 DEF WriteManifest, TypeBooks
  <2>3. TypeFeed' /\ TypeWorkers'
      BY <1>22, KeepFeed, KeepWorkers DEF WriteManifest
  <2>4. Control'
      BY <1>22 DEF WriteManifest, Control, InStep, planVars, feedVars, workerVars
  <2> QED
      BY <2>1, <2>2, <2>3, <2>4
<1>23. CASE Exit
  <2>1. TypeMain'
      BY <1>23 DEF Exit, TypeMain, planVars, flagVars, MainLabels, InStep
  <2>2. TypeBooks'
      BY <1>23 DEF Exit, TypeBooks, endVars, TotalsType, ManifestType
  <2>3. TypeFeed' /\ TypeWorkers'
      BY <1>23, KeepFeed, KeepWorkers DEF Exit
  <2>4. Control'
      BY <1>23 DEF Exit, Control, InStep, planVars, feedVars, workerVars
  <2> QED
      BY <2>1, <2>2, <2>3, <2>4
<1>24. CASE Signal
  <2>1. TypeMain'
      BY <1>24 DEF Signal, TypeMain, planVars, flagVars, MainLabels, InStep
  <2>2. TypeFeed' /\ TypeWorkers' /\ TypeBooks'
      BY <1>24, KeepFeed, KeepWorkers, KeepBooks DEF Signal
  <2>3. Control'
      BY <1>24 DEF Signal, Control, InStep, planVars, feedVars, workerVars
  <2> QED
      BY <2>1, <2>2, <2>3
<1>25. CASE DeadlinePasses
  <2>1. TypeMain'
      BY <1>25 DEF DeadlinePasses, TypeMain, planVars, flagVars, MainLabels, InStep
  <2>2. TypeFeed' /\ TypeWorkers' /\ TypeBooks'
      BY <1>25, KeepFeed, KeepWorkers, KeepBooks DEF DeadlinePasses
  <2>3. Control'
      BY <1>25 DEF DeadlinePasses, Control, InStep, planVars, feedVars, workerVars
  <2> QED
      BY <2>1, <2>2, <2>3
<1> QED
    BY <1>1, <1>2, <1>3, <1>4, <1>5, <1>6, <1>7, <1>8, <1>9, <1>10, <1>11, <1>12, <1>13, <1>14, <1>15, <1>16, <1>17, <1>18, <1>19, <1>20, <1>21, <1>22, <1>23, <1>24, <1>25 DEF Main

\* What every bookkeeping step of a worker leaves alone, and how it types.
LEMMA MoveType ==
  ASSUME TypeInv, NEW w \in Workers, NEW from, NEW to \in WorkerLabels,
         Move(w, from, to), to \notin {"send", "rpc"}, wpc[w] # "unborn"
  PROVE  /\ TypeFeed' /\ Control'
         /\ wpc' \in [Workers -> WorkerLabels]
         /\ item' \in [Workers -> Nat \cup {None}]
         /\ code' \in [Workers -> Codes \cup {None}]
<1> USE DEF TypeInv, TypeOK
<1>1. TypeFeed'
    BY KeepFeed DEF Move
<1>2. /\ wpc' \in [Workers -> WorkerLabels]
      /\ item' \in [Workers -> Nat \cup {None}]
      /\ code' \in [Workers -> Codes \cup {None}]
    BY DEF Move, TypeWorkers
<1>3. Control'
    BY DEF Move, Control, TypeWorkers, feedVars
<1> QED
    BY <1>1, <1>2, <1>3

\* The updates of the counters keep their types.
LEMMA AckResultType ==
  ASSUME NEW r \in ResultType
  PROVE  [r EXCEPT !.accepted = @ + BatchSize, !.requests = @ + 1] \in ResultType
<1> DEFINE a == r.accepted + BatchSize
           b == r.requests + 1
<1>1. a \in Nat /\ b \in Nat
    BY PlanAssumption DEF ResultType
<1> HIDE DEF a, b
<1>2. [r EXCEPT !.accepted = a, !.requests = b] \in ResultType
    BY <1>1 DEF ResultType
<1> QED
    BY <1>2 DEF a, b

\* _record_failure() books a failed batch in a StepResult.
LEMMA FailResultType ==
  ASSUME NEW r \in ResultType, NEW w
  PROVE  [r EXCEPT !.requests = @ + 1, !.failures = @ + 1,
            !.rejected = IF Rejected(w) THEN @ + BatchSize ELSE @] \in ResultType
<1> DEFINE a == r.requests + 1
           b == r.failures + 1
           c == IF Rejected(w) THEN r.rejected + BatchSize ELSE r.rejected
<1>1. a \in Nat /\ b \in Nat /\ c \in Nat
    BY PlanAssumption DEF ResultType
<1> HIDE DEF a, b, c
<1>2. [r EXCEPT !.requests = a, !.failures = b, !.rejected = c] \in ResultType
    BY <1>1 DEF ResultType
<1> QED
    BY <1>2 DEF a, b, c

\* metrics.record_success() keeps the totals well-formed.
LEMMA AckTotalsType ==
  ASSUME NEW t \in TotalsType
  PROVE  [t EXCEPT !.sent = @ + 1, !.accepted = @ + BatchSize] \in TotalsType
<1> DEFINE a == t.sent + 1
           b == t.accepted + BatchSize
<1>1. a \in Nat /\ b \in Nat
    BY PlanAssumption DEF TotalsType
<1> HIDE DEF a, b
<1>2. [t EXCEPT !.sent = a, !.accepted = b] \in TotalsType
    BY <1>1 DEF TotalsType
<1> QED
    BY <1>2 DEF a, b

\* metrics.record_failure() keeps the totals well-formed.
LEMMA FailTotalsType ==
  ASSUME NEW t \in TotalsType, NEW w
  PROVE  [t EXCEPT !.sent = @ + 1, !.failed = @ + 1,
            !.rejected = IF Rejected(w) THEN @ + BatchSize ELSE @] \in TotalsType
<1> DEFINE a == t.sent + 1
           b == t.failed + 1
           c == IF Rejected(w) THEN t.rejected + BatchSize ELSE t.rejected
<1>1. a \in Nat /\ b \in Nat /\ c \in Nat
    BY PlanAssumption DEF TotalsType
<1> HIDE DEF a, b, c
<1>2. [t EXCEPT !.sent = a, !.failed = b, !.rejected = c] \in TotalsType
    BY <1>1 DEF TotalsType
<1> QED
    BY <1>2 DEF a, b, c

\* The step that accounting goes to keeps the type of a StepResult.
LEMMA ResultsType ==
  ASSUME TypeMain, NEW r \in ResultType, step # None
  PROVE  [results EXCEPT ![step] = r] \in [Steps -> ResultType]
BY DEF TypeMain

\* Every step of a worker, from get() to the end of _record_failure(), keeps
\* the types.
LEMMA WorkerType ==
  ASSUME TypeInv, NEW w \in Workers, Worker(w)
  PROVE  TypeInv'
<1> USE DEF TypeInv, TypeOK
<1>1. CASE Get(w)
  <2>1. /\ Head(queue) \in Nat \cup {None} /\ Tail(queue) \in Seq(Nat \cup {None})
        /\ Len(Tail(queue)) = Len(queue) - 1 /\ Len(queue) \in Nat
      BY <1>1, HeadTailProperties DEF Get, TypeFeed
  <2>2. TypeFeed'
      BY <1>1, <2>1, PoolAssumption DEF Get, TypeFeed
  <2>3. TypeWorkers'
      BY <1>1, <2>1 DEF Get, TypeWorkers, WorkerLabels
  <2>4. TypeMain' /\ TypeBooks'
      BY <1>1, KeepMain, KeepBooks DEF Get
  <2>5. Control'
      BY <1>1, <2>1 DEF Get, Control, TypeWorkers, planVars
  <2> QED
      BY <2>2, <2>3, <2>4, <2>5
<1>2. CASE Send(w)
  <2>1. TypeWorkers'
      BY <1>2 DEF Send, TypeWorkers, WorkerLabels
  <2>2. TypeMain' /\ TypeFeed' /\ TypeBooks'
      BY <1>2, KeepMain, KeepFeed, KeepBooks DEF Send
  <2>3. Control'
      BY <1>2 DEF Send, Control, TypeWorkers, planVars, feedVars
  <2> QED
      BY <2>1, <2>2, <2>3
<1>3. ASSUME NEW c \in Outcomes, Export(w, c)
      PROVE  TypeInv'
  <2>1. item[w] \in Nat
      BY <1>3 DEF Export, Control
  <2>2. outcome' \in [Outcomes -> SUBSET Nat] /\ inflight' \in Int
      BY <1>3, <2>1 DEF Export, TypeWorkers
  <2>3. /\ wpc' \in [Workers -> WorkerLabels]
        /\ item' \in [Workers -> Nat \cup {None}]
        /\ code' \in [Workers -> Codes \cup {None}]
      BY <1>3 DEF Export, TypeWorkers, WorkerLabels, Outcomes
  <2>4. TypeWorkers'
      BY <1>3, <2>2, <2>3 DEF Export, TypeWorkers
  <2>5. TypeMain' /\ TypeFeed' /\ TypeBooks'
      BY <1>3, KeepMain, KeepFeed, KeepBooks DEF Export
  <2>6. Control'
      BY <1>3 DEF Export, Control, TypeWorkers, planVars, feedVars
  <2> QED
      BY <2>4, <2>5, <2>6
<1>4. CASE RecordSuccess(w)
  <2>1. Move(w, "success", "reset")
      BY <1>4 DEF RecordSuccess, BookSuccess
  <2>2. /\ TypeFeed' /\ Control'
        /\ wpc' \in [Workers -> WorkerLabels]
        /\ item' \in [Workers -> Nat \cup {None}]
        /\ code' \in [Workers -> Codes \cup {None}]
      BY <2>1, MoveType DEF Move, WorkerLabels
  <2>3. TypeWorkers'
      BY <1>4, <2>1, <2>2 DEF RecordSuccess, BookSuccess, Move, TypeWorkers
  <2>4. TypeMain'
      BY <1>4, <2>1 DEF RecordSuccess, BookSuccess, Move, TypeMain
  <2>5. TypeBooks'
    <3>1. totals' \in TotalsType
        BY <1>4, AckTotalsType DEF RecordSuccess, BookSuccess, TypeBooks
    <3> QED
        BY <2>1, <3>1 DEF Move, TypeBooks, endVars
  <2> QED
      BY <2>2, <2>3, <2>4, <2>5
<1>5. CASE ResetConsecutive(w)
  <2>1. Move(w, "reset", "ackStep")
      BY <1>5 DEF ResetConsecutive
  <2>2. /\ TypeFeed' /\ Control'
        /\ wpc' \in [Workers -> WorkerLabels]
        /\ item' \in [Workers -> Nat \cup {None}]
        /\ code' \in [Workers -> Codes \cup {None}]
      BY <2>1, MoveType DEF Move, WorkerLabels
  <2>3. TypeWorkers'
      BY <1>5, <2>1, <2>2 DEF ResetConsecutive, Move, TypeWorkers
  <2>4. TypeMain'
      BY <1>5, <2>1 DEF ResetConsecutive, Move, TypeMain
  <2>5. TypeBooks'
      BY <1>5, <2>1, PlanAssumption DEF ResetConsecutive, Move, TypeBooks, TotalsType, endVars
  <2> QED
      BY <2>2, <2>3, <2>4, <2>5
<1>6. CASE StepAccepted(w)
  <2>1. Move(w, "ackStep", "get")
      BY <1>6 DEF StepAccepted
  <2>2. /\ TypeFeed' /\ Control'
        /\ wpc' \in [Workers -> WorkerLabels]
        /\ item' \in [Workers -> Nat \cup {None}]
        /\ code' \in [Workers -> Codes \cup {None}]
      BY <2>1, MoveType DEF Move, WorkerLabels
  <2>3. TypeWorkers'
      BY <1>6, <2>1, <2>2 DEF StepAccepted, Move, TypeWorkers
  <2>4. TypeMain'
    <3> DEFINE r == results[step]
               s == [r EXCEPT !.accepted = @ + BatchSize, !.requests = @ + 1]
    <3>1. results' \in [Steps -> ResultType]
      <4>1. CASE step = None
          BY <1>6, <4>1 DEF StepAccepted, TypeMain
      <4>2. CASE step # None
        <5>1. step \in Steps /\ r \in ResultType
            BY <4>2 DEF TypeMain
        <5>2. s \in ResultType
            BY <5>1, AckResultType
        <5>3. results' = [results EXCEPT ![step] = s]
            BY <1>6, <4>2, <5>1 DEF StepAccepted, TypeMain, ResultType
        <5> QED
            BY <4>2, <5>2, <5>3, ResultsType
      <4> QED
          BY <4>1, <4>2
    <3> QED
        BY <1>6, <2>1, <3>1 DEF StepAccepted, Move, TypeMain
  <2>5. TypeBooks'
      BY <1>6, <2>1, PlanAssumption DEF StepAccepted, Move, TypeBooks, TotalsType, endVars
  <2> QED
      BY <2>2, <2>3, <2>4, <2>5
<1>7. CASE RecordFailure(w)
  <2>1. Move(w, "failure", "failStep")
      BY <1>7 DEF RecordFailure, BookFailure
  <2>2. /\ TypeFeed' /\ Control'
        /\ wpc' \in [Workers -> WorkerLabels]
        /\ item' \in [Workers -> Nat \cup {None}]
        /\ code' \in [Workers -> Codes \cup {None}]
      BY <2>1, MoveType DEF Move, WorkerLabels
  <2>3. TypeWorkers'
      BY <1>7, <2>1, <2>2 DEF RecordFailure, BookFailure, Move, TypeWorkers
  <2>4. TypeMain'
      BY <1>7, <2>1 DEF RecordFailure, BookFailure, Move, TypeMain
  <2>5. TypeBooks'
    <3>1. totals' \in TotalsType
        BY <1>7, FailTotalsType DEF RecordFailure, BookFailure, TypeBooks
    <3> QED
        BY <2>1, <3>1 DEF Move, TypeBooks, endVars
  <2> QED
      BY <2>2, <2>3, <2>4, <2>5
<1>8. CASE StepFailed(w)
  <2>1. PICK to \in {"get", "count"} : Move(w, "failStep", to)
      BY <1>8 DEF StepFailed, StepFailedTo
  <2>2. /\ TypeFeed' /\ Control'
        /\ wpc' \in [Workers -> WorkerLabels]
        /\ item' \in [Workers -> Nat \cup {None}]
        /\ code' \in [Workers -> Codes \cup {None}]
      BY <2>1, MoveType DEF Move, WorkerLabels
  <2>3. TypeWorkers'
      BY <1>8, <2>1, <2>2 DEF StepFailed, StepFailedTo, Move, TypeWorkers
  <2>4. TypeMain'
    <3> DEFINE r == results[step]
               s == [r EXCEPT !.requests = @ + 1, !.failures = @ + 1,
                       !.rejected = IF Rejected(w) THEN @ + BatchSize ELSE @]
    <3>1. results' \in [Steps -> ResultType]
      <4>1. CASE step = None
          BY <1>8, <4>1 DEF StepFailed, StepFailedTo, TypeMain
      <4>2. CASE step # None
        <5>1. step \in Steps /\ r \in ResultType
            BY <4>2 DEF TypeMain
        <5>2. s \in ResultType
            BY <5>1, FailResultType
        <5>3. results' = [results EXCEPT ![step] = s]
            BY <1>8, <4>2, <5>1 DEF StepFailed, StepFailedTo, TypeMain, ResultType
        <5> QED
            BY <4>2, <5>2, <5>3, ResultsType
      <4> QED
          BY <4>1, <4>2
    <3> QED
        BY <1>8, <2>1, <3>1 DEF StepFailed, StepFailedTo, Move, TypeMain
  <2>5. TypeBooks'
      BY <1>8, <2>1, PlanAssumption DEF StepFailed, StepFailedTo, Move, TypeBooks, TotalsType, endVars
  <2> QED
      BY <2>2, <2>3, <2>4, <2>5
<1>9. CASE CountFailure(w)
  <2>1. PICK to \in {"get", "halt"} : Move(w, "count", to)
      BY <1>9 DEF CountFailure
  <2>2. /\ TypeFeed' /\ Control'
        /\ wpc' \in [Workers -> WorkerLabels]
        /\ item' \in [Workers -> Nat \cup {None}]
        /\ code' \in [Workers -> Codes \cup {None}]
      BY <2>1, MoveType DEF Move, WorkerLabels
  <2>3. TypeWorkers'
      BY <1>9, <2>1, <2>2 DEF CountFailure, Move, TypeWorkers
  <2>4. TypeMain'
      BY <1>9, <2>1 DEF CountFailure, Move, TypeMain
  <2>5. TypeBooks'
      BY <1>9, <2>1, PlanAssumption DEF CountFailure, Move, TypeBooks, TotalsType, endVars
  <2> QED
      BY <2>2, <2>3, <2>4, <2>5
<1>10. CASE Halt(w)
  <2>1. Move(w, "halt", "get")
      BY <1>10 DEF Halt
  <2>2. /\ TypeFeed' /\ Control'
        /\ wpc' \in [Workers -> WorkerLabels]
        /\ item' \in [Workers -> Nat \cup {None}]
        /\ code' \in [Workers -> Codes \cup {None}]
      BY <2>1, MoveType DEF Move, WorkerLabels
  <2>3. TypeWorkers'
      BY <1>10, <2>1, <2>2 DEF Halt, Move, TypeWorkers
  <2>4. TypeMain'
      BY <1>10, <2>1 DEF Halt, Move, TypeMain
  <2>5. TypeBooks'
      BY <1>10, <2>1, PlanAssumption DEF Halt, Move, TypeBooks, TotalsType, endVars
  <2> QED
      BY <2>2, <2>3, <2>4, <2>5
<1> QED
    BY <1>1, <1>2, <1>3, <1>4, <1>5, <1>6, <1>7, <1>8, <1>9, <1>10 DEF Worker

\* The types and the control facts are preserved by every step.
LEMMA TypeStep == TypeInv /\ [Next]_vars => TypeInv'
<1> SUFFICES ASSUME TypeInv, [Next]_vars PROVE TypeInv'
    OBVIOUS
<1>1. CASE Main \/ Signal \/ DeadlinePasses
    BY <1>1, MainType
<1>2. ASSUME NEW w \in Workers, Worker(w) PROVE TypeInv'
    BY <1>2, WorkerType
<1>3. CASE UNCHANGED vars
  <2>1. TypeMain' /\ TypeFeed' /\ TypeWorkers' /\ TypeBooks'
      BY <1>3, KeepMain, KeepFeed, KeepWorkers, KeepBooks
      DEF TypeInv, TypeOK, vars, planVars, flagVars, feedVars, workerVars, endVars
  <2>2. Control'
      BY <1>3 DEF TypeInv, Control, vars
  <2> QED
      BY <2>1, <2>2 DEF TypeInv, TypeOK
<1> QED
    BY <1>1, <1>2, <1>3 DEF Next, Terminated

\* Whatever the workers, the collector, the clock and the signals do, every
\* variable of the generator keeps its type and the queue its capacity.
THEOREM TypeCorrect == Spec => []TypeOK
<1>1. Spec => []TypeInv
    BY TypeInit, TypeStep, PTL DEF Spec
<1> QED
    BY <1>1, PTL DEF TypeInv

-----------------------------------------------------------------------------
(* The ledger of sequence numbers                                          *)

\* The batch being put is the last one numbered, which is what lets the
\* pacer give it back.
PendingLast == pending # None => nextSeq = pending + BatchSize

Numbering == EachRowOnce /\ NoHoles /\ PendingLast

\* Before the first batch is numbered there is nothing to account for.
LEMMA NumberingInit == Init => Numbering
<1> SUFFICES ASSUME Init PROVE Numbering
    OBVIOUS
<1>1. Queued = {} /\ Holding = {} /\ Held = {} /\ Pending = {}
    BY DEF Init, Queued, Holding, Held, Pending
<1>2. Settled = {}
    BY DEF Init, Settled
<1>3. Numbered = {}
    BY <1>1, <1>2 DEF Numbered
<1>4. EachRowOnce
    BY <1>1, <1>2, <1>3
    DEF Init, EachRowOnce, QueuedOnce, HeldOnce, SettledOnce, Apart, Spaced
<1>5. NoHoles
    BY <1>3 DEF Init, NoHoles, RowsOf
<1> QED
    BY <1>4, <1>5 DEF Init, Numbering, PendingLast

\* Every numbered batch is a number below nextSeq.
LEMMA NumberedBelow ==
  ASSUME TypeInv, NoHoles, NEW s \in Numbered
  PROVE  s \in Nat /\ s + BatchSize <= nextSeq
<1>1. s \in Nat
    BY DEF Numbered, Queued, Held, Holding, Settled, Pending, TypeInv, TypeOK,
           TypeFeed, TypeWorkers, Control
<1>2. s + BatchSize - 1 \in Rows(s)
    BY <1>1, PlanAssumption DEF Rows
<1>3. s + BatchSize - 1 \in RowsOf(Numbered)
    BY <1>2 DEF RowsOf
<1>4. s + BatchSize - 1 \in 0 .. nextSeq - 1
    BY <1>3 DEF NoHoles
<1> QED
    BY <1>1, <1>4, PlanAssumption DEF TypeInv, TypeOK, TypeFeed

\* A step that moves no batch keeps the ledger.
LEMMA StillNumbering ==
  ASSUME Numbering, UNCHANGED <<nextSeq, pending, queue, outcome>>,
         Holding' = Holding, \A w \in Holding : item'[w] = item[w]
  PROVE  Numbering'
<1>1. Queued' = Queued /\ Settled' = Settled /\ Pending' = Pending
    BY DEF Queued, Settled, Pending
<1>2. Held' = Held
    BY DEF Held
<1>3. Numbered' = Numbered
    BY <1>1, <1>2 DEF Numbered
<1>4. EachRowOnce'
    BY <1>1, <1>2, <1>3
    DEF Numbering, EachRowOnce, QueuedOnce, HeldOnce, SettledOnce, Apart, Spaced
<1> QED
    BY <1>3, <1>4 DEF Numbering, NoHoles, RowsOf, PendingLast

\* run_step() numbers a batch above every other one.
LEMMA AllocateNumbering ==
  ASSUME TypeInv, Numbering, Allocate
  PROVE  Numbering'
<1>1. pending = None /\ nextSeq \in Nat /\ nextSeq # None
    BY CodeAssumption DEF Allocate, TypeInv, TypeOK, TypeFeed, Control
<1>2. /\ Queued' = Queued /\ Held' = Held /\ Settled' = Settled
      /\ Holding' = Holding /\ Pending = {} /\ Pending' = {nextSeq}
    BY <1>1
    DEF Allocate, Queued, Held, Holding, Settled, Pending, workerVars
<1>3. Numbered' = Numbered \cup {nextSeq}
    BY <1>2 DEF Numbered
<1>4. \A s \in Numbered : s \in Nat /\ s + BatchSize <= nextSeq
    BY NumberedBelow DEF Numbering
<1>5. nextSeq \notin Numbered
    BY <1>1, <1>4, PlanAssumption
<1>6. Apart'
    BY <1>2, <1>5 DEF Numbering, EachRowOnce, Apart, Numbered
<1>7. Spaced'
    BY <1>1, <1>3, <1>4, PlanAssumption
    DEF Numbering, EachRowOnce, Spaced
<1>8. QueuedOnce' /\ HeldOnce' /\ SettledOnce'
    BY <1>2 DEF Allocate, Numbering, EachRowOnce, QueuedOnce, HeldOnce,
                SettledOnce, workerVars
<1>9. NoHoles'
  <2>1. nextSeq' = nextSeq + BatchSize
      BY DEF Allocate
  <2>2. RowsOf(Numbered') = RowsOf(Numbered) \cup Rows(nextSeq)
      BY <1>3 DEF RowsOf
  <2>3. RowsOf(Numbered) = 0 .. nextSeq - 1
      BY DEF Numbering, NoHoles
  <2>4. (0 .. nextSeq - 1) \cup Rows(nextSeq) = 0 .. nextSeq' - 1
      BY <1>1, <2>1, PlanAssumption DEF Rows
  <2>5. RowsOf(Numbered') = 0 .. nextSeq' - 1
      BY <2>2, <2>3, <2>4
  <2> QED
      BY <2>5 DEF NoHoles, RowsOf, Rows
<1> QED
    BY <1>6, <1>7, <1>8, <1>9 DEF Allocate, Numbering, EachRowOnce, PendingLast

\* put() moves the pending batch to the end of the queue.
LEMMA PutNumbering ==
  ASSUME TypeInv, Numbering, Put
  PROVE  Numbering'
<1>1. pending # None /\ pending \in Nat
    BY DEF Put, PutWhen, TypeInv, TypeOK, TypeFeed, Control
<1>2. /\ queue \in Seq(Nat \cup {None}) /\ Len(queue) \in Nat
      /\ Len(queue') = Len(queue) + 1
      /\ \A i \in 1 .. Len(queue) : queue'[i] = queue[i]
      /\ queue'[Len(queue) + 1] = pending
      /\ DOMAIN queue = 1 .. Len(queue) /\ DOMAIN queue' = 1 .. Len(queue) + 1
    BY AppendProperties DEF Put, PutWhen, TypeInv, TypeOK, TypeFeed
<1>3. Queued' = Queued \cup {pending}
    BY <1>1, <1>2 DEF Queued
<1>4. /\ Held' = Held /\ Settled' = Settled /\ Holding' = Holding
      /\ Pending = {pending} /\ Pending' = {}
    BY <1>1 DEF Put, PutWhen, Held, Holding, Settled, Pending, workerVars
<1>5. Numbered' = Numbered
    BY <1>3, <1>4 DEF Numbered
<1>6. pending \notin Queued
    BY <1>4 DEF Numbering, EachRowOnce, Apart
<1>7. QueuedOnce'
    BY <1>1, <1>2, <1>6 DEF Numbering, EachRowOnce, QueuedOnce, Queued
<1>8. HeldOnce' /\ SettledOnce'
    BY <1>4 DEF Put, PutWhen, Numbering, EachRowOnce, HeldOnce, SettledOnce,
                workerVars
<1>9. Apart' /\ Spaced'
    BY <1>3, <1>4, <1>5 DEF Numbering, EachRowOnce, Apart, Spaced
<1>10. NoHoles'
    BY <1>5 DEF Put, PutWhen, Numbering, NoHoles, RowsOf
<1> QED
    BY <1>7, <1>8, <1>9, <1>10
    DEF Put, PutWhen, Numbering, EachRowOnce, PendingLast

\* Giving a batch back takes away the last numbers, and only these.
LEMMA GiveBackNumbering ==
  ASSUME TypeInv, Numbering, GiveBack
  PROVE  Numbering'
<1>1. /\ pending # None /\ pending \in Nat /\ nextSeq = pending + BatchSize
      /\ nextSeq' = pending
    BY DEF GiveBack, GiveBackTo, TypeInv, TypeOK, TypeFeed, Control, Numbering,
           PendingLast
<1>2. /\ Queued' = Queued /\ Held' = Held /\ Settled' = Settled
      /\ Holding' = Holding /\ Pending = {pending} /\ Pending' = {}
    BY <1>1 DEF GiveBack, GiveBackTo, Queued, Held, Holding, Settled, Pending,
                workerVars
<1>3. Numbered = Numbered' \cup {pending} /\ pending \notin Numbered'
    BY <1>2 DEF Numbered, Numbering, EachRowOnce, Apart
<1>4. \A s \in Numbered' : s \in Nat /\ s + BatchSize <= pending
  <2> TAKE s \in Numbered'
  <2>1. s \in Nat /\ s + BatchSize <= pending + BatchSize /\ s # pending
      BY <1>1, <1>3, NumberedBelow DEF Numbering
  <2>2. s < pending
      BY <1>1, <2>1, PlanAssumption
  <2> QED
      BY <1>3, <2>1, <2>2 DEF Numbering, EachRowOnce, Spaced
<1>5. QueuedOnce' /\ HeldOnce' /\ SettledOnce'
    BY <1>2 DEF GiveBack, GiveBackTo, Numbering, EachRowOnce, QueuedOnce, HeldOnce,
                SettledOnce, workerVars
<1>6. Apart' /\ Spaced'
    BY <1>2, <1>3 DEF Numbering, EachRowOnce, Apart, Spaced
<1>7. NoHoles'
  <2>1. RowsOf(Numbered) = RowsOf(Numbered') \cup Rows(pending)
      BY <1>3 DEF RowsOf
  <2>2. RowsOf(Numbered) = 0 .. nextSeq - 1
      BY DEF Numbering, NoHoles
  <2>3. \A r \in RowsOf(Numbered') : r \in Int /\ r < pending
      BY <1>1, <1>4, PlanAssumption DEF RowsOf, Rows
  <2>4. Rows(pending) = pending .. pending + BatchSize - 1
      BY DEF Rows
  <2>5. RowsOf(Numbered') = 0 .. pending - 1
    <3>1. ASSUME NEW r \in RowsOf(Numbered') PROVE r \in 0 .. pending - 1
        BY <1>1, <2>1, <2>2, <2>3, <3>1, PlanAssumption
    <3>2. ASSUME NEW r \in 0 .. pending - 1 PROVE r \in RowsOf(Numbered')
      <4>1. r \in 0 .. nextSeq - 1 /\ r \notin Rows(pending)
          BY <1>1, <2>4, PlanAssumption
      <4> QED
          BY <2>1, <2>2, <4>1
    <3> QED
        BY <3>1, <3>2
  <2> QED
      BY <1>1, <2>5 DEF NoHoles, RowsOf, Rows
<1> QED
    BY <1>5, <1>6, <1>7 DEF GiveBack, GiveBackTo, Numbering, EachRowOnce, PendingLast

\* A sentinel is no batch.
LEMMA SentinelNumbering ==
  ASSUME TypeInv, Numbering, PutSentinel
  PROVE  Numbering'
<1>1. CASE queue' = queue
    BY <1>1, StillNumbering DEF PutSentinel, PutSentinelAs, Holding, workerVars
<1>2. CASE queue' = Append(queue, None)
  <2>1. /\ queue \in Seq(Nat \cup {None}) /\ Len(queue) \in Nat
        /\ Len(queue') = Len(queue) + 1
        /\ \A i \in 1 .. Len(queue) : queue'[i] = queue[i]
        /\ queue'[Len(queue) + 1] = None
        /\ DOMAIN queue = 1 .. Len(queue)
        /\ DOMAIN queue' = 1 .. Len(queue) + 1
      BY <1>2, AppendProperties DEF TypeInv, TypeOK, TypeFeed
  <2>2. Queued' = Queued
      BY <2>1 DEF Queued
  <2>3. /\ Held' = Held /\ Settled' = Settled /\ Holding' = Holding
        /\ Pending' = Pending
      BY DEF PutSentinel, PutSentinelAs, Held, Holding, Settled, Pending,
             workerVars
  <2>4. Numbered' = Numbered
      BY <2>2, <2>3 DEF Numbered
  <2>5. QueuedOnce'
      BY <2>1 DEF Numbering, EachRowOnce, QueuedOnce
  <2>6. HeldOnce' /\ SettledOnce' /\ Apart' /\ Spaced'
      BY <2>2, <2>3, <2>4
      DEF PutSentinel, PutSentinelAs, Numbering, EachRowOnce, HeldOnce,
          SettledOnce, Apart, Spaced, workerVars
  <2>7. NoHoles'
      BY <2>4 DEF PutSentinel, PutSentinelAs, Numbering, NoHoles, RowsOf
  <2> QED
      BY <2>5, <2>6, <2>7
      DEF PutSentinel, PutSentinelAs, Numbering, EachRowOnce, PendingLast
<1> QED
    BY <1>1, <1>2 DEF PutSentinel, PutSentinelAs

\* A worker takes the batch at the head of the queue, or a sentinel.
LEMMA GetNumbering ==
  ASSUME TypeInv, Numbering, NEW w \in Workers, Get(w)
  PROVE  Numbering'
<1> DEFINE h == Head(queue)
<1>1. /\ queue \in Seq(Nat \cup {None}) /\ Len(queue) \in Nat /\ Len(queue) >= 1
      /\ h = queue[1] /\ queue' = Tail(queue)
      /\ Len(queue') = Len(queue) - 1
      /\ \A i \in 1 .. Len(queue) - 1 : queue'[i] = queue[i + 1]
      /\ DOMAIN queue = 1 .. Len(queue)
      /\ DOMAIN queue' = 1 .. Len(queue) - 1
    BY HeadTailProperties DEF Get, TypeInv, TypeOK, TypeFeed
<1>2. QueuedOnce'
  <2> SUFFICES ASSUME NEW i \in DOMAIN queue', NEW j \in DOMAIN queue',
                      queue'[i] = queue'[j], queue'[i] # None
               PROVE  i = j
      BY DEF QueuedOnce
  <2>1. /\ i \in Int /\ j \in Int /\ i + 1 \in DOMAIN queue
        /\ j + 1 \in DOMAIN queue
        /\ queue'[i] = queue[i + 1] /\ queue'[j] = queue[j + 1]
      BY <1>1
  <2>2. i + 1 = j + 1
      BY <2>1 DEF Numbering, EachRowOnce, QueuedOnce
  <2> QED
      BY <2>1, <2>2
<1>3. Queued = Queued' \cup ({h} \ {None}) /\ h \notin Queued'
  <2>1. \A i \in DOMAIN queue : i = 1 \/ i - 1 \in DOMAIN queue'
      BY <1>1
  <2>2. \A i \in DOMAIN queue' : i + 1 \in DOMAIN queue /\ i + 1 # 1
      BY <1>1
  <2>3. \A i \in DOMAIN queue' : queue'[i] = queue[i + 1]
      BY <1>1
  <2>4. \A i \in DOMAIN queue : i # 1 => queue[i] = queue'[i - 1]
      BY <1>1
  <2>5. 1 \in DOMAIN queue
      BY <1>1
  <2>6. Queued \subseteq Queued' \cup ({h} \ {None})
      BY <1>1, <2>1, <2>4 DEF Queued
  <2>7. Queued' \subseteq Queued /\ {h} \ {None} \subseteq Queued
      BY <1>1, <2>2, <2>3, <2>5 DEF Queued
  <2>8. h \notin Queued'
      BY <1>1, <2>2, <2>3, <2>5 DEF Queued, Numbering, EachRowOnce, QueuedOnce
  <2> QED
      BY <2>6, <2>7, <2>8
<1>4. /\ Settled' = Settled /\ Pending' = Pending
      /\ UNCHANGED <<nextSeq, pending, outcome>>
    BY DEF Get, Settled, Pending
<1>5. SettledOnce'
    BY <1>4 DEF Numbering, EachRowOnce, SettledOnce
<1>6. w \notin Holding
    BY DEF Get, Holding
<1>7. CASE h = None
  <2>1. Holding' = Holding /\ \A v \in Holding : item'[v] = item[v]
      BY <1>6, <1>7 DEF Get, Holding, TypeInv, TypeOK, TypeWorkers
  <2>2. Held' = Held
      BY <2>1 DEF Held
  <2>3. Queued' = Queued
      BY <1>3, <1>7
  <2>4. Numbered' = Numbered
      BY <1>4, <2>2, <2>3 DEF Numbered
  <2>5. HeldOnce' /\ Apart' /\ Spaced'
      BY <1>4, <2>1, <2>2, <2>3, <2>4
      DEF Numbering, EachRowOnce, HeldOnce, Apart, Spaced
  <2> QED
      BY <1>2, <1>4, <1>5, <2>4, <2>5
      DEF Numbering, EachRowOnce, NoHoles, RowsOf, PendingLast
<1>8. CASE h # None
  <2>1. /\ Holding' = Holding \cup {w} /\ item'[w] = h
        /\ \A v \in Holding : item'[v] = item[v]
      BY <1>6, <1>8 DEF Get, Holding, TypeInv, TypeOK, TypeWorkers
  <2>2. Held' = Held \cup {h}
      BY <2>1 DEF Held
  <2>3. Queued = Queued' \cup {h} /\ h \notin Queued' /\ h \notin Held
      BY <1>3, <1>8 DEF Numbering, EachRowOnce, Apart
  <2>4. Numbered' = Numbered
      BY <1>4, <2>2, <2>3 DEF Numbered
  <2>5. HeldOnce'
      BY <2>1, <2>3 DEF Numbering, EachRowOnce, HeldOnce, Held
  <2>6. Apart' /\ Spaced'
      BY <1>4, <2>2, <2>3, <2>4 DEF Numbering, EachRowOnce, Apart, Spaced
  <2> QED
      BY <1>2, <1>4, <1>5, <2>4, <2>5, <2>6
      DEF Numbering, EachRowOnce, NoHoles, RowsOf, PendingLast
<1> QED
    BY <1>7, <1>8

\* An export that ends moves the batch from the worker to its outcome.
LEMMA ExportNumbering ==
  ASSUME TypeInv, Numbering, NEW w \in Workers, NEW c \in Outcomes, Export(w, c)
  PROVE  Numbering'
<1>1. w \in Holding /\ Holding' = Holding \ {w}
    BY DEF Export, Holding, TypeInv, TypeOK, TypeWorkers
<1>2. \A v \in Holding' : item'[v] = item[v]
    BY <1>1 DEF Export, Holding, TypeInv, TypeOK, TypeWorkers
<1>3. Held = Held' \cup {item[w]} /\ item[w] \notin Held'
    BY <1>1, <1>2 DEF Held, Numbering, EachRowOnce, HeldOnce
<1>4. \A b \in Outcomes : outcome'[b] = IF b = c THEN outcome[b] \cup {item[w]}
                                        ELSE outcome[b]
    BY DEF Export, TypeInv, TypeOK, TypeWorkers
<1>5. Settled' = Settled \cup {item[w]}
    BY <1>4 DEF Settled
<1>6. /\ Queued' = Queued /\ Pending' = Pending
      /\ UNCHANGED <<nextSeq, pending, queue>>
    BY DEF Export, feedVars, Queued, Pending
<1>7. Numbered' = Numbered
    BY <1>3, <1>5, <1>6 DEF Numbered
<1>8. \A b \in Outcomes : item[w] \notin outcome[b]
    BY <1>3 DEF Settled, Numbering, EachRowOnce, Apart
<1>9. SettledOnce'
    BY <1>4, <1>8 DEF Numbering, EachRowOnce, SettledOnce
<1>10. QueuedOnce' /\ HeldOnce'
    BY <1>1, <1>2, <1>6 DEF Numbering, EachRowOnce, QueuedOnce, HeldOnce
<1>11. Apart' /\ Spaced'
    BY <1>3, <1>5, <1>6, <1>7 DEF Numbering, EachRowOnce, Apart, Spaced
<1> QED
    BY <1>6, <1>7, <1>9, <1>10, <1>11
    DEF Numbering, EachRowOnce, NoHoles, RowsOf, PendingLast

\* Every step of the program keeps every row in one place.
LEMMA NumberingStep == TypeInv /\ Numbering /\ [Next]_vars => Numbering'
<1> SUFFICES ASSUME TypeInv, Numbering, [Next]_vars PROVE Numbering'
    OBVIOUS
<1>1. CASE Allocate \/ Put \/ GiveBack \/ PutSentinel
    BY <1>1, AllocateNumbering, PutNumbering, GiveBackNumbering, SentinelNumbering
<1>2. CASE StartEngine
    BY <1>2, StillNumbering
    DEF StartEngine, Holding, TypeInv, Control, feedVars
<1>3. CASE UNCHANGED <<feedVars, workerVars>>
    BY <1>3, StillNumbering DEF Holding, feedVars, workerVars
<1>4. CASE Main \/ Signal \/ DeadlinePasses
    BY <1>1, <1>2, <1>3, <1>4
    DEF Main, RefuseToStart, BeginStep, LeaveSteps, Goto, PaceCheck, PaceWait,
        PutCheck, PutFull, RecordOffered, StepOffered, DrainDone, DrainTimeout,
        EndStep, EndStepTo, Judge, StopEngine, Join, CloseExporter,
        WriteManifest, Exit, Signal, DeadlinePasses
<1>5. ASSUME NEW w \in Workers, Get(w) PROVE Numbering'
    BY <1>5, GetNumbering
<1>6. ASSUME NEW w \in Workers, Send(w) PROVE Numbering'
    BY <1>6, StillNumbering
    DEF Send, Holding, TypeInv, TypeOK, TypeWorkers, feedVars
<1>7. ASSUME NEW w \in Workers, NEW c \in Outcomes, Export(w, c) PROVE Numbering'
    BY <1>7, ExportNumbering
<1>8. ASSUME NEW w \in Workers, NEW from, NEW to, Move(w, from, to),
             {from, to} \cap {"send", "rpc"} = {}
      PROVE  Numbering'
    BY <1>8, StillNumbering
    DEF Move, Holding, TypeInv, TypeOK, TypeWorkers, feedVars
<1>9. ASSUME NEW w \in Workers, Worker(w) PROVE Numbering'
  <2>1. CASE RecordSuccess(w) \/ ResetConsecutive(w) \/ StepAccepted(w)
      BY <1>8, <2>1 DEF RecordSuccess, BookSuccess, ResetConsecutive, StepAccepted
  <2>2. CASE RecordFailure(w) \/ StepFailed(w)
      BY <1>8, <2>2 DEF RecordFailure, BookFailure, StepFailed, StepFailedTo
  <2>3. CASE CountFailure(w) \/ Halt(w)
      BY <1>8, <2>3 DEF CountFailure, Halt
  <2> QED
      BY <1>5, <1>6, <1>7, <1>9, <2>1, <2>2, <2>3 DEF Worker
<1>10. CASE UNCHANGED vars
    BY <1>3, <1>10 DEF vars, feedVars, workerVars
<1> QED
    BY <1>4, <1>9, <1>10 DEF Next, Terminated

\* The inductive invariant holds in every state of every run.
LEMMA NumberingAlways == Spec => [](TypeInv /\ Numbering)
<1>1. Init => TypeInv /\ Numbering
    BY TypeInit, NumberingInit
<1>2. TypeInv /\ Numbering /\ [Next]_vars => (TypeInv /\ Numbering)'
    BY TypeStep, NumberingStep
<1> QED
    BY <1>1, <1>2, PTL DEF Spec

\* For every pool size, batch size, capacity and interleaving: no sequence
\* number is queued twice, exported twice, or counted under two outcomes.
THEOREM RowsAreUnique == Spec => []EachRowOnce
<1>1. Numbering => EachRowOnce
    BY DEF Numbering
<1> QED
    BY <1>1, NumberingAlways, PTL

\* For every run, the numbers below _next_seq are exactly the rows of the
\* batches numbered: the sequence has no hole whatever was given back.
THEOREM SequenceHasNoHoles == Spec => []NoHoles
<1>1. Numbering => NoHoles
    BY DEF Numbering
<1> QED
    BY <1>1, NumberingAlways, PTL

-----------------------------------------------------------------------------
(* Where the batches go                                                    *)

Outstanding == Queued \cup Held
Offered     == Outstanding \cup Settled

\* put() offers the pending batch, which was nowhere else.
LEMMA PutOffers ==
  ASSUME TypeInv, Numbering, Put
  PROVE  /\ Outstanding' = Outstanding \cup {pending} /\ pending \notin Offered
         /\ pending \in Numbered /\ outcome' = outcome
<1>1. pending # None /\ pending \in Nat
    BY DEF Put, PutWhen, TypeInv, TypeOK, TypeFeed, Control
<1>2. /\ queue \in Seq(Nat \cup {None}) /\ Len(queue) \in Nat
      /\ Len(queue') = Len(queue) + 1
      /\ \A i \in 1 .. Len(queue) : queue'[i] = queue[i]
      /\ queue'[Len(queue) + 1] = pending
      /\ DOMAIN queue = 1 .. Len(queue) /\ DOMAIN queue' = 1 .. Len(queue) + 1
    BY AppendProperties DEF Put, PutWhen, TypeInv, TypeOK, TypeFeed
<1>3. Queued' = Queued \cup {pending}
    BY <1>1, <1>2 DEF Queued
<1>4. Held' = Held /\ pending \in Pending /\ outcome' = outcome
    BY <1>1 DEF Put, PutWhen, Held, Holding, Pending, workerVars
<1> QED
    BY <1>3, <1>4 DEF Outstanding, Offered, Numbered, Numbering, EachRowOnce, Apart

\* The end of an export settles the batch of its worker, and only this one.
LEMMA ExportSettles ==
  ASSUME TypeInv, Numbering, NEW w \in Workers, NEW c \in Outcomes, Export(w, c)
  PROVE  /\ item[w] \in Outstanding /\ item[w] \notin Settled
         /\ Outstanding' = Outstanding \ {item[w]}
         /\ outcome' = [outcome EXCEPT ![c] = @ \cup {item[w]}]
         /\ Settled' = Settled \cup {item[w]}
<1>1. w \in Holding /\ Holding' = Holding \ {w}
    BY DEF Export, Holding, TypeInv, TypeOK, TypeWorkers
<1>2. \A v \in Holding' : item'[v] = item[v]
    BY <1>1 DEF Export, Holding, TypeInv, TypeOK, TypeWorkers
<1>3. Held = Held' \cup {item[w]} /\ item[w] \notin Held'
    BY <1>1, <1>2 DEF Held, Numbering, EachRowOnce, HeldOnce
<1>4. Queued' = Queued
    BY DEF Export, feedVars, Queued
<1>5. item[w] \notin Queued /\ item[w] \notin Settled
    BY <1>3 DEF Numbering, EachRowOnce, Apart
<1>6. outcome' = [outcome EXCEPT ![c] = @ \cup {item[w]}]
    BY DEF Export
<1>7. Settled' = Settled \cup {item[w]}
    BY <1>6 DEF Settled, TypeInv, TypeOK, TypeWorkers
<1> QED
    BY <1>3, <1>4, <1>5, <1>6, <1>7 DEF Outstanding

\* Taking a batch from the queue leaves it outstanding.
LEMMA GetKeeps ==
  ASSUME TypeInv, NEW w \in Workers, Get(w)
  PROVE  Outstanding' = Outstanding
<1> DEFINE h == Head(queue)
<1>1. /\ queue \in Seq(Nat \cup {None}) /\ Len(queue) \in Nat /\ Len(queue) >= 1
      /\ h = queue[1] /\ queue' = Tail(queue)
      /\ Len(queue') = Len(queue) - 1
      /\ \A i \in 1 .. Len(queue) - 1 : queue'[i] = queue[i + 1]
      /\ DOMAIN queue = 1 .. Len(queue)
      /\ DOMAIN queue' = 1 .. Len(queue) - 1
    BY HeadTailProperties DEF Get, TypeInv, TypeOK, TypeFeed
<1>2. Queued = Queued' \cup ({h} \ {None})
  <2>1. \A i \in DOMAIN queue : i = 1 \/ i - 1 \in DOMAIN queue'
      BY <1>1
  <2>2. \A i \in DOMAIN queue' : i + 1 \in DOMAIN queue /\ queue'[i] = queue[i + 1]
      BY <1>1
  <2>3. \A i \in DOMAIN queue : i # 1 => queue[i] = queue'[i - 1]
      BY <1>1
  <2>4. 1 \in DOMAIN queue
      BY <1>1
  <2>5. Queued \subseteq Queued' \cup ({h} \ {None})
      BY <1>1, <2>1, <2>3 DEF Queued
  <2>6. Queued' \subseteq Queued /\ {h} \ {None} \subseteq Queued
      BY <1>1, <2>2, <2>4 DEF Queued
  <2> QED
      BY <2>5, <2>6
<1>3. w \notin Holding
    BY DEF Get, Holding
<1>4. CASE h = None
  <2>1. Holding' = Holding /\ \A v \in Holding : item'[v] = item[v]
      BY <1>3, <1>4 DEF Get, Holding, TypeInv, TypeOK, TypeWorkers
  <2>2. Held' = Held
      BY <2>1 DEF Held
  <2> QED
      BY <1>2, <1>4, <2>2 DEF Outstanding
<1>5. CASE h # None
  <2>1. /\ Holding' = Holding \cup {w} /\ item'[w] = h
        /\ \A v \in Holding : item'[v] = item[v]
      BY <1>3, <1>5 DEF Get, Holding, TypeInv, TypeOK, TypeWorkers
  <2>2. Held' = Held \cup {h}
      BY <2>1 DEF Held
  <2> QED
      BY <1>2, <1>5, <2>2 DEF Outstanding
<1> QED
    BY <1>4, <1>5

\* A step that touches neither the queue nor a worker's batch moves none.
LEMMA StillOutstanding ==
  ASSUME UNCHANGED <<queue, outcome>>, Holding' = Holding,
         \A w \in Holding : item'[w] = item[w]
  PROVE  Outstanding' = Outstanding
BY DEF Outstanding, Queued, Held

\* A sentinel is no batch.
LEMMA SentinelKeeps ==
  ASSUME TypeInv, PutSentinel
  PROVE  Outstanding' = Outstanding
<1>1. CASE queue' = queue
    BY <1>1, StillOutstanding DEF PutSentinel, PutSentinelAs, Holding, workerVars
<1>2. CASE queue' = Append(queue, None)
  <2>1. /\ queue \in Seq(Nat \cup {None}) /\ Len(queue) \in Nat
        /\ \A i \in 1 .. Len(queue) : queue'[i] = queue[i]
        /\ queue'[Len(queue) + 1] = None
        /\ DOMAIN queue = 1 .. Len(queue)
        /\ DOMAIN queue' = 1 .. Len(queue) + 1
      BY <1>2, AppendProperties DEF TypeInv, TypeOK, TypeFeed
  <2>2. Queued' = Queued
      BY <2>1 DEF Queued
  <2>3. Held' = Held
      BY DEF PutSentinel, PutSentinelAs, Held, Holding, workerVars
  <2> QED
      BY <2>2, <2>3 DEF Outstanding
<1> QED
    BY <1>1, <1>2 DEF PutSentinel, PutSentinelAs

-----------------------------------------------------------------------------
(* The worth of a set of batches                                           *)

Worth(S) == BatchSize * Cardinality(S)

\* A batch more is BatchSize records more.
LEMMA WorthAdd ==
  ASSUME NEW S, IsFiniteSet(S), NEW x, x \notin S
  PROVE  /\ IsFiniteSet(S \cup {x}) /\ Cardinality(S) \in Nat
         /\ Cardinality(S \cup {x}) = Cardinality(S) + 1
         /\ Worth(S) \in Nat /\ Worth(S \cup {x}) = Worth(S) + BatchSize
<1>1. Cardinality(S) \in Nat
    BY FS_CardinalityType
<1>2. IsFiniteSet(S \cup {x}) /\ Cardinality(S \cup {x}) = Cardinality(S) + 1
    BY FS_AddElement
<1>3. \A n \in Nat : BatchSize * n \in Nat /\ BatchSize * (n + 1) = BatchSize * n + BatchSize
    BY PlanAssumption
<1> QED
    BY <1>1, <1>2, <1>3 DEF Worth

\* A batch less is BatchSize records less.
LEMMA WorthRemove ==
  ASSUME NEW S, IsFiniteSet(S), NEW x \in S
  PROVE  /\ IsFiniteSet(S \ {x}) /\ Cardinality(S \ {x}) \in Nat
         /\ Cardinality(S) = Cardinality(S \ {x}) + 1
         /\ Worth(S \ {x}) \in Nat /\ Worth(S) = Worth(S \ {x}) + BatchSize
<1>1. IsFiniteSet(S \ {x})
    BY FS_RemoveElement
<1>2. (S \ {x}) \cup {x} = S
    OBVIOUS
<1> QED
    BY <1>1, <1>2, WorthAdd

\* A part is worth no more than the whole.
LEMMA WorthPart ==
  ASSUME NEW S, IsFiniteSet(S), NEW T \in SUBSET S
  PROVE  IsFiniteSet(T) /\ Cardinality(T) \in Nat /\ Worth(T) \in Nat
         /\ Worth(T) <= Worth(S) /\ Worth(S) \in Nat
<1>1. IsFiniteSet(T) /\ Cardinality(T) <= Cardinality(S)
    BY FS_Subset
<1>2. Cardinality(T) \in Nat /\ Cardinality(S) \in Nat
    BY <1>1, FS_CardinalityType
<1>3. \A m, n \in Nat : m <= n => BatchSize * m <= BatchSize * n /\ BatchSize * m \in Nat
                                  /\ BatchSize * n \in Nat
    BY PlanAssumption
<1> QED
    BY <1>1, <1>2, <1>3 DEF Worth

\* Nothing is worth nothing.
LEMMA WorthNone == IsFiniteSet({}) /\ Cardinality({}) = 0 /\ Worth({}) = 0
<1>1. IsFiniteSet({}) /\ Cardinality({}) = 0
    BY FS_EmptySet
<1> QED
    BY <1>1, PlanAssumption DEF Worth

-----------------------------------------------------------------------------
(* Workers with an outcome in hand                                         *)

Accepting == {w \in Workers : wpc[w] = "success"}
Refusing  == {w \in Workers : wpc[w] = "failure" /\ Rejected(w)}
Failing   == {w \in Workers : wpc[w] \in {"failure", "failStep", "count"} /\ ~Rejected(w)}

\* Sets of workers are finite.
LEMMA PoolParts ==
  /\ IsFiniteSet(Accepting) /\ IsFiniteSet(Refusing)
  /\ IsFiniteSet(Failing) /\ IsFiniteSet(Unbooked)
<1>1. /\ Accepting \in SUBSET Workers /\ Refusing \in SUBSET Workers
      /\ Failing \in SUBSET Workers /\ Unbooked \in SUBSET Workers
    BY DEF Accepting, Refusing, Failing, Unbooked
<1> QED
    BY <1>1, PoolAssumption, FS_Subset

\* A worker that moves enters or leaves these sets alone.
LEMMA WorkerSets ==
  ASSUME TypeInv, NEW w \in Workers, NEW to, wpc' = [wpc EXCEPT ![w] = to],
         \A v \in Workers : v # w => code'[v] = code[v]
  PROVE  /\ Accepting' = IF to = "success" THEN Accepting \cup {w} ELSE Accepting \ {w}
         /\ Refusing' = IF to = "failure" /\ code'[w] = "RESOURCE_EXHAUSTED"
                        THEN Refusing \cup {w} ELSE Refusing \ {w}
         /\ Failing' = IF to \in {"failure", "failStep", "count"}
                          /\ code'[w] # "RESOURCE_EXHAUSTED"
                       THEN Failing \cup {w} ELSE Failing \ {w}
         /\ Unbooked' = IF to \in {"success", "failure"}
                        THEN Unbooked \cup {w} ELSE Unbooked \ {w}
<1>1. /\ wpc'[w] = to /\ \A v \in Workers : v # w => wpc'[v] = wpc[v]
    BY DEF TypeInv, TypeOK, TypeWorkers
<1> QED
    BY <1>1 DEF Accepting, Refusing, Failing, Unbooked, Rejected

\* A worker that has booked its outcome has none in hand.
LEMMA WorkerDone ==
  ASSUME TypeInv, NEW w \in Workers, NEW to, wpc' = [wpc EXCEPT ![w] = to],
         to # "success", to # "failure", \A v \in Workers : v # w => code'[v] = code[v]
  PROVE  /\ Accepting' = Accepting \ {w} /\ Refusing' = Refusing \ {w}
         /\ Unbooked' = Unbooked \ {w}
BY WorkerSets

-----------------------------------------------------------------------------
(* The counters                                                            *)

\* The counters and what they count: the outcomes of the exports less what
\* the workers have in hand, the batches offered less the one just put.
BookInv ==
  /\ IsFiniteSet(Offered)
  /\ totals.offered + (IF pc = "offer" THEN BatchSize ELSE 0) = Worth(Offered)
  /\ totals.accepted + Worth(Accepting) = Worth(outcome["OK"])
  /\ totals.rejected + Worth(Refusing) = Worth(outcome["RESOURCE_EXHAUSTED"])
  /\ BooksBalance
  /\ nextSeq <= MaxRows

\* What is in BookInv is finite and has numbers.
LEMMA BookFacts ==
  ASSUME TypeInv, IsFiniteSet(Offered)
  PROVE  /\ \A c \in Outcomes : IsFiniteSet(outcome[c]) /\ outcome[c] \subseteq Settled
                                /\ Cardinality(outcome[c]) \in Nat
         /\ IsFiniteSet(Settled) /\ Cardinality(Settled) \in Nat
         /\ totals \in TotalsType
         /\ {"OK", "RESOURCE_EXHAUSTED", "raised"} \subseteq Outcomes
         /\ outcome \in [Outcomes -> SUBSET Nat]
<1>1. Settled \in SUBSET Offered
    BY DEF Offered
<1>2. IsFiniteSet(Settled)
    BY <1>1, FS_Subset
<1>3. \A c \in Outcomes : outcome[c] \in SUBSET Settled
    BY DEF Settled
<1>4. \A c \in Outcomes : IsFiniteSet(outcome[c]) /\ Cardinality(outcome[c]) \in Nat
    BY <1>2, <1>3, WorthPart
<1> QED
    BY <1>2, <1>3, <1>4, FS_CardinalityType, CodeAssumption
    DEF TypeInv, TypeOK, TypeBooks, TypeWorkers, Outcomes

\* Nothing is counted at the start.
LEMMA BookStart == Init => BookInv
<1> SUFFICES ASSUME Init PROVE BookInv
    OBVIOUS
<1>1. Offered = {} /\ Settled = {}
    BY DEF Init, Offered, Outstanding, Queued, Held, Holding, Settled
<1>2. Accepting = {} /\ Refusing = {} /\ Unbooked = {}
    BY DEF Init, Accepting, Refusing, Unbooked
<1>3. outcome["OK"] = {} /\ outcome["RESOURCE_EXHAUSTED"] = {} /\ outcome["raised"] = {}
    BY CodeAssumption DEF Init, Outcomes
<1>4. totals.offered = 0 /\ totals.accepted = 0 /\ totals.rejected = 0 /\ totals.sent = 0
      /\ pc # "offer" /\ nextSeq = 0
    BY DEF Init
<1> QED
    BY <1>1, <1>2, <1>3, <1>4, WorthNone, PlanAssumption DEF BookInv, BooksBalance

\* A step that settles, offers and counts nothing keeps the books.
LEMMA BookQuiet ==
  ASSUME BookInv, Outstanding' = Outstanding, UNCHANGED <<outcome, totals>>,
         Accepting' = Accepting, Refusing' = Refusing, Unbooked' = Unbooked,
         pc' = "offer" <=> pc = "offer", nextSeq' <= MaxRows
  PROVE  BookInv'
<1>1. Settled' = Settled
    BY DEF Settled
<1>2. Offered' = Offered
    BY <1>1 DEF Offered
<1> QED
    BY <1>1, <1>2 DEF BookInv, BooksBalance, Worth

\* put() makes a batch one that will be counted as offered.
LEMMA BookPut ==
  ASSUME TypeInv, Numbering, BookInv, Put
  PROVE  BookInv'
<1>1. Outstanding' = Outstanding \cup {pending} /\ pending \notin Offered /\ outcome' = outcome
    BY PutOffers
<1>2. Settled' = Settled /\ Offered' = Offered \cup {pending}
    BY <1>1 DEF Settled, Offered
<1>3. UNCHANGED <<totals, wpc, code, nextSeq>> /\ pc' = "offer" /\ pc = "putting"
    BY DEF Put, PutWhen, workerVars
<1>4. Accepting' = Accepting /\ Refusing' = Refusing /\ Unbooked' = Unbooked
    BY <1>3 DEF Accepting, Refusing, Unbooked, Rejected
<1>5. IsFiniteSet(Offered') /\ Worth(Offered') = Worth(Offered) + BatchSize
    BY <1>1, <1>2, WorthAdd DEF BookInv
<1>6. totals'.offered + BatchSize = Worth(Offered')
    BY <1>3, <1>5, BookFacts, PlanAssumption DEF BookInv, TotalsType
<1>7. BooksBalance'
    BY <1>1, <1>2, <1>3, <1>4 DEF BookInv, BooksBalance
<1>8. Worth(Offered)' = Worth(Offered') /\ Worth(Accepting)' = Worth(Accepting')
      /\ Worth(Refusing)' = Worth(Refusing')
    BY DEF Worth
<1> QED
    BY <1>1, <1>3, <1>4, <1>5, <1>6, <1>7 DEF BookInv, Worth

\* The end of an export is an outcome in hand until its worker books it.
LEMMA BookExport ==
  ASSUME TypeInv, Numbering, BookInv, NEW w \in Workers, NEW c \in Outcomes, Export(w, c)
  PROVE  BookInv'
<1> DEFINE s == item[w]
<1>1. /\ s \in Outstanding /\ s \notin Settled /\ Outstanding' = Outstanding \ {s}
      /\ outcome' = [outcome EXCEPT ![c] = @ \cup {s}] /\ Settled' = Settled \cup {s}
    BY ExportSettles
<1>2. Offered' = Offered
    BY <1>1 DEF Offered
<1>3. /\ \A d \in Outcomes : IsFiniteSet(outcome[d]) /\ outcome[d] \subseteq Settled
                             /\ Cardinality(outcome[d]) \in Nat
      /\ IsFiniteSet(Settled) /\ Cardinality(Settled) \in Nat /\ totals \in TotalsType
      /\ {"OK", "RESOURCE_EXHAUSTED", "raised"} \subseteq Outcomes
      /\ outcome \in [Outcomes -> SUBSET Nat]
    BY BookFacts DEF BookInv
<1>4. /\ outcome'[c] = outcome[c] \cup {s}
      /\ \A d \in Outcomes : d # c => outcome'[d] = outcome[d]
    BY <1>1, <1>3
<1>5. Worth(outcome'[c]) = Worth(outcome[c]) + BatchSize /\ Worth(outcome[c]) \in Nat
      /\ Cardinality(outcome'[c]) = Cardinality(outcome[c]) + 1
    BY <1>1, <1>3, <1>4, WorthAdd
<1>6. Cardinality(Settled') = Cardinality(Settled) + 1
    BY <1>1, <1>3, WorthAdd
<1>7. wpc[w] = "rpc" /\ totals' = totals /\ nextSeq' = nextSeq /\ pc' = pc
    BY DEF Export, feedVars
<1>8. w \notin Accepting /\ w \notin Refusing /\ w \notin Unbooked
    BY <1>7 DEF Accepting, Refusing, Unbooked
<1>9. totals.sent \in Nat /\ totals.accepted \in Nat /\ totals.rejected \in Nat
    BY <1>3 DEF TotalsType
<1>10. /\ Cardinality(Unbooked) \in Nat /\ Worth(Accepting) \in Nat /\ Worth(Refusing) \in Nat
       /\ Worth(Accepting \cup {w}) = Worth(Accepting) + BatchSize
       /\ Worth(Refusing \cup {w}) = Worth(Refusing) + BatchSize
       /\ Cardinality(Unbooked \cup {w}) = Cardinality(Unbooked) + 1
    BY <1>8, PoolParts, WorthAdd
<1>11. Accepting \ {w} = Accepting /\ Refusing \ {w} = Refusing /\ Unbooked \ {w} = Unbooked
    BY <1>8
<1>12. IsFiniteSet(Offered)' /\ Worth(Offered)' = Worth(Offered)
    BY <1>2 DEF BookInv, Worth
<1>13. CASE c = "raised"
  <2>1. wpc' = [wpc EXCEPT ![w] = "get"] /\ \A v \in Workers : v # w => code'[v] = code[v]
      BY <1>13 DEF Export
  <2>2. Accepting' = Accepting /\ Refusing' = Refusing /\ Unbooked' = Unbooked
      BY <1>11, <2>1, WorkerDone
  <2>3. outcome'["OK"] = outcome["OK"]
        /\ outcome'["RESOURCE_EXHAUSTED"] = outcome["RESOURCE_EXHAUSTED"]
      BY <1>3, <1>4, <1>13
  <2>4. BooksBalance'
      BY <1>3, <1>5, <1>6, <1>7, <1>9, <1>10, <1>13, <2>2 DEF BookInv, BooksBalance
  <2> QED
      BY <1>7, <1>12, <2>2, <2>3, <2>4 DEF BookInv, Worth
<1>14. CASE c # "raised"
  <2>1. /\ wpc' = [wpc EXCEPT ![w] = IF c = "OK" THEN "success" ELSE "failure"]
        /\ code' = [code EXCEPT ![w] = c]
      BY <1>14 DEF Export
  <2>2. code'[w] = c /\ \A v \in Workers : v # w => code'[v] = code[v]
      BY <2>1 DEF TypeInv, TypeOK, TypeWorkers
  <2>3. /\ Accepting' = IF c = "OK" THEN Accepting \cup {w} ELSE Accepting
        /\ Refusing' = IF c = "RESOURCE_EXHAUSTED" THEN Refusing \cup {w} ELSE Refusing
        /\ Unbooked' = Unbooked \cup {w}
    <3>1. CASE c = "OK"
        BY <1>11, <2>1, <2>2, <3>1, WorkerSets
    <3>2. CASE c # "OK"
        BY <1>11, <2>1, <2>2, <3>2, WorkerSets
    <3> QED
        BY <3>1, <3>2
  <2>4. BooksBalance'
    <3>1. outcome'["raised"] = outcome["raised"] /\ Cardinality(outcome["raised"]) \in Nat
        BY <1>3, <1>4, <1>14
    <3> QED
        BY <1>3, <1>6, <1>7, <1>9, <1>10, <2>3, <3>1 DEF BookInv, BooksBalance
  <2>5. totals.accepted + Worth(Accepting') = Worth(outcome'["OK"])
      BY <1>3, <1>4, <1>5, <1>9, <1>10, <2>3, PlanAssumption DEF BookInv
  <2>6. totals.rejected + Worth(Refusing') = Worth(outcome'["RESOURCE_EXHAUSTED"])
    <3>1. CASE c = "RESOURCE_EXHAUSTED"
      <4>1. Worth(Refusing') = Worth(Refusing) + BatchSize
            /\ Worth(outcome'["RESOURCE_EXHAUSTED"]) =
                 Worth(outcome["RESOURCE_EXHAUSTED"]) + BatchSize
          BY <1>5, <1>10, <2>3, <3>1
      <4>2. totals.rejected + Worth(Refusing) = Worth(outcome["RESOURCE_EXHAUSTED"])
          BY DEF BookInv
      <4> QED
          BY <1>9, <1>10, <4>1, <4>2, PlanAssumption
    <3>2. CASE c # "RESOURCE_EXHAUSTED"
        BY <1>3, <1>4, <2>3, <3>2 DEF BookInv
    <3> QED
        BY <3>1, <3>2
  <2> QED
      BY <1>7, <1>12, <2>4, <2>5, <2>6 DEF BookInv, Worth
<1> QED
    BY <1>13, <1>14

\* record_offered() counts the batch just put.
LEMMA BookOffered ==
  ASSUME TypeInv, BookInv, RecordOffered
  PROVE  /\ BookInv' /\ totals'.offered = Worth(Offered) /\ Offered' = Offered
<1>1. /\ UNCHANGED <<queue, outcome, wpc, item, code, nextSeq>>
      /\ totals' = [totals EXCEPT !.offered = @ + BatchSize]
      /\ pc = "offer" /\ pc' = "offerStep"
    BY DEF RecordOffered, feedVars, workerVars
<1>2. totals \in TotalsType
    BY DEF TypeInv, TypeOK, TypeBooks
<1>3. /\ totals'.offered = totals.offered + BatchSize /\ totals.offered \in Nat
      /\ totals'.accepted = totals.accepted /\ totals'.rejected = totals.rejected
      /\ totals'.sent = totals.sent
    BY <1>1, <1>2 DEF TotalsType
<1>4. Offered' = Offered /\ Settled' = Settled
    BY <1>1 DEF Offered, Outstanding, Queued, Held, Holding, Settled
<1>5. Accepting' = Accepting /\ Refusing' = Refusing /\ Unbooked' = Unbooked
    BY <1>1 DEF Accepting, Refusing, Unbooked, Rejected
<1>6. totals'.offered = Worth(Offered)
    BY <1>1, <1>3 DEF BookInv
<1>7. totals'.offered + 0 = totals'.offered
    BY <1>3, PlanAssumption
<1> QED
    BY <1>1, <1>3, <1>4, <1>5, <1>6, <1>7 DEF BookInv, BooksBalance, Worth

\* record_success() counts the ack its worker has in hand.
LEMMA BookAck ==
  ASSUME TypeInv, BookInv, NEW w \in Workers, RecordSuccess(w)
  PROVE  /\ BookInv' /\ Outstanding' = Outstanding
         /\ totals'.accepted <= Worth(outcome["OK"])
<1>1. /\ UNCHANGED <<queue, outcome, code, nextSeq, pc>> /\ wpc[w] = "success"
      /\ wpc' = [wpc EXCEPT ![w] = "reset"]
      /\ totals' = [totals EXCEPT !.sent = @ + 1, !.accepted = @ + BatchSize]
      /\ item' = item
    BY DEF RecordSuccess, BookSuccess, Move, feedVars
<1>2. totals \in TotalsType
    BY DEF TypeInv, TypeOK, TypeBooks
<1>3. /\ totals'.accepted = totals.accepted + BatchSize /\ totals'.sent = totals.sent + 1
      /\ totals'.offered = totals.offered /\ totals'.rejected = totals.rejected
      /\ totals.accepted \in Nat /\ totals.sent \in Nat
    BY <1>1, <1>2 DEF TotalsType
<1>4. Holding' = Holding
    BY <1>1 DEF Holding, TypeInv, TypeOK, TypeWorkers
<1>5. Outstanding' = Outstanding /\ Offered' = Offered /\ Settled' = Settled
    BY <1>1, <1>4, StillOutstanding DEF Offered, Settled
<1>6. w \in Accepting /\ w \in Unbooked /\ w \notin Refusing
    BY <1>1 DEF Accepting, Refusing, Unbooked
<1>7. Accepting' = Accepting \ {w} /\ Refusing' = Refusing /\ Unbooked' = Unbooked \ {w}
  <2>1. \A v \in Workers : v # w => code'[v] = code[v]
      BY <1>1
  <2>2. /\ Accepting' = Accepting \ {w} /\ Refusing' = Refusing \ {w}
        /\ Unbooked' = Unbooked \ {w}
      BY <1>1, <2>1, WorkerDone
  <2> QED
      BY <1>6, <2>2
<1>8. /\ Worth(Accepting) = Worth(Accepting \ {w}) + BatchSize
      /\ Worth(Accepting \ {w}) \in Nat /\ Cardinality(Unbooked \ {w}) \in Nat
      /\ Cardinality(Unbooked) = Cardinality(Unbooked \ {w}) + 1
    BY <1>6, PoolParts, WorthRemove
<1>9. totals'.accepted + Worth(Accepting \ {w}) = Worth(outcome["OK"])
    BY <1>3, <1>8, PlanAssumption DEF BookInv
<1>10. totals'.accepted <= Worth(outcome["OK"])
    BY <1>3, <1>8, <1>9, PlanAssumption
<1>11. BooksBalance'
    BY <1>1, <1>3, <1>5, <1>7, <1>8 DEF BookInv, BooksBalance
<1> QED
    BY <1>1, <1>3, <1>5, <1>7, <1>9, <1>10, <1>11 DEF BookInv, Worth

\* record_failure() counts the failure its worker has in hand, and as
\* rejected if the collector pushed back.
LEMMA BookRefusal ==
  ASSUME TypeInv, BookInv, NEW w \in Workers, RecordFailure(w)
  PROVE  /\ BookInv' /\ Outstanding' = Outstanding
         /\ Rejected(w) => totals'.rejected <= Worth(outcome["RESOURCE_EXHAUSTED"])
<1>1. /\ UNCHANGED <<queue, outcome, code, nextSeq, pc>> /\ wpc[w] = "failure"
      /\ wpc' = [wpc EXCEPT ![w] = "failStep"]
      /\ totals' = [totals EXCEPT !.sent = @ + 1, !.failed = @ + 1,
                      !.rejected = IF Rejected(w) THEN @ + BatchSize ELSE @]
      /\ item' = item
    BY DEF RecordFailure, BookFailure, Move, feedVars
<1>2. totals \in TotalsType
    BY DEF TypeInv, TypeOK, TypeBooks
<1>3. /\ totals'.rejected = (IF Rejected(w) THEN totals.rejected + BatchSize
                             ELSE totals.rejected)
      /\ totals'.sent = totals.sent + 1
      /\ totals'.offered = totals.offered /\ totals'.accepted = totals.accepted
      /\ totals.rejected \in Nat /\ totals.sent \in Nat
    BY <1>1, <1>2 DEF TotalsType
<1>4. Holding' = Holding
    BY <1>1 DEF Holding, TypeInv, TypeOK, TypeWorkers
<1>5. Outstanding' = Outstanding /\ Offered' = Offered /\ Settled' = Settled
    BY <1>1, <1>4, StillOutstanding DEF Offered, Settled
<1>6. w \notin Accepting /\ w \in Unbooked /\ (w \in Refusing <=> Rejected(w))
    BY <1>1 DEF Accepting, Refusing, Unbooked
<1>7. Accepting' = Accepting /\ Refusing' = Refusing \ {w} /\ Unbooked' = Unbooked \ {w}
  <2>1. \A v \in Workers : v # w => code'[v] = code[v]
      BY <1>1
  <2>2. /\ Accepting' = Accepting \ {w} /\ Refusing' = Refusing \ {w}
        /\ Unbooked' = Unbooked \ {w}
      BY <1>1, <2>1, WorkerDone
  <2> QED
      BY <1>6, <2>2
<1>8. /\ Cardinality(Unbooked \ {w}) \in Nat
      /\ Cardinality(Unbooked) = Cardinality(Unbooked \ {w}) + 1
    BY <1>6, PoolParts, WorthRemove
<1>9. totals'.rejected + Worth(Refusing \ {w}) = Worth(outcome["RESOURCE_EXHAUSTED"])
      /\ (Rejected(w) => Worth(Refusing \ {w}) \in Nat)
  <2>1. CASE Rejected(w)
    <3>1. Worth(Refusing) = Worth(Refusing \ {w}) + BatchSize /\ Worth(Refusing \ {w}) \in Nat
        BY <1>6, <2>1, PoolParts, WorthRemove
    <3> QED
        BY <1>3, <2>1, <3>1, PlanAssumption DEF BookInv
  <2>2. CASE ~Rejected(w)
    <3>1. Refusing \ {w} = Refusing
        BY <1>6, <2>2
    <3> QED
        BY <1>3, <2>2, <3>1 DEF BookInv
  <2> QED
      BY <2>1, <2>2
<1>10. Rejected(w) => totals'.rejected <= Worth(outcome["RESOURCE_EXHAUSTED"])
    BY <1>3, <1>9, PlanAssumption
<1>11. BooksBalance'
    BY <1>1, <1>3, <1>5, <1>7, <1>8 DEF BookInv, BooksBalance
<1> QED
    BY <1>1, <1>3, <1>5, <1>7, <1>9, <1>10, <1>11 DEF BookInv, Worth

\* A step that neither moves a batch in or out nor counts one.
Quiet ==
  /\ Outstanding' = Outstanding /\ UNCHANGED <<outcome, totals>>
  /\ Accepting' = Accepting /\ Refusing' = Refusing /\ Unbooked' = Unbooked
  /\ pc' = "offer" <=> pc = "offer"
  /\ nextSeq' <= MaxRows

\* The main thread is quiet but for put() and record_offered().
LEMMA QuietMain ==
  ASSUME TypeInv, Numbering, BookInv,
         Main \/ Signal \/ DeadlinePasses \/ UNCHANGED vars, ~Put, ~RecordOffered
  PROVE  Quiet
<1>1. nextSeq \in Nat /\ nextSeq <= MaxRows
    BY DEF TypeInv, TypeOK, TypeFeed, BookInv
<1>2. ASSUME UNCHANGED <<wpc, item, code, outcome, totals, queue>>,
             pc' = "offer" <=> pc = "offer", nextSeq' <= MaxRows
      PROVE  Quiet
  <2>1. Outstanding' = Outstanding
      BY <1>2, StillOutstanding DEF Holding
  <2> QED
      BY <1>2, <2>1 DEF Quiet, Accepting, Refusing, Unbooked, Rejected
<1>3. CASE Allocate
    BY <1>2, <1>3 DEF Allocate, workerVars
<1>4. CASE GiveBack
  <2>1. pending \in Nat /\ nextSeq' = pending /\ nextSeq = pending + BatchSize
      BY <1>4 DEF GiveBack, GiveBackTo, Control, TypeInv, TypeOK, TypeFeed, Numbering,
                  PendingLast
  <2>2. nextSeq' <= MaxRows
      BY <1>1, <2>1, PlanAssumption
  <2> QED
      BY <1>2, <1>4, <2>2 DEF GiveBack, GiveBackTo, workerVars
<1>5. CASE PutSentinel
  <2>1. UNCHANGED <<wpc, code, outcome, totals, pc, nextSeq>>
      BY <1>5 DEF PutSentinel, PutSentinelAs, workerVars
  <2> QED
      BY <1>1, <1>5, <2>1, SentinelKeeps DEF Quiet, Accepting, Refusing, Unbooked, Rejected
<1>6. CASE StartEngine
  <2>1. \A w \in Workers : wpc[w] = "unborn"
      BY <1>6 DEF StartEngine, TypeInv, Control
  <2>2. UNCHANGED <<code, outcome, totals, queue, nextSeq>> /\ wpc' = [w \in Workers |-> "get"]
        /\ pc = "boot" /\ pc' = "steps"
      BY <1>6 DEF StartEngine, feedVars
  <2>3. Holding = {} /\ Holding' = {}
      BY <2>1, <2>2 DEF Holding
  <2>4. Outstanding' = Outstanding
      BY <2>2, <2>3, StillOutstanding
  <2>5. Accepting' = Accepting /\ Refusing' = Refusing /\ Unbooked' = Unbooked
      BY <2>1, <2>2 DEF Accepting, Refusing, Unbooked
  <2> QED
      BY <1>1, <2>2, <2>4, <2>5 DEF Quiet
<1>7. CASE RefuseToStart \/ BeginStep \/ LeaveSteps \/ PaceCheck \/ PaceWait \/ PutCheck
           \/ PutFull \/ StepOffered \/ DrainDone \/ DrainTimeout
    BY <1>1, <1>2, <1>7
    DEF RefuseToStart, BeginStep, LeaveSteps, PaceCheck, PaceWait, PutCheck, PutFull,
        StepOffered, DrainDone, DrainTimeout, Goto, feedVars, workerVars
<1>8. CASE EndStep \/ Judge \/ StopEngine \/ Join \/ CloseExporter \/ WriteManifest \/ Exit
           \/ Signal \/ DeadlinePasses \/ UNCHANGED vars
    BY <1>1, <1>2, <1>8
    DEF EndStep, EndStepTo, Judge, StopEngine, Join, CloseExporter, WriteManifest, Exit,
        Signal, DeadlinePasses, Goto, feedVars, workerVars, vars
<1> QED
    BY <1>3, <1>4, <1>5, <1>6, <1>7, <1>8 DEF Main

\* A worker is quiet but for the end of an export and its booking.
LEMMA QuietWorker ==
  ASSUME TypeInv, BookInv, NEW w \in Workers,
         \/ Get(w) \/ Send(w) \/ ResetConsecutive(w) \/ StepAccepted(w)
         \/ StepFailed(w) \/ CountFailure(w) \/ Halt(w)
  PROVE  Quiet
<1>1. ASSUME NEW to, to # "success", to # "failure",
             wpc[w] # "success", wpc[w] # "failure", wpc' = [wpc EXCEPT ![w] = to],
             \A v \in Workers : v # w => code'[v] = code[v],
             UNCHANGED <<outcome, totals, pc, nextSeq>>, Outstanding' = Outstanding
      PROVE  Quiet
  <2>1. w \notin Accepting /\ w \notin Refusing /\ w \notin Unbooked
      BY <1>1 DEF Accepting, Refusing, Unbooked
  <2>2. Accepting' = Accepting /\ Refusing' = Refusing /\ Unbooked' = Unbooked
      BY <1>1, <2>1, WorkerDone
  <2> QED
      BY <1>1, <2>2 DEF Quiet, BookInv
<1>2. CASE Get(w)
  <2>1. UNCHANGED <<outcome, totals, pc, nextSeq, code>> /\ wpc[w] = "get"
        /\ wpc' = [wpc EXCEPT ![w] = IF Head(queue) = None THEN "gone" ELSE "send"]
      BY <1>2 DEF Get
  <2> QED
      BY <1>1, <1>2, <2>1, GetKeeps
<1>3. CASE Send(w)
  <2>1. UNCHANGED <<queue, item, outcome, totals, pc, nextSeq, code>> /\ wpc[w] = "send"
        /\ wpc' = [wpc EXCEPT ![w] = "rpc"]
      BY <1>3 DEF Send, feedVars
  <2>2. Holding' = Holding
      BY <2>1 DEF Holding, TypeInv, TypeOK, TypeWorkers
  <2> QED
      BY <1>1, <2>1, <2>2, StillOutstanding
<1>4. ASSUME NEW from, NEW to, Move(w, from, to), UNCHANGED <<totals>>,
             {from, to} \cap {"send", "rpc", "success", "failure"} = {}
      PROVE  Quiet
  <2>1. UNCHANGED <<queue, outcome, pc, nextSeq>> /\ wpc[w] = from
        /\ wpc' = [wpc EXCEPT ![w] = to]
      BY <1>4 DEF Move, feedVars
  <2>2. \A v \in Workers : v # w => code'[v] = code[v] /\ item'[v] = item[v]
      BY <1>4 DEF Move, TypeInv, TypeOK, TypeWorkers
  <2>3. Holding' = Holding /\ w \notin Holding
      BY <1>4, <2>1 DEF Holding, TypeInv, TypeOK, TypeWorkers
  <2>4. Outstanding' = Outstanding
      BY <2>1, <2>2, <2>3, StillOutstanding DEF Holding
  <2> QED
      BY <1>1, <1>4, <2>1, <2>2, <2>4
<1>5. CASE ResetConsecutive(w) \/ StepAccepted(w) \/ Halt(w)
    BY <1>4, <1>5 DEF ResetConsecutive, StepAccepted, Halt
<1>6. CASE StepFailed(w) \/ CountFailure(w)
    BY <1>4, <1>6 DEF StepFailed, StepFailedTo, CountFailure
<1> QED
    BY <1>2, <1>3, <1>5, <1>6

\* The books are kept by every step.
LEMMA BookStep ==
  ASSUME TypeInv, Numbering, BookInv, [Next]_vars
  PROVE  BookInv'
<1>1. CASE Put
    BY <1>1, BookPut
<1>2. CASE RecordOffered
    BY <1>2, BookOffered
<1>3. Quiet => BookInv'
    BY BookQuiet DEF Quiet
<1>4. CASE Main \/ Signal \/ DeadlinePasses \/ UNCHANGED vars
    BY <1>1, <1>2, <1>3, <1>4, QuietMain
<1>5. ASSUME NEW w \in Workers, Worker(w) PROVE BookInv'
  <2>1. CASE \E c \in Outcomes : Export(w, c)
      BY <2>1, BookExport
  <2>2. CASE RecordSuccess(w)
      BY <2>2, BookAck
  <2>3. CASE RecordFailure(w)
      BY <2>3, BookRefusal
  <2> QED
      BY <1>3, <1>5, <2>1, <2>2, <2>3, QuietWorker DEF Worker
<1> QED
    BY <1>4, <1>5 DEF Next, Terminated

\* The books are in order in every state of every run.
LEMMA BookAlways == Spec => [](TypeInv /\ Numbering /\ BookInv)
<1>1. Init => TypeInv /\ Numbering /\ BookInv
    BY TypeInit, NumberingInit, BookStart
<1>2. TypeInv /\ Numbering /\ BookInv /\ [Next]_vars => (TypeInv /\ Numbering /\ BookInv)'
    BY TypeStep, NumberingStep, BookStep
<1> QED
    BY <1>1, <1>2, PTL DEF Spec

\* For every pool and every interleaving: the requests counted as sent are
\* the exports that ended, less those a worker has not booked yet.
THEOREM BooksAlwaysBalance == Spec => []BooksBalance
<1>1. BookInv => BooksBalance
    BY DEF BookInv
<1> QED
    BY <1>1, BookAlways, PTL

-----------------------------------------------------------------------------
(* LoadGen implements RunLedger                                            *)

\* The manifest is there exactly at the end, and a process that never
\* started its engine offered nothing.
EndInv ==
  /\ manifest # None => pc \in {"return", "exit"}
  /\ pc = "return" => manifest # None
  /\ pc = "boot" => Offered = {}

\* There is no manifest at the start, and nothing is offered.
LEMMA EndStart == Init => EndInv
BY DEF Init, EndInv, Offered, Outstanding, Queued, Held, Holding, Settled

\* A manifest is no None.
LEMMA ManifestIsSomething ==
  ASSUME TypeInv, WriteManifest
  PROVE  manifest' # None
<1>1. stepNo > 0 => 1 \in Steps /\ stepNo \in Steps
    BY PlanAssumption DEF TypeInv, TypeOK, TypeMain, Steps
<1>2. stepNo > 0 => results[1].seq_start \in Int /\ results[stepNo].seq_end \in Int
    BY <1>1 DEF TypeInv, TypeOK, TypeMain, ResultType
<1>3. manifest' \in ManifestType
    BY <1>2 DEF WriteManifest, ManifestType, TypeInv, TypeOK, TypeBooks
<1> QED
    BY <1>3, NoneAssumption

\* Only WriteManifest writes a manifest, and the process ends after it.
LEMMA EndKept ==
  ASSUME TypeInv, EndInv, [Next]_vars
  PROVE  EndInv'
<1>1. ASSUME manifest' = manifest, pc' # "boot", pc' # "return", pc \notin {"return", "exit"}
      PROVE  EndInv'
    BY <1>1 DEF EndInv
<1>2. CASE RefuseToStart
    BY <1>2 DEF RefuseToStart, EndInv
<1>3. CASE WriteManifest
    BY <1>3, ManifestIsSomething DEF WriteManifest, EndInv
<1>4. CASE Exit
    BY <1>4 DEF Exit, EndInv
<1>5. CASE StartEngine \/ BeginStep \/ LeaveSteps \/ PaceCheck \/ PaceWait \/ Allocate
           \/ PutCheck \/ Put \/ PutFull \/ GiveBack
    BY <1>1, <1>5
    DEF StartEngine, BeginStep, LeaveSteps, PaceCheck, PaceWait, Allocate, PutCheck, Put,
        PutWhen, PutFull, GiveBack, GiveBackTo, Goto, endVars
<1>6. CASE RecordOffered \/ StepOffered \/ DrainDone \/ DrainTimeout \/ EndStep \/ Judge
           \/ StopEngine \/ PutSentinel \/ Join \/ CloseExporter
    BY <1>1, <1>6
    DEF RecordOffered, StepOffered, DrainDone, DrainTimeout, EndStep, EndStepTo, Judge,
        StopEngine, PutSentinel, PutSentinelAs, Join, CloseExporter, Goto, endVars
<1>7. CASE Signal \/ DeadlinePasses
    BY <1>1, <1>7 DEF Signal, DeadlinePasses, endVars, InStep, EndInv
<1>8. ASSUME NEW w \in Workers, Worker(w) PROVE EndInv'
  <2>1. manifest' = manifest /\ pc' = pc /\ pc # "boot"
      BY <1>8
      DEF Worker, Get, Send, Export, RecordSuccess, BookSuccess, ResetConsecutive,
          StepAccepted, RecordFailure, BookFailure, StepFailed, StepFailedTo, CountFailure,
          Halt, Move, endVars, TypeInv, Control
  <2> QED
      BY <2>1 DEF EndInv
<1>9. CASE UNCHANGED vars
    BY <1>9
    DEF vars, endVars, EndInv, Offered, Outstanding, Queued, Held, Holding, Settled
<1> QED
    BY <1>2, <1>3, <1>4, <1>5, <1>6, <1>7, <1>8, <1>9 DEF Next, Terminated, Main

\* The generator starts in a state the ledger starts in.
LEMMA LedgerStart == Init => Ledger!Init
BY DEF Init, Ledger!Init, Queued, Held, Holding, Summary

\* The ledger counts as the generator does.
LEMMA LedgerSets ==
  /\ Ledger!Settled = Settled
  /\ \A S : Ledger!Worth(S) = Worth(S)
<1>1. \A S : Ledger!Cardinality(S) = Cardinality(S)
    BY DEF Ledger!Cardinality, Cardinality
<1> QED
    BY <1>1 DEF Ledger!Settled, Settled, Ledger!Worth, Worth

\* Summary of the counters, with what each booking does to it.
LEMMA SummaryFacts ==
  ASSUME NEW t \in TotalsType
  PROVE  /\ Summary(t) \in SummaryType
         /\ Summary(t)["offered"] = t.offered /\ Summary(t)["accepted"] = t.accepted
         /\ Summary(t)["rejected"] = t.rejected
         /\ \A n \in Nat :
              /\ [Summary(t) EXCEPT !["offered"] = @ + n] =
                   [offered |-> t.offered + n, accepted |-> t.accepted, rejected |-> t.rejected]
              /\ [Summary(t) EXCEPT !["accepted"] = @ + n] =
                   [offered |-> t.offered, accepted |-> t.accepted + n, rejected |-> t.rejected]
              /\ [Summary(t) EXCEPT !["rejected"] = @ + n] =
                   [offered |-> t.offered, accepted |-> t.accepted, rejected |-> t.rejected + n]
BY DEF Summary, SummaryType, TotalsType

Published == IF manifest = None THEN None ELSE Summary(manifest.totals)

\* The ledger is at rest when batches, counters and manifest are.
LEMMA LedgerRests ==
  ASSUME Outstanding' = Outstanding, UNCHANGED <<outcome, manifest>>,
         Summary(totals)' = Summary(totals), pc' = "exit" <=> pc = "exit"
  PROVE  UNCHANGED Ledger!vars
<1>1. (pc = "exit")' = (pc = "exit")
    BY Zenon
<1> QED
    BY <1>1 DEF Ledger!vars, Outstanding, Summary

\* put() is the ledger's Offer.
LEMMA PutIsOffer ==
  ASSUME TypeInv, Numbering, BookInv, EndInv, Put
  PROVE  Ledger!Next
<1>1. /\ pc = "putting" /\ pc' = "offer" /\ UNCHANGED <<totals, manifest>>
    BY DEF Put, PutWhen, endVars
<1>2. manifest = None
    BY <1>1 DEF EndInv
<1>3. Outstanding' = Outstanding \cup {pending} /\ pending \notin Offered /\ outcome' = outcome
    BY PutOffers
<1>4. pending \in 0 .. MaxRows
  <2>1. pending \in Nat /\ nextSeq = pending + BatchSize /\ nextSeq <= MaxRows
      BY <1>1 DEF Control, TypeInv, TypeOK, TypeFeed, Numbering, PendingLast, BookInv
  <2> QED
      BY <2>1, PlanAssumption
<1>5. (pc = "exit") = FALSE /\ (pc' = "exit") = FALSE
    BY <1>1
<1>6. Ledger!Offer(pending)
    BY <1>1, <1>2, <1>3, <1>5, LedgerSets DEF Ledger!Offer, Outstanding, Offered, Summary
<1> QED
    BY <1>4, <1>5, <1>6 DEF Ledger!Next

\* The end of an export is the ledger's Settle.
LEMMA ExportIsSettle ==
  ASSUME TypeInv, Numbering, BookInv, pc # "exit",
         NEW w \in Workers, NEW c \in Outcomes, Export(w, c)
  PROVE  Ledger!Next
<1>1. UNCHANGED <<totals, manifest, pc>>
    BY DEF Export, endVars
<1>2. /\ item[w] \in Outstanding /\ Outstanding' = Outstanding \ {item[w]}
      /\ outcome' = [outcome EXCEPT ![c] = @ \cup {item[w]}]
    BY ExportSettles
<1>3. Ledger!Settle(item[w], c)
    BY <1>1, <1>2 DEF Ledger!Settle, Outstanding, Summary
<1>4. item[w] \in 0 .. MaxRows
  <2>1. item[w] \in Nat /\ item[w] + BatchSize <= nextSeq
      BY <1>2, NumberedBelow DEF Numbered, Outstanding, Numbering
  <2>2. nextSeq \in Nat /\ nextSeq <= MaxRows
      BY DEF TypeInv, TypeOK, TypeFeed, BookInv
  <2> QED
      BY <2>1, <2>2, PlanAssumption
<1> QED
    BY <1>3, <1>4 DEF Ledger!Next

\* record_offered(), record_success() and a rejection's record_failure() are
\* the ledger's three ways to count.
LEMMA OfferedIsCounted ==
  ASSUME TypeInv, BookInv, EndInv, RecordOffered
  PROVE  Ledger!Next
<1>1. /\ UNCHANGED <<queue, outcome, wpc, item, manifest>> /\ pc = "offer" /\ pc' = "offerStep"
      /\ totals' = [totals EXCEPT !.offered = @ + BatchSize]
    BY DEF RecordOffered, feedVars, workerVars, endVars
<1>2. manifest = None
    BY <1>1 DEF EndInv
<1>3. totals \in TotalsType
    BY DEF TypeInv, TypeOK, TypeBooks
<1>4. Outstanding' = Outstanding
    BY <1>1, StillOutstanding DEF Holding
<1>5. totals.offered + BatchSize = Worth(Offered)
    BY <1>1 DEF BookInv
<1>6. Summary(totals)' = [Summary(totals) EXCEPT !["offered"] = @ + BatchSize]
  <2>1. /\ totals'.offered = totals.offered + BatchSize
        /\ totals'.accepted = totals.accepted /\ totals'.rejected = totals.rejected
      BY <1>1, <1>3 DEF TotalsType
  <2> QED
      BY <1>3, <2>1, SummaryFacts, PlanAssumption DEF Summary
<1>7. Summary(totals)["offered"] + BatchSize <= Ledger!Worth(Outstanding \cup Ledger!Settled)
  <2>1. Worth(Offered) \in Nat
      BY WorthPart DEF BookInv
  <2> QED
      BY <1>3, <1>5, <2>1, LedgerSets, SummaryFacts DEF Offered
<1>8. (pc = "exit") = FALSE /\ (pc' = "exit") = FALSE
    BY <1>1
<1>9. Ledger!CountOffer
    BY <1>1, <1>2, <1>4, <1>6, <1>7, <1>8
    DEF Ledger!CountOffer, Ledger!Book, Outstanding
<1> QED
    BY <1>8, <1>9 DEF Ledger!Next

\* See OfferedIsCounted.
LEMMA AckIsCounted ==
  ASSUME TypeInv, BookInv, pc # "exit", NEW w \in Workers, RecordSuccess(w)
  PROVE  Ledger!Next
<1>1. /\ UNCHANGED <<outcome, manifest, pc>>
      /\ totals' = [totals EXCEPT !.sent = @ + 1, !.accepted = @ + BatchSize]
    BY DEF RecordSuccess, BookSuccess, Move, endVars
<1>2. totals \in TotalsType
    BY DEF TypeInv, TypeOK, TypeBooks
<1>3. Outstanding' = Outstanding /\ totals'.accepted <= Worth(outcome["OK"])
    BY BookAck
<1>4. /\ totals'.accepted = totals.accepted + BatchSize
      /\ totals'.offered = totals.offered /\ totals'.rejected = totals.rejected
    BY <1>1, <1>2 DEF TotalsType
<1>5. Summary(totals)' = [Summary(totals) EXCEPT !["accepted"] = @ + BatchSize]
    BY <1>2, <1>4, SummaryFacts, PlanAssumption DEF Summary
<1>6. Summary(totals)["accepted"] + BatchSize <= Ledger!Worth(outcome["OK"])
    BY <1>2, <1>3, <1>4, LedgerSets, SummaryFacts
<1>7. Ledger!CountAck
    BY <1>1, <1>3, <1>5, <1>6 DEF Ledger!CountAck, Ledger!Book, Outstanding
<1> QED
    BY <1>7 DEF Ledger!Next

\* A failure that is no rejection does not reach the ledger.
LEMMA FailureIsCounted ==
  ASSUME TypeInv, BookInv, pc # "exit", NEW w \in Workers, RecordFailure(w)
  PROVE  Ledger!Next \/ UNCHANGED Ledger!vars
<1>1. /\ UNCHANGED <<outcome, manifest, pc>>
      /\ totals' = [totals EXCEPT !.sent = @ + 1, !.failed = @ + 1,
                      !.rejected = IF Rejected(w) THEN @ + BatchSize ELSE @]
    BY DEF RecordFailure, BookFailure, Move, endVars
<1>2. totals \in TotalsType
    BY DEF TypeInv, TypeOK, TypeBooks
<1>3. /\ Outstanding' = Outstanding
      /\ Rejected(w) => totals'.rejected <= Worth(outcome["RESOURCE_EXHAUSTED"])
    BY BookRefusal
<1>4. /\ totals'.rejected = (IF Rejected(w) THEN totals.rejected + BatchSize
                             ELSE totals.rejected)
      /\ totals'.offered = totals.offered /\ totals'.accepted = totals.accepted
    BY <1>1, <1>2 DEF TotalsType
<1>5. CASE Rejected(w)
  <2>1. Summary(totals)' = [Summary(totals) EXCEPT !["rejected"] = @ + BatchSize]
      BY <1>2, <1>4, <1>5, SummaryFacts, PlanAssumption DEF Summary
  <2>2. Summary(totals)["rejected"] + BatchSize <= Ledger!Worth(outcome["RESOURCE_EXHAUSTED"])
      BY <1>2, <1>3, <1>4, <1>5, LedgerSets, SummaryFacts
  <2>3. Ledger!CountRefusal
      BY <1>1, <1>3, <2>1, <2>2 DEF Ledger!CountRefusal, Ledger!Book, Outstanding
  <2> QED
      BY <2>3 DEF Ledger!Next
<1>6. CASE ~Rejected(w)
  <2>1. Summary(totals)' = Summary(totals)
      BY <1>4, <1>6 DEF Summary
  <2> QED
      BY <1>1, <1>3, <2>1, LedgerRests
<1> QED
    BY <1>5, <1>6

\* Writing the manifest is the ledger's Publish.
LEMMA ManifestIsPublished ==
  ASSUME TypeInv, Numbering, BookInv, EndInv, WriteManifest
  PROVE  Ledger!Next
<1>1. /\ pc = "manifest" /\ pc' = "return" /\ UNCHANGED totals /\ manifest'.totals = totals
    BY DEF WriteManifest
<1>2. manifest = None /\ manifest' # None
    BY <1>1, ManifestIsSomething DEF EndInv
<1>3. Outstanding' = Outstanding /\ outcome' = outcome
  <2>1. ~Put /\ ~RecordOffered
      BY <1>1 DEF Put, PutWhen, RecordOffered
  <2> QED
      BY <2>1, QuietMain DEF Quiet, Main
<1>4. totals \in TotalsType /\ totals.offered = Worth(Offered)
  <2>1. totals \in TotalsType /\ totals.offered + 0 = totals.offered
      BY DEF TypeInv, TypeOK, TypeBooks, TotalsType
  <2> QED
      BY <1>1, <2>1 DEF BookInv
<1>5. Summary(totals).offered = Ledger!Worth(Outstanding \cup Ledger!Settled)
    BY <1>4, LedgerSets, SummaryFacts DEF Offered
<1>6. (pc = "exit") = FALSE /\ (pc' = "exit") = FALSE
    BY <1>1
<1>7. Ledger!Publish
    BY <1>1, <1>2, <1>3, <1>5, <1>6 DEF Ledger!Publish, Outstanding, Summary
<1> QED
    BY <1>6, <1>7 DEF Ledger!Next

\* The end of the process is the ledger's End.
LEMMA ExitIsEnd ==
  ASSUME TypeInv, Numbering, BookInv, EndInv, Exit \/ RefuseToStart
  PROVE  Ledger!Next
<1>1. /\ UNCHANGED <<totals, manifest>> /\ pc' = "exit" /\ pc \in {"boot", "return"}
    BY DEF Exit, RefuseToStart
<1>2. Outstanding' = Outstanding /\ outcome' = outcome
  <2>1. ~Put /\ ~RecordOffered
      BY <1>1 DEF Put, PutWhen, RecordOffered
  <2> QED
      BY <2>1, QuietMain DEF Quiet, Main
<1>3. Published # None \/ Offered = {}
  <2>1. CASE pc = "boot"
      BY <2>1 DEF EndInv
  <2>2. CASE pc = "return"
    <3>1. manifest # None /\ manifest.totals \in TotalsType
        BY <2>2 DEF EndInv, TypeInv, TypeOK, TypeBooks, ManifestType
    <3>2. Summary(manifest.totals) \in SummaryType
        BY <3>1, SummaryFacts
    <3> QED
        BY <3>1, <3>2, NoneAssumption DEF Published
  <2> QED
      BY <1>1, <2>1, <2>2
<1>4. (pc = "exit") = FALSE /\ (pc' = "exit") = TRUE
    BY <1>1
<1>5. Ledger!End
    BY <1>1, <1>2, <1>3, <1>4, LedgerSets
    DEF Ledger!End, Outstanding, Offered, Published, Summary
<1> QED
    BY <1>4, <1>5 DEF Ledger!Next

\* Every step of the generator is a step of the ledger or leaves it at rest.
LEMMA LedgerStep ==
  ASSUME TypeInv, Numbering, BookInv, EndInv, [Next]_vars
  PROVE  [Ledger!Next]_(Ledger!vars)
<1>1. CASE Put \/ RecordOffered \/ WriteManifest \/ Exit \/ RefuseToStart
    BY <1>1, PutIsOffer, OfferedIsCounted, ManifestIsPublished, ExitIsEnd
<1>2. ASSUME Quiet, manifest' = manifest, pc' = "exit" <=> pc = "exit"
      PROVE  UNCHANGED Ledger!vars
  <2>1. Summary(totals)' = Summary(totals)
      BY <1>2 DEF Quiet, Summary
  <2> QED
      BY <1>2, <2>1, LedgerRests DEF Quiet
<1>3. CASE StartEngine \/ BeginStep \/ LeaveSteps \/ PaceCheck \/ PaceWait \/ Allocate
           \/ PutCheck \/ PutFull \/ GiveBack
  <2>1. \/ /\ manifest' = manifest /\ pc' # "exit" /\ pc # "exit"
           /\ pc \notin {"putting", "offer"}
        \/ PutFull
      BY <1>3
      DEF StartEngine, BeginStep, LeaveSteps, PaceCheck, PaceWait, Allocate, PutCheck,
          GiveBack, GiveBackTo, Goto, endVars
  <2>2. PutFull => manifest' = manifest /\ pc' # "exit" /\ pc # "exit" /\ pc = "putting"
                   /\ pc' = "put"
      BY DEF PutFull, Goto, endVars
  <2>3. ~Put /\ ~RecordOffered
      BY <2>1, <2>2 DEF Put, PutWhen, RecordOffered
  <2> QED
      BY <1>2, <1>3, <2>1, <2>2, <2>3, QuietMain DEF Main
<1>4. CASE StepOffered \/ DrainDone \/ DrainTimeout \/ EndStep \/ Judge
           \/ StopEngine \/ PutSentinel \/ Join \/ CloseExporter
  <2>1. manifest' = manifest /\ pc' # "exit" /\ pc \notin {"exit", "putting", "offer"}
      BY <1>4
      DEF StepOffered, DrainDone, DrainTimeout, EndStep, EndStepTo, Judge,
          StopEngine, PutSentinel, PutSentinelAs, Join, CloseExporter, Goto, endVars
  <2>2. ~Put /\ ~RecordOffered
      BY <2>1 DEF Put, PutWhen, RecordOffered
  <2> QED
      BY <1>2, <1>4, <2>1, <2>2, QuietMain DEF Main
<1>5. CASE Signal \/ DeadlinePasses \/ UNCHANGED vars
  <2>1. UNCHANGED <<manifest, pc, queue, item, wpc, outcome, totals>>
      BY <1>5 DEF Signal, DeadlinePasses, vars, endVars, feedVars, workerVars
  <2>2. Outstanding' = Outstanding
      BY <2>1, StillOutstanding DEF Holding
  <2> QED
      BY <2>1, <2>2, LedgerRests DEF Summary
<1>6. ASSUME NEW w \in Workers, Worker(w), pc # "exit"
      PROVE  Ledger!Next \/ UNCHANGED Ledger!vars
  <2>1. CASE \E c \in Outcomes : Export(w, c)
      BY <1>6, <2>1, ExportIsSettle
  <2>2. CASE RecordSuccess(w) \/ RecordFailure(w)
      BY <1>6, <2>2, AckIsCounted, FailureIsCounted
  <2>3. CASE \/ Get(w) \/ Send(w) \/ ResetConsecutive(w) \/ StepAccepted(w)
             \/ StepFailed(w) \/ CountFailure(w) \/ Halt(w)
    <3>1. UNCHANGED <<manifest, pc>>
        BY <2>3
        DEF Get, Send, ResetConsecutive, StepAccepted, StepFailed, StepFailedTo,
            CountFailure, Halt, Move, endVars
    <3> QED
        BY <1>2, <2>3, <3>1, QuietWorker
  <2> QED
      BY <1>6, <2>1, <2>2, <2>3 DEF Worker
<1> QED
    BY <1>1, <1>3, <1>4, <1>5, <1>6 DEF Next, Main, Terminated

\* For every pool, plan and interleaving the generator implements RunLedger:
\* each batch settles once, no counter overtakes what happened, the manifest
\* is a faithful copy of them, and nothing is offered after it.
THEOREM GeneratorKeepsLedger == Spec => KeepsLedger
<1>1. Init => EndInv /\ Ledger!Init
    BY EndStart, LedgerStart
<1>2. TypeInv /\ EndInv /\ [Next]_vars => EndInv'
    BY EndKept
<1>3. TypeInv /\ Numbering /\ BookInv /\ EndInv /\ [Next]_vars => [Ledger!Next]_(Ledger!vars)
    BY LedgerStep
<1> QED
    BY <1>1, <1>2, <1>3, BookAlways, PTL DEF Spec, KeepsLedger, Ledger!Spec

-----------------------------------------------------------------------------
(* The sentinels of stop()                                                 *)

Ending == {"sentinels", "close", "manifest", "return", "exit"}

\* Sentinels are behind every batch, so a worker that took one has seen the
\* last batch taken; before stop() there are none.
OrderInv ==
  /\ pc \notin Ending =>
       Gone = {} /\ posted = 0 /\ \A i \in DOMAIN queue : queue[i] # None
  /\ \A i, j \in DOMAIN queue : i < j /\ queue[i] = None => queue[j] = None
  /\ Gone # {} => Queued = {}

\* When the last step drained, the queue is empty but for the sentinels, and
\* each of these is there or was taken.
DrainInv ==
  /\ warned \subseteq 1 .. stepNo
  /\ pc \in Ending \cup {"boot", "steps", "endStep", "judge", "stop"} /\ stepNo \notin warned =>
       Queued = {} /\ Len(queue) + Cardinality(Gone) = posted

\* At the start the queue is empty.
LEMMA SentinelStart == Init => OrderInv /\ DrainInv
<1> SUFFICES ASSUME Init PROVE OrderInv /\ DrainInv
    OBVIOUS
<1>1. Gone = {} /\ Queued = {} /\ DOMAIN queue = {} /\ Len(queue) = 0 /\ posted = 0
    BY DEF Init, Gone, Queued
<1> QED
    BY <1>1, FS_EmptySet DEF Init, OrderInv, DrainInv

\* What a worker takes from the queue.
LEMMA GetTakes ==
  ASSUME TypeInv, NEW w \in Workers, Get(w)
  PROVE  /\ Len(queue) \in Nat /\ Len(queue) >= 1 /\ Len(queue') = Len(queue) - 1
         /\ DOMAIN queue = 1 .. Len(queue) /\ DOMAIN queue' = 1 .. Len(queue) - 1
         /\ \A i \in DOMAIN queue' : i + 1 \in DOMAIN queue /\ queue'[i] = queue[i + 1]
         /\ 1 \in DOMAIN queue /\ Head(queue) = queue[1]
         /\ Gone' = IF Head(queue) = None THEN Gone \cup {w} ELSE Gone
         /\ w \notin Gone /\ UNCHANGED <<pc, posted, stepNo, warned>>
<1>1. /\ queue \in Seq(Nat \cup {None}) /\ Len(queue) \in Nat /\ Len(queue) >= 1
      /\ Head(queue) = queue[1] /\ queue' = Tail(queue)
      /\ Len(queue') = Len(queue) - 1
      /\ \A i \in 1 .. Len(queue) - 1 : queue'[i] = queue[i + 1]
      /\ DOMAIN queue = 1 .. Len(queue)
      /\ DOMAIN queue' = 1 .. Len(queue) - 1
    BY HeadTailProperties DEF Get, TypeInv, TypeOK, TypeFeed
<1>2. \A i \in DOMAIN queue' : i + 1 \in DOMAIN queue /\ queue'[i] = queue[i + 1]
    BY <1>1
<1>3. wpc[w] = "get" /\ wpc' = [wpc EXCEPT ![w] = IF Head(queue) = None THEN "gone" ELSE "send"]
    BY DEF Get
<1>4. Gone' = (IF Head(queue) = None THEN Gone \cup {w} ELSE Gone) /\ w \notin Gone
    BY <1>3 DEF Gone, TypeInv, TypeOK, TypeWorkers
<1> QED
    BY <1>1, <1>2, <1>4 DEF Get, planVars

\* What stop() puts on the queue.
LEMMA SentinelPuts ==
  ASSUME TypeInv, PutSentinel
  PROVE  /\ pc = "sentinels" /\ pc' = pc /\ posted' = posted + 1 /\ posted \in Nat
         /\ posted < Cardinality(Workers) /\ UNCHANGED <<Gone, stepNo, warned>>
         /\ Len(queue) \in Nat /\ DOMAIN queue = 1 .. Len(queue)
         /\ \/ /\ Len(queue) < MaxInflight /\ Len(queue') = Len(queue) + 1
               /\ DOMAIN queue' = 1 .. Len(queue) + 1
               /\ \A i \in DOMAIN queue : queue'[i] = queue[i]
               /\ queue'[Len(queue) + 1] = None
            \/ Len(queue) >= MaxInflight /\ queue' = queue
<1>1. /\ pc = "sentinels" /\ pc' = pc /\ posted' = posted + 1 /\ posted < Cardinality(Workers)
      /\ UNCHANGED <<wpc, stepNo, warned>>
      /\ queue' = IF Len(queue) < MaxInflight THEN Append(queue, None) ELSE queue
    BY DEF PutSentinel, PutSentinelAs, planVars, workerVars
<1>2. queue \in Seq(Nat \cup {None}) /\ Len(queue) \in Nat /\ posted \in Nat
      /\ DOMAIN queue = 1 .. Len(queue)
    BY PoolSize DEF TypeInv, TypeOK, TypeFeed
<1>3. Gone' = Gone
    BY <1>1 DEF Gone
<1>4. UNCHANGED <<Gone, stepNo, warned>>
    BY <1>1, <1>3
<1>5. CASE Len(queue) < MaxInflight
  <2>1. queue' = Append(queue, None)
      BY <1>1, <1>5
  <2>2. /\ Len(queue') = Len(queue) + 1 /\ DOMAIN queue' = 1 .. Len(queue) + 1
        /\ \A i \in DOMAIN queue : queue'[i] = queue[i]
        /\ queue'[Len(queue) + 1] = None
      BY <1>2, <2>1, AppendProperties
  <2> QED
      BY <1>1, <1>2, <1>4, <1>5, <2>2
<1>6. CASE ~(Len(queue) < MaxInflight)
  <2>1. Len(queue) >= MaxInflight /\ queue' = queue
      BY <1>1, <1>2, <1>6, PoolAssumption
  <2> QED
      BY <1>1, <1>2, <1>4, <2>1
<1> QED
    BY <1>5, <1>6

\* The order of the queue is kept by the three steps that touch it.
LEMMA OrderQueue ==
  ASSUME TypeInv, OrderInv, Put \/ PutSentinel \/ \E w \in Workers : Get(w)
  PROVE  OrderInv'
<1>1. CASE Put
  <2>1. pending \in Nat /\ pending # None
      BY <1>1 DEF Put, PutWhen, TypeInv, TypeOK, TypeFeed, Control
  <2>2. /\ Len(queue) \in Nat /\ \A i \in 1 .. Len(queue) : queue'[i] = queue[i]
        /\ queue'[Len(queue) + 1] = pending
        /\ DOMAIN queue = 1 .. Len(queue) /\ DOMAIN queue' = 1 .. Len(queue) + 1
      BY <1>1, AppendProperties DEF Put, PutWhen, TypeInv, TypeOK, TypeFeed
  <2>3. UNCHANGED <<wpc, posted>> /\ pc = "putting" /\ pc' = "offer"
      BY <1>1 DEF Put, PutWhen, workerVars
  <2>4. Gone' = {} /\ posted' = 0 /\ \A i \in DOMAIN queue : queue[i] # None
      BY <2>3 DEF OrderInv, Ending, Gone
  <2>5. \A i \in DOMAIN queue' : queue'[i] # None
      BY <2>1, <2>2, <2>4
  <2> QED
      BY <2>4, <2>5 DEF OrderInv
<1>2. CASE PutSentinel
  <2>1. Gone # {} => Queued' = {}
      BY <1>2, SentinelPuts DEF OrderInv, Queued
  <2>2. \A i, j \in DOMAIN queue' : i < j /\ queue'[i] = None => queue'[j] = None
      BY <1>2, SentinelPuts DEF OrderInv
  <2>3. pc' \in Ending /\ Gone' = Gone
      BY <1>2, SentinelPuts DEF Ending
  <2> QED
      BY <2>1, <2>2, <2>3 DEF OrderInv
<1>3. ASSUME NEW w \in Workers, Get(w) PROVE OrderInv'
  <2>1. /\ \A i \in DOMAIN queue' : i \in Int /\ i + 1 \in DOMAIN queue
                                    /\ i + 1 > 1 /\ queue'[i] = queue[i + 1]
        /\ 1 \in DOMAIN queue /\ Head(queue) = queue[1] /\ pc' = pc /\ posted' = posted
        /\ Gone' = IF Head(queue) = None THEN Gone \cup {w} ELSE Gone
      BY <1>3, GetTakes
  <2>2. pc \notin Ending => queue[1] # None
      BY <2>1 DEF OrderInv
  <2>3. pc' \notin Ending =>
          Gone' = {} /\ posted' = 0 /\ \A i \in DOMAIN queue' : queue'[i] # None
      BY <2>1, <2>2 DEF OrderInv
  <2>4. ASSUME NEW i \in DOMAIN queue', NEW j \in DOMAIN queue', i < j, queue'[i] = None
        PROVE  queue'[j] = None
    <3>1. i + 1 < j + 1 /\ queue[i + 1] = None
        BY <2>1, <2>4
    <3> QED
        BY <2>1, <3>1 DEF OrderInv
  <2>5. Gone' # {} => Queued' = {}
    <3>1. Queued' \subseteq Queued
        BY <2>1 DEF Queued
    <3>2. CASE Head(queue) = None
      <4>1. \A i \in DOMAIN queue' : queue'[i] = None
          BY <2>1, <3>2 DEF OrderInv
      <4> QED
          BY <4>1 DEF Queued
    <3>3. CASE Head(queue) # None
        BY <2>1, <3>1, <3>3 DEF OrderInv
    <3> QED
        BY <3>2, <3>3
  <2> QED
      BY <2>3, <2>4, <2>5 DEF OrderInv
<1> QED
    BY <1>1, <1>2, <1>3

\* A step of the main thread that leaves the queue alone.
LEMMA OrderMain ==
  ASSUME OrderInv, UNCHANGED <<queue, posted, wpc>>, pc' \notin Ending => pc \notin Ending
  PROVE  OrderInv' /\ Gone' = Gone /\ Queued' = Queued
<1>1. Gone' = Gone /\ Queued' = Queued
    BY DEF Gone, Queued
<1> QED
    BY <1>1 DEF OrderInv

\* A worker that does not take from the queue does not go.
LEMMA WorkerStays ==
  ASSUME TypeInv, NEW w \in Workers, Worker(w), ~Get(w)
  PROVE  UNCHANGED <<queue, posted, pc, stepNo, warned>> /\ Gone' = Gone /\ Queued' = Queued
<1>1. ASSUME NEW from, NEW to, from # "gone", to # "gone", wpc[w] = from,
             wpc' = [wpc EXCEPT ![w] = to]
      PROVE  Gone' = Gone
    BY <1>1 DEF Gone, TypeInv, TypeOK, TypeWorkers
<1>2. CASE Send(w) \/ \E c \in Outcomes : Export(w, c)
  <2>1. Gone' = Gone
      BY <1>1, <1>2 DEF Send, Export
  <2>2. UNCHANGED <<queue, posted, pc, stepNo, warned>>
      BY <1>2 DEF Send, Export, feedVars, planVars
  <2> QED
      BY <2>1, <2>2 DEF Queued
<1>3. CASE \/ RecordSuccess(w) \/ ResetConsecutive(w) \/ StepAccepted(w)
           \/ RecordFailure(w) \/ StepFailed(w) \/ CountFailure(w) \/ Halt(w)
  <2>1. \E from, to : Move(w, from, to) /\ from # "gone" /\ to # "gone"
      BY <1>3
      DEF RecordSuccess, BookSuccess, ResetConsecutive, StepAccepted, RecordFailure,
          BookFailure, StepFailed, StepFailedTo, CountFailure, Halt
  <2>2. Gone' = Gone
      BY <1>1, <2>1 DEF Move
  <2>3. UNCHANGED <<queue, posted, pc, stepNo, warned>>
      BY <2>1 DEF Move, feedVars
  <2> QED
      BY <2>2, <2>3 DEF Queued
<1> QED
    BY <1>2, <1>3 DEF Worker

\* The order of the queue is kept by every step.
LEMMA OrderStep ==
  ASSUME TypeInv, OrderInv, [Next]_vars
  PROVE  OrderInv'
<1>1. CASE Put \/ PutSentinel \/ \E w \in Workers : Get(w)
    BY <1>1, OrderQueue
<1>2. CASE StartEngine
  <2>1. UNCHANGED <<queue, posted>> /\ Gone' = Gone /\ pc = "boot" /\ pc' = "steps"
      BY <1>2 DEF StartEngine, Gone, feedVars, TypeInv, Control
  <2> QED
      BY <2>1 DEF OrderInv, Queued, Ending
<1>3. CASE RefuseToStart \/ BeginStep \/ LeaveSteps \/ PaceCheck \/ PaceWait \/ Allocate
           \/ PutCheck \/ PutFull \/ GiveBack \/ RecordOffered \/ StepOffered
    BY <1>3, OrderMain
    DEF RefuseToStart, BeginStep, LeaveSteps, PaceCheck, PaceWait, Allocate, PutCheck, PutFull,
        GiveBack, GiveBackTo, RecordOffered, StepOffered, Goto, feedVars, workerVars, Ending
<1>4. CASE DrainDone \/ DrainTimeout \/ EndStep \/ Judge \/ StopEngine \/ Join
           \/ CloseExporter \/ WriteManifest \/ Exit
    BY <1>4, OrderMain
    DEF DrainDone, DrainTimeout, EndStep, EndStepTo, Judge, StopEngine, Join,
        CloseExporter, WriteManifest, Exit, Goto, feedVars, workerVars, Ending
<1>5. CASE Signal \/ DeadlinePasses \/ UNCHANGED vars
    BY <1>5, OrderMain
    DEF Signal, DeadlinePasses, vars, feedVars, workerVars, Ending
<1>6. ASSUME NEW w \in Workers, Worker(w), ~Get(w) PROVE OrderInv'
    BY <1>6, WorkerStays DEF OrderInv
<1> QED
    BY <1>1, <1>2, <1>3, <1>4, <1>5, <1>6 DEF Next, Main, Terminated

\* Where a queue is known to be empty but for sentinels.
Quiescent == Ending \cup {"boot", "steps", "endStep", "judge", "stop"}

\* What DrainInv says of these places is kept by a step between two of them
\* that leaves the queue and the steps alone.
LEMMA DrainMain ==
  ASSUME OrderInv, DrainInv, UNCHANGED <<queue, posted, wpc, stepNo, warned>>,
         pc' \in Quiescent => pc \in Quiescent
  PROVE  DrainInv'
<1>1. Gone' = Gone /\ Queued' = Queued
    BY DEF Gone, Queued
<1> QED
    BY <1>1 DEF DrainInv, Quiescent

\* The sentinels are kept by every step.
LEMMA DrainKept ==
  ASSUME TypeInv, OrderInv, DrainInv, [Next]_vars
  PROVE  DrainInv'
<1>1. stepNo \in Nat /\ IsFiniteSet(Gone)
  <2>1. Gone \in SUBSET Workers
      BY DEF Gone
  <2> QED
      BY <2>1, PoolAssumption, PlanAssumption, FS_Subset DEF TypeInv, TypeOK, TypeMain
<1>2. CASE StartEngine
  <2>1. UNCHANGED <<queue, posted, stepNo, warned>> /\ Gone' = Gone /\ pc = "boot"
      BY <1>2 DEF StartEngine, Gone, feedVars, planVars, TypeInv, Control
  <2> QED
      BY <2>1 DEF DrainInv, Queued
<1>3. CASE BeginStep
  <2>1. stepNo' = stepNo + 1 /\ warned' = warned /\ pc' = "pace"
      BY <1>3 DEF BeginStep
  <2> QED
      BY <1>1, <2>1 DEF DrainInv, Ending
<1>4. CASE DrainDone
  <2>1. queue = <<>> /\ UNCHANGED <<queue, posted, stepNo, warned, wpc>> /\ pc = "drain"
      BY <1>4 DEF DrainDone, Goto, feedVars, planVars, workerVars
  <2>2. Gone' = {} /\ posted' = 0 /\ Queued' = {} /\ Len(queue') = 0
      BY <2>1 DEF OrderInv, Ending, Gone, Queued
  <2> QED
      BY <2>1, <2>2, FS_EmptySet DEF DrainInv
<1>5. CASE DrainTimeout
  <2>1. stepNo' = stepNo /\ warned' = warned \cup {stepNo} /\ stepNo \in 1 .. stepNo
      BY <1>1, <1>5 DEF DrainTimeout, TypeInv, Control, Steps
  <2> QED
      BY <2>1 DEF DrainInv
<1>6. CASE Put
  <2>1. pc' = "offer" /\ UNCHANGED <<stepNo, warned>>
      BY <1>6 DEF Put, PutWhen, planVars
  <2> QED
      BY <2>1 DEF DrainInv, Ending
<1>7. CASE PutSentinel
  <2>1. UNCHANGED <<stepNo, warned>> /\ pc \in Ending
      BY <1>7, SentinelPuts DEF Ending
  <2>2. CASE stepNo \in warned
      BY <2>1, <2>2 DEF DrainInv
  <2>3. CASE stepNo \notin warned
    <3>1. Queued = {} /\ Len(queue) + Cardinality(Gone) = posted
        BY <2>1, <2>3 DEF DrainInv
    <3>2. Cardinality(Gone) \in Nat
        BY <1>1, FS_CardinalityType
    <3>3. Len(queue) < MaxInflight
        BY <1>7, <3>1, <3>2, SentinelPuts, PoolAssumption, PoolSize
    <3>4. /\ Len(queue') = Len(queue) + 1 /\ DOMAIN queue' = 1 .. Len(queue) + 1
          /\ \A i \in DOMAIN queue : queue'[i] = queue[i]
          /\ queue'[Len(queue) + 1] = None /\ DOMAIN queue = 1 .. Len(queue)
          /\ Len(queue) \in Nat /\ posted' = posted + 1 /\ Gone' = Gone
        BY <1>7, <3>3, SentinelPuts, PoolAssumption
    <3>5. \A i \in DOMAIN queue' : queue'[i] = None
        BY <3>1, <3>4 DEF Queued
    <3>6. Queued' = {}
        BY <3>5 DEF Queued
    <3>7. Len(queue') + Cardinality(Gone') = posted'
        BY <3>1, <3>2, <3>4
    <3> QED
        BY <2>1, <3>6, <3>7 DEF DrainInv
  <2> QED
      BY <2>2, <2>3
<1>8. ASSUME NEW w \in Workers, Get(w) PROVE DrainInv'
  <2>1. UNCHANGED <<pc, posted, stepNo, warned>>
      BY <1>8, GetTakes
  <2>2. CASE pc \in Quiescent /\ stepNo \notin warned
    <3>1. Queued = {} /\ Len(queue) + Cardinality(Gone) = posted
        BY <2>2 DEF DrainInv, Quiescent
    <3>2. Head(queue) = None /\ Gone' = Gone \cup {w} /\ w \notin Gone
        BY <1>8, <3>1, GetTakes DEF Queued
    <3>3. Cardinality(Gone') = Cardinality(Gone) + 1 /\ Cardinality(Gone) \in Nat
        BY <1>1, <3>2, FS_AddElement, FS_CardinalityType
    <3>4. Len(queue') + Cardinality(Gone') = posted'
        BY <1>8, <2>1, <3>1, <3>3, GetTakes
    <3>5. Queued' = {}
        BY <1>8, <3>1, GetTakes DEF Queued
    <3> QED
        BY <2>1, <3>4, <3>5 DEF DrainInv
  <2>3. CASE ~(pc \in Quiescent /\ stepNo \notin warned)
      BY <2>1, <2>3 DEF DrainInv, Quiescent
  <2> QED
      BY <2>2, <2>3
<1>9. ASSUME NEW w \in Workers, Worker(w), ~Get(w) PROVE DrainInv'
  <2>1. UNCHANGED <<queue, posted, pc, stepNo, warned>> /\ Gone' = Gone /\ Queued' = Queued
      BY <1>9, WorkerStays
  <2> QED
      BY <2>1 DEF DrainInv
<1>10. CASE RefuseToStart \/ LeaveSteps \/ PaceCheck \/ PaceWait \/ Allocate
           \/ PutCheck \/ PutFull \/ GiveBack \/ RecordOffered \/ StepOffered
    BY <1>10, DrainMain
    DEF RefuseToStart, LeaveSteps, PaceCheck, PaceWait, Allocate, PutCheck, PutFull,
        GiveBack, GiveBackTo, RecordOffered, StepOffered, Goto, feedVars, workerVars,
        planVars, Quiescent, Ending
<1>11. CASE EndStep \/ Judge \/ StopEngine \/ Join \/ CloseExporter \/ WriteManifest \/ Exit
    BY <1>11, DrainMain
    DEF EndStep, EndStepTo, Judge, StopEngine, Join, CloseExporter, WriteManifest, Exit, Goto,
        feedVars, workerVars, planVars, Quiescent, Ending
<1>12. CASE Signal \/ DeadlinePasses \/ UNCHANGED vars
    BY <1>12, DrainMain
    DEF Signal, DeadlinePasses, vars, feedVars, workerVars, planVars, Quiescent
<1> QED
    BY <1>2, <1>3, <1>4, <1>5, <1>6, <1>7, <1>8, <1>9, <1>10, <1>11, <1>12
    DEF Next, Main, Terminated

\* Both hold in every state of every run.
LEMMA SentinelAlways == Spec => [](TypeInv /\ OrderInv /\ DrainInv)
<1>1. Init => TypeInv /\ OrderInv /\ DrainInv
    BY TypeInit, SentinelStart
<1>2. TypeInv /\ OrderInv /\ DrainInv /\ [Next]_vars => (TypeInv /\ OrderInv /\ DrainInv)'
    BY TypeStep, OrderStep, DrainKept
<1> QED
    BY <1>1, <1>2, PTL DEF Spec

\* For every pool and every capacity config.py accepts: after a last step
\* that drained, stop() never loses a sentinel to a full queue.
THEOREM SentinelsArrive == Spec => []NoSentinelLost
<1>1. TypeInv /\ OrderInv /\ DrainInv => NoSentinelLost
  <2> SUFFICES ASSUME TypeInv, OrderInv, DrainInv, posted = Cardinality(Workers),
                      stepNo \notin warned
               PROVE  Cardinality(Sentinels) + Cardinality(Gone) = Cardinality(Workers)
      BY DEF NoSentinelLost
  <2>1. posted # 0
      BY PoolAssumption, FS_EmptySet
  <2>2. Queued = {} /\ Len(queue) + Cardinality(Gone) = posted
      BY <2>1 DEF OrderInv, DrainInv
  <2>3. Sentinels = 1 .. Len(queue) /\ Len(queue) \in Nat
    <3>1. queue \in Seq(Nat \cup {None})
        BY DEF TypeInv, TypeOK, TypeFeed
    <3>2. DOMAIN queue = 1 .. Len(queue) /\ Len(queue) \in Nat
        BY <3>1
    <3>3. \A i \in DOMAIN queue : queue[i] = None
        BY <2>2 DEF Queued
    <3> QED
        BY <3>2, <3>3 DEF Sentinels
  <2>4. Cardinality(Sentinels) = Len(queue)
    <3>1. \A n \in Nat : Cardinality(1 .. n) = n
        BY FS_Interval
    <3> QED
        BY <2>3, <3>1
  <2> QED
      BY <2>2, <2>4
<1> QED
    BY <1>1, SentinelAlways, PTL

-----------------------------------------------------------------------------
(* The manifest is exact                                                   *)

\* After join() returned for every worker, no worker is left, no export
\* raised, and the manifest still is what the counters are.
JoinInv ==
  /\ closed => pc \in {"manifest", "return", "exit"}
  /\ ~closed => outcome["raised"] = {}
  /\ hung = {} /\ (pc \in {"close", "manifest", "return"} \/ manifest # None) =>
       Gone = Workers /\ outcome["raised"] = {}
  /\ manifest # None => pc \in {"return", "exit"}
  /\ manifest # None /\ hung = {} => manifest.totals = totals

\* At the start no worker is to be joined.
LEMMA JoinStart == Init => JoinInv
BY CodeAssumption DEF Init, JoinInv, Outcomes

\* A worker keeps this: when all are gone there is none left to step.
LEMMA JoinWorker ==
  ASSUME TypeInv, JoinInv, NEW w \in Workers, Worker(w)
  PROVE  JoinInv'
<1>1. UNCHANGED <<pc, closed, hung, manifest>>
    BY DEF Worker, Get, Send, Export, RecordSuccess, BookSuccess, ResetConsecutive,
           StepAccepted, RecordFailure, BookFailure, StepFailed, StepFailedTo, CountFailure,
           Halt, Move, endVars
<1>2. w \notin Gone
    BY DEF Worker, Get, Send, Export, RecordSuccess, BookSuccess, ResetConsecutive,
           StepAccepted, RecordFailure, BookFailure, StepFailed, StepFailedTo, CountFailure,
           Halt, Move, Gone
<1>3. ~(hung = {} /\ (pc \in {"close", "manifest", "return"} \/ manifest # None))
    BY <1>2 DEF JoinInv
<1>4. ~closed => outcome'["raised"] = {}
  <2>1. CASE outcome' = outcome
      BY <2>1 DEF JoinInv
  <2>2. ASSUME NEW c \in Outcomes, Export(w, c), ~closed PROVE outcome'["raised"] = {}
    <3>1. c # "raised" /\ outcome' = [outcome EXCEPT ![c] = @ \cup {item[w]}]
        BY <2>2 DEF Export
    <3>2. outcome'["raised"] = outcome["raised"]
        BY <3>1, CodeAssumption DEF TypeInv, TypeOK, TypeWorkers, Outcomes
    <3> QED
        BY <2>2, <3>2 DEF JoinInv
  <2>3. outcome' = outcome \/ \E c \in Outcomes : Export(w, c)
      BY DEF Worker, Get, Send, RecordSuccess, BookSuccess, ResetConsecutive,
             StepAccepted, RecordFailure, BookFailure, StepFailed, StepFailedTo, CountFailure,
             Halt, Move
  <2> QED
      BY <2>1, <2>2, <2>3
<1> QED
    BY <1>1, <1>3, <1>4 DEF JoinInv

\* The main thread keeps it as well.
LEMMA JoinMain ==
  ASSUME TypeInv, JoinInv, Main \/ Signal \/ DeadlinePasses \/ UNCHANGED vars
  PROVE  JoinInv'
<1>1. ASSUME UNCHANGED <<closed, hung, manifest, outcome, totals, wpc>>,
             pc \notin {"close", "manifest", "return", "exit"},
             pc' \notin {"close", "manifest", "return", "exit"}
      PROVE  JoinInv'
    BY <1>1 DEF JoinInv, Gone
<1>2. ASSUME UNCHANGED <<closed, hung, manifest, pc>>, UNCHANGED <<outcome, wpc, totals>>
      PROVE  JoinInv'
    BY <1>2 DEF JoinInv, Gone
<1>3. CASE StartEngine
  <2>1. UNCHANGED <<closed, hung, manifest, outcome, totals>> /\ pc = "boot" /\ pc' = "steps"
      BY <1>3 DEF StartEngine, endVars
  <2> QED
      BY <2>1 DEF JoinInv
<1>4. CASE RefuseToStart
  <2>1. UNCHANGED <<closed, hung, manifest, outcome, totals>> /\ pc = "boot" /\ pc' = "exit"
      BY <1>4 DEF RefuseToStart, workerVars
  <2> QED
      BY <2>1 DEF JoinInv
<1>5. CASE BeginStep \/ LeaveSteps \/ PaceCheck \/ PaceWait \/ Allocate
           \/ PutCheck \/ Put \/ PutFull \/ GiveBack \/ StepOffered
    BY <1>1, <1>5
    DEF BeginStep, LeaveSteps, PaceCheck, PaceWait, Allocate, PutCheck, Put, PutWhen, PutFull,
        GiveBack, GiveBackTo, StepOffered, Goto, endVars, workerVars
<1>6. CASE RecordOffered
  <2>1. UNCHANGED <<closed, hung, manifest, outcome, wpc>> /\ pc = "offer" /\ pc' = "offerStep"
      BY <1>6 DEF RecordOffered, endVars, workerVars
  <2> QED
      BY <2>1 DEF JoinInv
<1>7. CASE DrainDone \/ DrainTimeout \/ EndStep \/ Judge \/ StopEngine \/ PutSentinel
    BY <1>1, <1>7
    DEF DrainDone, DrainTimeout, EndStep, EndStepTo, Judge, StopEngine, PutSentinel,
        PutSentinelAs, Goto, endVars, workerVars
<1>8. CASE Join
  <2>1. UNCHANGED <<closed, manifest, outcome, totals, wpc>> /\ pc = "sentinels" /\ pc' = "close"
        /\ hung' = {w \in Workers : wpc[w] # "gone"}
      BY <1>8 DEF Join, workerVars
  <2>2. hung' = {} => Gone' = Workers
      BY <2>1 DEF Gone
  <2> QED
      BY <2>1, <2>2 DEF JoinInv
<1>9. CASE CloseExporter
  <2>1. UNCHANGED <<hung, manifest, outcome, totals, wpc>> /\ pc = "close" /\ pc' = "manifest"
        /\ closed' = TRUE
      BY <1>9 DEF CloseExporter, workerVars
  <2> QED
      BY <2>1 DEF JoinInv, Gone
<1>10. CASE WriteManifest
  <2>1. UNCHANGED <<hung, closed, outcome, totals, wpc>> /\ pc = "manifest" /\ pc' = "return"
        /\ manifest'.totals = totals
      BY <1>10 DEF WriteManifest, workerVars
  <2> QED
      BY <2>1 DEF JoinInv, Gone
<1>11. CASE Exit
  <2>1. UNCHANGED <<hung, closed, outcome, totals, wpc, manifest>> /\ pc = "return"
        /\ pc' = "exit"
      BY <1>11 DEF Exit, workerVars
  <2> QED
      BY <2>1 DEF JoinInv, Gone
<1>12. CASE Signal \/ DeadlinePasses \/ UNCHANGED vars
    BY <1>2, <1>12 DEF Signal, DeadlinePasses, vars, endVars, workerVars
<1> QED
    BY <1>3, <1>4, <1>5, <1>6, <1>7, <1>8, <1>9, <1>10, <1>11, <1>12 DEF Main

\* For every pool, plan and interleaving: when stop() saw every worker end,
\* no batch is queued or held, and the manifest counts every outcome.
THEOREM ManifestIsExact == Spec => []ManifestExactOnceJoined
<1>1. TypeInv /\ BookInv /\ OrderInv /\ JoinInv => ManifestExactOnceJoined
  <2> SUFFICES ASSUME TypeInv, BookInv, OrderInv, JoinInv, manifest # None, hung = {}
               PROVE  /\ Queued \cup Held = {}
                      /\ manifest.totals.accepted = Count("OK")
                      /\ manifest.totals.rejected = Count("RESOURCE_EXHAUSTED")
                      /\ outcome["raised"] = {}
      BY DEF ManifestExactOnceJoined
  <2>1. Gone = Workers /\ outcome["raised"] = {} /\ manifest.totals = totals
      BY DEF JoinInv
  <2>2. Queued = {}
      BY <2>1, PoolAssumption DEF OrderInv
  <2>3. \A w \in Workers : wpc[w] = "gone"
      BY <2>1 DEF Gone
  <2>4. Held = {} /\ Accepting = {} /\ Refusing = {}
      BY <2>3 DEF Held, Holding, Accepting, Refusing
  <2>5. totals.accepted + 0 = Count("OK") /\ totals.rejected + 0 = Count("RESOURCE_EXHAUSTED")
      BY <2>4, WorthNone DEF BookInv, Count, Worth
  <2>6. totals.accepted \in Nat /\ totals.rejected \in Nat
      BY DEF TypeInv, TypeOK, TypeBooks, TotalsType
  <2> QED
      BY <2>1, <2>2, <2>4, <2>5, <2>6
<1>2. Init => JoinInv
    BY JoinStart
<1>3. TypeInv /\ JoinInv /\ [Next]_vars => JoinInv'
    BY JoinMain, JoinWorker DEF Next, Terminated
<1> QED
    BY <1>1, <1>2, <1>3, BookAlways, SentinelAlways, PTL DEF Spec

-----------------------------------------------------------------------------
(* A run is aborted for cause                                              *)

\* The batches whose export failed and was no rejection.
Failed == UNION {outcome[c] : c \in Codes \ {"OK", "RESOURCE_EXHAUSTED"}}

\* The consecutive failures counted, and those a worker is about to count,
\* are exports that failed; a rejection is never on its way to the count.
AbortInv ==
  /\ IsFiniteSet(Failed)
  /\ consec + Cardinality(Failing) <= Cardinality(Failed)
  /\ \A w \in Workers : wpc[w] = "count" => ~Rejected(w)
  /\ AbortJustified

\* Nothing has failed at the start.
LEMMA AbortStart == Init => AbortInv
<1> SUFFICES ASSUME Init PROVE AbortInv
    OBVIOUS
<1>1. Failed = {} /\ Failing = {} /\ consec = 0 /\ ~abort
      /\ \A w \in Workers : wpc[w] # "count"
    BY CodeAssumption DEF Init, Failed, Failing, Outcomes
<1> QED
    BY <1>1, FS_EmptySet DEF AbortInv, AbortJustified

\* A step that neither fails nor counts a failure keeps it.
LEMMA AbortKept ==
  ASSUME AbortInv, Failed' = Failed, Failing' = Failing, UNCHANGED abort,
         consec' = consec \/ (consec' = 0 /\ consec \in Nat),
         \A w \in Workers : wpc'[w] = "count" => wpc[w] = "count" /\ code'[w] = code[w]
  PROVE  AbortInv'
<1>1. Cardinality(Failing) \in Nat /\ Cardinality(Failed) \in Nat
    BY PoolParts, FS_CardinalityType DEF AbortInv
<1>2. consec' + Cardinality(Failing') <= Cardinality(Failed')
    BY <1>1 DEF AbortInv
<1>3. \A w \in Workers : wpc'[w] = "count" => code'[w] # "RESOURCE_EXHAUSTED"
    BY DEF AbortInv, Rejected
<1>4. AbortJustified'
    BY DEF AbortInv, AbortJustified, Failed
<1> QED
    BY <1>2, <1>3, <1>4 DEF AbortInv, Rejected

\* An export that failed adds one to what may be counted.
LEMMA AbortExport ==
  ASSUME TypeInv, Numbering, AbortInv, NEW w \in Workers, NEW c \in Outcomes, Export(w, c)
  PROVE  AbortInv'
<1> DEFINE Bad == Codes \ {"OK", "RESOURCE_EXHAUSTED"}
<1>1. /\ item[w] \notin Settled /\ outcome' = [outcome EXCEPT ![c] = @ \cup {item[w]}]
    BY ExportSettles
<1>2. \A d \in Outcomes : outcome'[d] = IF d = c THEN outcome[d] \cup {item[w]} ELSE outcome[d]
    BY <1>1 DEF TypeInv, TypeOK, TypeWorkers
<1>3. wpc[w] = "rpc" /\ UNCHANGED <<abort, consec>>
    BY DEF Export, flagVars
<1>4. Bad \subseteq Outcomes /\ "raised" \notin Bad
    BY CodeAssumption DEF Outcomes
<1>5. \A v \in Workers : v # w => code'[v] = code[v] /\ wpc'[v] = wpc[v]
    BY DEF Export, TypeInv, TypeOK, TypeWorkers
<1>6. wpc'[w] # "count" /\ w \notin Failing
    BY <1>3 DEF Export, TypeInv, TypeOK, TypeWorkers, Failing
<1>7. CASE c \notin Bad
  <2>1. Failed' = Failed
      BY <1>2, <1>4, <1>7 DEF Failed
  <2>2. wpc'[w] \in {"get", "success"} \/ (wpc'[w] = "failure" /\ code'[w] = "RESOURCE_EXHAUSTED")
      BY <1>3, <1>7 DEF Export, TypeInv, TypeOK, TypeWorkers, Outcomes
  <2>3. Failing' = Failing
      BY <1>5, <1>6, <2>2 DEF Failing, Rejected
  <2> QED
      BY <1>3, <1>5, <1>6, <2>1, <2>3, AbortKept
<1>8. CASE c \in Bad
  <2>1. Failed' = Failed \cup {item[w]}
      BY <1>2, <1>4, <1>8 DEF Failed
  <2>2. item[w] \notin Failed
      BY <1>1, <1>4 DEF Settled, Failed
  <2>3. /\ IsFiniteSet(Failed') /\ Cardinality(Failed') = Cardinality(Failed) + 1
        /\ Cardinality(Failed) \in Nat
      BY <2>1, <2>2, WorthAdd DEF AbortInv
  <2>4. wpc'[w] = "failure" /\ code'[w] = c
      BY <1>4, <1>8 DEF Export, TypeInv, TypeOK, TypeWorkers
  <2>5. Failing' = Failing \cup {w}
      BY <1>5, <1>8, <2>4 DEF Failing, Rejected
  <2>6. Cardinality(Failing') = Cardinality(Failing) + 1 /\ Cardinality(Failing) \in Nat
      BY <1>6, <2>5, PoolParts, WorthAdd
  <2>7. consec' + Cardinality(Failing') <= Cardinality(Failed')
      BY <1>3, <2>3, <2>6 DEF AbortInv, TypeInv, TypeOK, TypeWorkers
  <2>8. \A v \in Workers : wpc'[v] = "count" => code'[v] # "RESOURCE_EXHAUSTED"
      BY <1>5, <1>6 DEF AbortInv, Rejected
  <2>9. abort' => Cardinality(Failed') >= AbortLimit
      BY <1>3, <2>3, PlanAssumption DEF AbortInv, AbortJustified, Failed
  <2> QED
      BY <2>3, <2>7, <2>8, <2>9 DEF AbortInv, AbortJustified, Failed, Rejected
<1> QED
    BY <1>7, <1>8

\* The count and the abort it leads to.
LEMMA AbortCount ==
  ASSUME TypeInv, AbortInv, NEW w \in Workers, CountFailure(w)
  PROVE  AbortInv'
<1>1. /\ wpc[w] = "count" /\ consec' = consec + 1 /\ outcome' = outcome /\ consec \in Nat
      /\ (abort' = abort) \/ LimitReached(consec + 1)
      /\ \A v \in Workers : v # w => wpc'[v] = wpc[v] /\ code'[v] = code[v]
      /\ wpc'[w] \in {"get", "halt"}
    BY DEF CountFailure, Move, TypeInv, TypeOK, TypeWorkers
<1>2. w \in Failing /\ Failing' = Failing \ {w} /\ Failed' = Failed
    BY <1>1 DEF AbortInv, Failing, Failed, Rejected
<1>3. /\ Cardinality(Failing) = Cardinality(Failing') + 1 /\ Cardinality(Failing') \in Nat
      /\ Cardinality(Failed) \in Nat
    BY <1>2, PoolParts, WorthRemove, FS_CardinalityType DEF AbortInv
<1>4. consec' + Cardinality(Failing') <= Cardinality(Failed')
    BY <1>1, <1>2, <1>3 DEF AbortInv
<1>5. abort' => Cardinality(Failed') >= AbortLimit
  <2>1. CASE abort' = abort
    <3>1. abort => Cardinality(Failed) >= AbortLimit
        BY DEF AbortInv, AbortJustified, Failed
    <3> QED
        BY <1>2, <2>1, <3>1
  <2>2. CASE LimitReached(consec + 1)
    <3>1. consec + 1 >= AbortLimit /\ consec' \in Nat /\ Cardinality(Failed') \in Nat
        BY <1>1, <1>2, <1>3, <2>2, PlanAssumption DEF LimitReached
    <3>2. consec' >= AbortLimit
        BY <1>1, <3>1
    <3> QED
        BY <1>3, <1>4, <3>1, <3>2, PlanAssumption
  <2> QED
      BY <1>1, <2>1, <2>2
<1>6. \A v \in Workers : wpc'[v] = "count" => code'[v] # "RESOURCE_EXHAUSTED"
    BY <1>1 DEF AbortInv, Rejected
<1> QED
    BY <1>2, <1>4, <1>5, <1>6 DEF AbortInv, AbortJustified, Failed, Rejected

\* Every other step of a worker leaves the failures alone.
LEMMA AbortWorker ==
  ASSUME TypeInv, Numbering, AbortInv, NEW w \in Workers, Worker(w)
  PROVE  AbortInv'
<1>1. ASSUME NEW to, wpc' = [wpc EXCEPT ![w] = to], UNCHANGED <<outcome, abort>>,
             \A v \in Workers : v # w => code'[v] = code[v],
             w \in Failing <=> (to \in {"failure", "failStep", "count"}
                                  /\ code'[w] # "RESOURCE_EXHAUSTED"),
             to = "count" => code'[w] # "RESOURCE_EXHAUSTED",
             consec' = consec \/ consec' = 0
      PROVE  AbortInv'
  <2>1. Failing' = Failing /\ Failed' = Failed
    <3>1. wpc'[w] = to /\ \A v \in Workers : v # w => wpc'[v] = wpc[v]
        BY <1>1 DEF TypeInv, TypeOK, TypeWorkers
    <3>2. \A v \in Workers : v \in Failing' <=> v \in Failing
        BY <1>1, <3>1 DEF Failing, Rejected
    <3>3. Failing' = Failing
        BY <3>2 DEF Failing
    <3> QED
        BY <1>1, <3>3 DEF Failed
  <2>2. consec \in Nat /\ Cardinality(Failing) \in Nat /\ Cardinality(Failed) \in Nat
      BY PoolParts, FS_CardinalityType DEF AbortInv, TypeInv, TypeOK, TypeWorkers
  <2>3. consec' + Cardinality(Failing') <= Cardinality(Failed')
      BY <1>1, <2>1, <2>2 DEF AbortInv
  <2>4. \A v \in Workers : wpc'[v] = "count" => code'[v] # "RESOURCE_EXHAUSTED"
      BY <1>1 DEF AbortInv, Rejected, TypeInv, TypeOK, TypeWorkers
  <2>5. AbortJustified'
      BY <1>1, <2>1 DEF AbortInv, AbortJustified, Failed
  <2> QED
      BY <2>1, <2>3, <2>4, <2>5 DEF AbortInv, Rejected
<1>2. CASE Get(w)
  <2>1. /\ wpc' = [wpc EXCEPT ![w] = IF Head(queue) = None THEN "gone" ELSE "send"]
        /\ UNCHANGED <<code, consec, outcome, abort>> /\ wpc[w] = "get"
      BY <1>2 DEF Get, flagVars
  <2> QED
      BY <1>1, <2>1 DEF Failing
<1>3. CASE Send(w)
  <2>1. /\ wpc' = [wpc EXCEPT ![w] = "rpc"]
        /\ UNCHANGED <<code, consec, outcome, abort>> /\ wpc[w] = "send"
      BY <1>3 DEF Send, flagVars
  <2> QED
      BY <1>1, <2>1 DEF Failing
<1>4. CASE \/ RecordSuccess(w) \/ ResetConsecutive(w) \/ StepAccepted(w) \/ Halt(w)
  <2>1. \E to \in {"reset", "ackStep", "get"} :
          wpc' = [wpc EXCEPT ![w] = to] /\ wpc[w] \in {"success", "reset", "ackStep", "halt"}
      BY <1>4 DEF RecordSuccess, BookSuccess, ResetConsecutive, StepAccepted, Halt, Move
  <2>2. UNCHANGED <<outcome, abort>> /\ (consec' = consec \/ consec' = 0)
      BY <1>4 DEF RecordSuccess, BookSuccess, ResetConsecutive, StepAccepted, Halt, Move
  <2>3. \A v \in Workers : v # w => code'[v] = code[v]
      BY <1>4 DEF RecordSuccess, BookSuccess, ResetConsecutive, StepAccepted, Halt, Move,
                  TypeInv, TypeOK, TypeWorkers
  <2> QED
      BY <1>1, <2>1, <2>2, <2>3 DEF Failing
<1>5. CASE RecordFailure(w)
  <2>1. /\ wpc' = [wpc EXCEPT ![w] = "failStep"]
        /\ UNCHANGED <<code, consec, outcome, abort>> /\ wpc[w] = "failure"
      BY <1>5 DEF RecordFailure, BookFailure, Move
  <2> QED
      BY <1>1, <2>1 DEF Failing, Rejected
<1>6. CASE StepFailed(w)
  <2>1. UNCHANGED <<consec, outcome, abort>> /\ wpc[w] = "failStep"
      BY <1>6 DEF StepFailed, StepFailedTo, Move
  <2>2. CASE Rejected(w)
    <3>1. wpc' = [wpc EXCEPT ![w] = "get"] /\ \A v \in Workers : v # w => code'[v] = code[v]
        BY <1>6, <2>2 DEF StepFailed, StepFailedTo, Move, TypeInv, TypeOK, TypeWorkers
    <3> QED
        BY <1>1, <2>1, <2>2, <3>1 DEF Failing
  <2>3. CASE ~Rejected(w)
    <3>1. wpc' = [wpc EXCEPT ![w] = "count"] /\ UNCHANGED code
        BY <1>6, <2>3 DEF StepFailed, StepFailedTo, Move
    <3> QED
        BY <1>1, <2>1, <2>3, <3>1 DEF Failing, Rejected
  <2> QED
      BY <2>2, <2>3
<1>7. CASE CountFailure(w) \/ \E c \in Outcomes : Export(w, c)
    BY <1>7, AbortCount, AbortExport
<1> QED
    BY <1>2, <1>3, <1>4, <1>5, <1>6, <1>7 DEF Worker

\* The main thread does not touch the failures.
LEMMA AbortMain ==
  ASSUME TypeInv, AbortInv, Main \/ Signal \/ DeadlinePasses \/ UNCHANGED vars
  PROVE  AbortInv'
<1>1. UNCHANGED <<code, consec, outcome, abort>>
    BY DEF Main, RefuseToStart, StartEngine, BeginStep, LeaveSteps, Goto, PaceCheck, PaceWait,
           Allocate, PutCheck, Put, PutWhen, PutFull, GiveBack, GiveBackTo, RecordOffered,
           StepOffered, DrainDone, DrainTimeout, EndStep, EndStepTo, Judge, StopEngine,
           PutSentinel, PutSentinelAs, Join, CloseExporter, WriteManifest, Exit, Signal,
           DeadlinePasses, vars, workerVars, flagVars
<1>2. wpc' = wpc \/ ((\A w \in Workers : wpc[w] = "unborn") /\ wpc' = [w \in Workers |-> "get"])
    BY DEF Main, RefuseToStart, StartEngine, BeginStep, LeaveSteps, Goto, PaceCheck, PaceWait,
           Allocate, PutCheck, Put, PutWhen, PutFull, GiveBack, GiveBackTo, RecordOffered,
           StepOffered, DrainDone, DrainTimeout, EndStep, EndStepTo, Judge, StopEngine,
           PutSentinel, PutSentinelAs, Join, CloseExporter, WriteManifest, Exit, Signal,
           DeadlinePasses, vars, workerVars, TypeInv, Control
<1>3. Failing' = Failing /\ Failed' = Failed
    BY <1>1, <1>2 DEF Failing, Failed, Rejected
<1>4. \A w \in Workers : wpc'[w] = "count" => wpc[w] = "count" /\ code'[w] = code[w]
    BY <1>1, <1>2
<1> QED
    BY <1>1, <1>3, <1>4, AbortKept

\* For every pool, limit and interleaving: a run is aborted only when that
\* many exports failed otherwise than by a rejection.
THEOREM AbortsAreJustified == Spec => []AbortJustified
<1>1. AbortInv => AbortJustified
    BY DEF AbortInv
<1>2. TypeInv /\ Numbering /\ AbortInv /\ [Next]_vars => AbortInv'
    BY AbortMain, AbortWorker DEF Next, Terminated
<1> QED
    BY <1>1, <1>2, AbortStart, NumberingAlways, PTL DEF Spec

-----------------------------------------------------------------------------
(* What a StepResult says once main() has judged it, and the range of     *)
(* sequence numbers the manifest names.                                   *)

Running == InStep \cup {"drain", "endStep"}

\* Numbers not yet given to a batch that was or will be put.
NextFree == IF pending # None THEN pending ELSE nextSeq

\* self._step is the step being run; a step's numbers start where the one
\* before it ended; and a step that is over ends at the last number in use.
StepInv ==
  /\ step = IF pc \in Running THEN stepNo ELSE None
  /\ stepNo = 0 => nextSeq = 0 /\ pc \notin Running
  /\ stepNo > 0 =>
       /\ results[1].seq_start = 0
       /\ results[stepNo].seq_start <= NextFree
       /\ results[stepNo].offered > 0 \/ pc \in {"offer", "offerStep"} =>
            results[stepNo].seq_start < NextFree
       /\ pc \notin Running =>
            results[stepNo].seq_end = SeqEnd(results[stepNo].seq_start, nextSeq)
  /\ manifest # None =>
       /\ pc \in {"return", "exit"} /\ manifest.seq_min = 0
       /\ manifest.seq_max = IF stepNo > 0 THEN results[stepNo].seq_end ELSE -1

\* There is no step at the start.
LEMMA StepStart == Init => StepInv
BY DEF Init, StepInv, Running, InStep

\* A step of the program that leaves the numbers and the results alone.
LEMMA StepKept ==
  ASSUME StepInv, UNCHANGED <<stepNo, step, nextSeq, pending, manifest>>,
         \A i \in Steps : /\ results'[i].seq_start = results[i].seq_start
                          /\ results'[i].seq_end = results[i].seq_end
                          /\ results'[i].offered = results[i].offered,
         stepNo \in 0 .. NumSteps,
         pc' \in Running <=> pc \in Running,
         pc' \in {"offer", "offerStep"} => pc \in {"offer", "offerStep"},
         pc' = pc \/ pc \notin {"return", "exit"} \/ pc' = "exit"
  PROVE  StepInv'
<1>1. NextFree' = NextFree
    BY DEF NextFree
<1>2. stepNo > 0 => stepNo \in Steps /\ 1 \in Steps
    BY PlanAssumption DEF Steps
<1> QED
    BY <1>1, <1>2 DEF StepInv

\* A worker changes no more than the outcomes of the step being run.
LEMMA StepWorker ==
  ASSUME TypeInv, StepInv, NEW w \in Workers, Worker(w)
  PROVE  /\ StepInv'
         /\ \A i \in Steps : i < stepNo \/ pc \notin Running => results'[i] = results[i]
<1>1. UNCHANGED <<pc, stepNo, step, nextSeq, pending, manifest>>
    BY DEF Worker, Get, Send, Export, RecordSuccess, BookSuccess, ResetConsecutive,
           StepAccepted, RecordFailure, BookFailure, StepFailed, StepFailedTo, CountFailure,
           Halt, Move, planVars, feedVars, endVars
<1>2. stepNo \in 0 .. NumSteps /\ results \in [Steps -> ResultType]
    BY DEF TypeInv, TypeOK, TypeMain
<1>3. \/ results' = results
      \/ /\ step # None
         /\ \E r : results' = [results EXCEPT ![step] = r]
                   /\ r.seq_start = results[step].seq_start
                   /\ r.seq_end = results[step].seq_end
                   /\ r.offered = results[step].offered
  <2>1. CASE Get(w) \/ Send(w) \/ \E c \in Outcomes : Export(w, c)
      BY <2>1 DEF Get, Send, Export, planVars
  <2>2. CASE RecordSuccess(w) \/ ResetConsecutive(w) \/ RecordFailure(w) \/ CountFailure(w)
             \/ Halt(w)
      BY <2>2 DEF RecordSuccess, BookSuccess, ResetConsecutive, RecordFailure, BookFailure,
                  CountFailure, Halt
  <2>3. CASE StepAccepted(w)
    <3>1. CASE step = None
        BY <2>3, <3>1 DEF StepAccepted
    <3>2. CASE step # None
      <4> DEFINE r == [results[step] EXCEPT !.accepted = @ + BatchSize, !.requests = @ + 1]
      <4>1. step \in Steps /\ results[step] \in ResultType
          BY <1>2, <3>2 DEF TypeInv, TypeOK, TypeMain
      <4>2. results' = [results EXCEPT ![step] = r]
          BY <1>2, <2>3, <3>2, <4>1 DEF StepAccepted
      <4>3. r.seq_start = results[step].seq_start /\ r.seq_end = results[step].seq_end
            /\ r.offered = results[step].offered
          BY <4>1 DEF ResultType
      <4> QED
          BY <3>2, <4>2, <4>3
    <3> QED
        BY <3>1, <3>2
  <2>4. CASE StepFailed(w)
    <3>1. CASE step = None
        BY <2>4, <3>1 DEF StepFailed, StepFailedTo
    <3>2. CASE step # None
      <4> DEFINE r == [results[step] EXCEPT !.requests = @ + 1, !.failures = @ + 1,
                         !.rejected = IF Rejected(w) THEN @ + BatchSize ELSE @]
      <4>1. step \in Steps /\ results[step] \in ResultType
          BY <1>2, <3>2 DEF TypeInv, TypeOK, TypeMain
      <4>2. results' = [results EXCEPT ![step] = r]
          BY <1>2, <2>4, <3>2, <4>1 DEF StepFailed, StepFailedTo
      <4>3. r.seq_start = results[step].seq_start /\ r.seq_end = results[step].seq_end
            /\ r.offered = results[step].offered
          BY <4>1 DEF ResultType
      <4> QED
          BY <3>2, <4>2, <4>3
    <3> QED
        BY <3>1, <3>2
  <2> QED
      BY <2>1, <2>2, <2>3, <2>4 DEF Worker
<1>4. \A i \in Steps : /\ results'[i].seq_start = results[i].seq_start
                       /\ results'[i].seq_end = results[i].seq_end
                       /\ results'[i].offered = results[i].offered
    BY <1>2, <1>3
<1>5. StepInv'
    BY <1>1, <1>2, <1>4, StepKept
<1>6. \A i \in Steps : i < stepNo \/ pc \notin Running => results'[i] = results[i]
  <2>1. CASE results' = results
      BY <2>1
  <2>2. ASSUME step # None, NEW r, results' = [results EXCEPT ![step] = r],
               NEW i \in Steps, i < stepNo \/ pc \notin Running
        PROVE  results'[i] = results[i]
    <3>1. pc \in Running /\ step = stepNo
        BY <2>2 DEF StepInv
    <3>2. i # step
        BY <1>2, <2>2, <3>1 DEF Steps
    <3> QED
        BY <1>2, <2>2, <3>2
  <2> QED
      BY <1>3, <2>1, <2>2
<1> QED
    BY <1>5, <1>6

\* run_step() begins: the new step starts at the next free number.
LEMMA StepBegins ==
  ASSUME TypeInv, StepInv, BeginStep
  PROVE  StepInv' /\ \A i \in Steps : i <= stepNo => results'[i] = results[i]
<1>1. /\ stepNo' = stepNo + 1 /\ step' = stepNo + 1 /\ pc = "steps" /\ pc' = "pace"
      /\ results' = [results EXCEPT ![stepNo + 1] = NewResult(nextSeq)]
      /\ UNCHANGED <<nextSeq, pending, manifest>>
    BY DEF BeginStep, feedVars, endVars
<1>2. stepNo \in Nat /\ stepNo + 1 \in Steps /\ nextSeq \in Nat /\ pending = None
      /\ results \in [Steps -> ResultType]
    BY PlanAssumption DEF BeginStep, TypeInv, TypeOK, TypeMain, TypeFeed, Control, Steps
<1>3. results'[stepNo'].seq_start = nextSeq /\ results'[stepNo'].offered = 0
    BY <1>1, <1>2 DEF NewResult
<1>4. results'[1].seq_start = 0
  <2>1. CASE stepNo = 0
      BY <1>1, <1>3, <2>1 DEF StepInv
  <2>2. CASE stepNo > 0
    <3>1. results'[1] = results[1]
        BY <1>1, <1>2, <2>2 DEF Steps
    <3> QED
        BY <2>2, <3>1 DEF StepInv
  <2> QED
      BY <1>2, <2>1, <2>2
<1>5. manifest' = None
    BY <1>1 DEF StepInv
<1>6. NextFree' = nextSeq
    BY <1>1, <1>2 DEF NextFree
<1>7. StepInv'
    BY <1>1, <1>2, <1>3, <1>4, <1>5, <1>6 DEF StepInv, Running, InStep
<1> QED
    BY <1>1, <1>2, <1>7 DEF Steps

\* The pacer numbers, puts and gives back batches.
LEMMA StepFeeds ==
  ASSUME TypeInv, Numbering, StepInv, Allocate \/ Put \/ GiveBack
  PROVE  StepInv' /\ results' = results
<1>1. /\ UNCHANGED <<stepNo, step, results, manifest>> /\ pc \in Running /\ pc' \in Running
      /\ pc \notin {"return", "exit"}
    BY DEF Allocate, Put, PutWhen, GiveBack, GiveBackTo, planVars, endVars, Running, InStep
<1>2. stepNo \in Nat /\ stepNo > 0 /\ results[stepNo] \in ResultType /\ nextSeq \in Nat
      /\ BatchSize \in Nat \ {0}
    BY <1>1, PlanAssumption
    DEF TypeInv, TypeOK, TypeMain, TypeFeed, Control, Running, Steps
<1>3. results[stepNo].seq_start \in Nat /\ results[stepNo].offered \in Nat
    BY <1>2 DEF ResultType
<1>4. results[stepNo].seq_start <= NextFree'
      /\ (results[stepNo].offered > 0 \/ pc' \in {"offer", "offerStep"} =>
            results[stepNo].seq_start < NextFree')
  <2>1. CASE Allocate
    <3>1. pending = None /\ NextFree = nextSeq /\ NextFree' = nextSeq /\ pc' = "put"
        BY <2>1, CodeAssumption, <1>2 DEF Allocate, TypeInv, Control, NextFree
    <3> QED
        BY <1>2, <3>1 DEF StepInv
  <2>2. CASE Put
    <3>1. pending \in Nat /\ nextSeq = pending + BatchSize /\ NextFree = pending
          /\ NextFree' = nextSeq
        BY <2>2 DEF Put, PutWhen, TypeInv, TypeOK, TypeFeed, Control, NextFree, Numbering,
                    PendingLast
    <3>2. results[stepNo].seq_start <= pending
        BY <1>2, <3>1 DEF StepInv
    <3> QED
        BY <1>2, <1>3, <3>1, <3>2
  <2>3. CASE GiveBack
    <3>1. pending \in Nat /\ NextFree = pending /\ NextFree' = pending /\ pc' = "drain"
        BY <2>3 DEF GiveBack, GiveBackTo, TypeInv, TypeOK, TypeFeed, Control, NextFree,
                    Numbering, PendingLast
    <3> QED
        BY <1>2, <3>1 DEF StepInv
  <2> QED
      BY <2>1, <2>2, <2>3
<1> QED
    BY <1>1, <1>2, <1>4 DEF StepInv

\* result.offered follows the batch that was put.
LEMMA StepOffers ==
  ASSUME TypeInv, StepInv, StepOffered
  PROVE  StepInv' /\ \A i \in Steps : i # stepNo => results'[i] = results[i]
<1>1. /\ UNCHANGED <<stepNo, step, nextSeq, pending, manifest>> /\ pc = "offerStep"
      /\ pc' \in {"drain", "pace"}
      /\ results' = [results EXCEPT ![stepNo].offered = @ + BatchSize]
    BY DEF StepOffered, feedVars, endVars
<1>2. stepNo \in Steps /\ 1 \in Steps /\ stepNo > 0 /\ results \in [Steps -> ResultType]
    BY <1>1, PlanAssumption DEF TypeInv, TypeOK, TypeMain, Control, InStep, Steps
<1>3. \A i \in Steps : results'[i].seq_start = results[i].seq_start
                       /\ (i # stepNo => results'[i] = results[i])
    BY <1>1, <1>2 DEF ResultType
<1>4. NextFree' = NextFree
    BY <1>1 DEF NextFree
<1>5. manifest = None /\ results[stepNo].seq_start < NextFree
    BY <1>1, <1>2 DEF StepInv
<1>6. results'[1].seq_start = 0 /\ results'[stepNo].seq_start = results[stepNo].seq_start
      /\ results[stepNo].seq_start <= NextFree
    BY <1>2, <1>3 DEF StepInv
<1>7. StepInv'
    BY <1>1, <1>2, <1>4, <1>5, <1>6 DEF StepInv, Running, InStep
<1> QED
    BY <1>3, <1>7

\* A step ends: its last number is read.
LEMMA StepEnds ==
  ASSUME TypeInv, StepInv, EndStep
  PROVE  StepInv' /\ \A i \in Steps : i # stepNo => results'[i] = results[i]
<1>1. /\ UNCHANGED <<stepNo, nextSeq, pending, manifest>> /\ pc = "endStep"
      /\ pc' = "judge" /\ step' = None
      /\ results' = [results EXCEPT ![stepNo].seq_end =
                                SeqEnd(results[stepNo].seq_start, nextSeq)]
    BY DEF EndStep, EndStepTo, feedVars, endVars
<1>2. stepNo \in Steps /\ 1 \in Steps /\ stepNo > 0 /\ results \in [Steps -> ResultType]
    BY <1>1, PlanAssumption DEF TypeInv, TypeOK, TypeMain, Control, InStep, Steps
<1>3. \A i \in Steps : results'[i].seq_start = results[i].seq_start
                       /\ results'[i].offered = results[i].offered
                       /\ (i # stepNo => results'[i] = results[i])
    BY <1>1, <1>2 DEF ResultType
<1>4. results'[stepNo].seq_end = SeqEnd(results'[stepNo].seq_start, nextSeq)
    BY <1>1, <1>2, <1>3 DEF ResultType
<1>5. NextFree' = NextFree /\ manifest = None
    BY <1>1 DEF NextFree, StepInv
<1>6. StepInv'
    BY <1>1, <1>2, <1>3, <1>4, <1>5 DEF StepInv, Running, InStep
<1> QED
    BY <1>3, <1>6

\* main() writes the range of the first and the last step.
LEMMA StepPublished ==
  ASSUME TypeInv, StepInv, WriteManifest
  PROVE  StepInv' /\ results' = results
<1>1. /\ UNCHANGED <<stepNo, step, results, nextSeq, pending>> /\ pc = "manifest" /\ pc' = "return"
      /\ manifest'.seq_min = (IF stepNo > 0 THEN results[1].seq_start ELSE 0)
      /\ manifest'.seq_max = IF stepNo > 0 THEN results[stepNo].seq_end ELSE -1
    BY DEF WriteManifest, planVars, feedVars
<1>2. NextFree' = NextFree /\ stepNo \in Nat
    BY <1>1, PlanAssumption DEF NextFree, TypeInv, TypeOK, TypeMain
<1> QED
    BY <1>1, <1>2 DEF StepInv, Running, InStep

\* Every step keeps it, and the results of the steps that are over.
LEMMA StepStep ==
  ASSUME TypeInv, Numbering, StepInv, [Next]_vars
  PROVE  /\ StepInv'
         /\ \A i \in Steps : i < stepNo \/ (i = stepNo /\ pc \notin Running) =>
              results'[i] = results[i]
<1>1. stepNo \in 0 .. NumSteps /\ Steps \subseteq Int
    BY DEF TypeInv, TypeOK, TypeMain, Steps
<1>2. CASE BeginStep
    BY <1>1, <1>2, StepBegins
<1>3. CASE Allocate \/ Put \/ GiveBack \/ WriteManifest
    BY <1>3, StepFeeds, StepPublished
<1>4. CASE StepOffered \/ EndStep
    BY <1>1, <1>4, StepOffers, StepEnds DEF StepOffered, EndStep, EndStepTo, Running, InStep
<1>5. ASSUME UNCHANGED <<stepNo, step, results, nextSeq, pending, manifest>>,
             pc' \in Running <=> pc \in Running,
             pc' \in {"offer", "offerStep"} => pc \in {"offer", "offerStep"},
             pc' = pc \/ pc \notin {"return", "exit"} \/ pc' = "exit"
      PROVE  StepInv' /\ results' = results
    BY <1>1, <1>5, StepKept
<1>6. CASE RefuseToStart \/ StartEngine \/ LeaveSteps \/ PaceCheck \/ PaceWait
           \/ PutCheck \/ PutFull \/ RecordOffered
    BY <1>5, <1>6
    DEF RefuseToStart, StartEngine, LeaveSteps, PaceCheck, PaceWait, PutCheck, PutFull,
        RecordOffered, Goto, planVars, feedVars, endVars, Running, InStep
<1>7. CASE DrainDone \/ DrainTimeout \/ Judge \/ StopEngine \/ PutSentinel \/ Join
           \/ CloseExporter \/ Exit
    BY <1>5, <1>7
    DEF DrainDone, DrainTimeout, Judge, StopEngine, PutSentinel, PutSentinelAs, Join,
        CloseExporter, Exit, Goto, planVars, feedVars, endVars, Running, InStep
<1>8. CASE Signal \/ DeadlinePasses \/ UNCHANGED vars
    BY <1>5, <1>8 DEF Signal, DeadlinePasses, vars, planVars, feedVars, endVars
<1>9. ASSUME NEW w \in Workers, Worker(w)
      PROVE  StepInv' /\ \A i \in Steps : i < stepNo \/ pc \notin Running => results'[i] = results[i]
    BY <1>9, StepWorker
<1> QED
    BY <1>2, <1>3, <1>4, <1>6, <1>7, <1>8, <1>9 DEF Next, Main, Terminated

\* Holds in every state of every run.
LEMMA StepAlways == Spec => [](TypeInv /\ Numbering /\ StepInv)
<1>1. TypeInv /\ Numbering /\ StepInv /\ [Next]_vars => StepInv'
    BY StepStep
<1> QED
    BY <1>1, StepStart, NumberingAlways, PTL DEF Spec

\* For every pool, plan and interleaving: the result of a step that main()
\* has judged never changes again, however late its acks are.
THEOREM StepsAreFinal == Spec => FinishedStepIsFinal
<1>1. TypeInv /\ Numbering /\ StepInv /\ [Next]_vars =>
        [\A i \in Steps :
           (i < stepNo \/ (i = stepNo /\ pc \notin InStep \cup {"drain", "endStep"}))
             => results'[i] = results[i]]_vars
    BY StepStep DEF Running
<1> QED
    BY <1>1, StepAlways, PTL DEF Spec, FinishedStepIsFinal

\* For every run: the range of the manifest leaves no offered row out, and is
\* exact when the last step offered something.
THEOREM RangesCover == Spec => []RangeCoversOffers
<1>1. TypeInv /\ StepInv => RangeCoversOffers
  <2> SUFFICES ASSUME TypeInv, StepInv, manifest # None
               PROVE  LET claimed == manifest.seq_min .. manifest.seq_max
                      IN /\ 0 .. nextSeq - 1 \subseteq claimed /\ claimed \subseteq 0 .. nextSeq
                         /\ stepNo > 0 /\ results[stepNo].offered > 0 =>
                              claimed = 0 .. nextSeq - 1
      BY DEF RangeCoversOffers
  <2>1. pc \in {"return", "exit"} /\ pc \notin Running /\ pending = None /\ manifest.seq_min = 0
        /\ manifest.seq_max = IF stepNo > 0 THEN results[stepNo].seq_end ELSE -1
      BY DEF StepInv, Running, InStep, TypeInv, Control
  <2>2. stepNo \in Nat /\ nextSeq \in Nat /\ NextFree = nextSeq
      BY <2>1, PlanAssumption DEF TypeInv, TypeOK, TypeMain, TypeFeed, NextFree
  <2>3. CASE stepNo = 0
      BY <2>1, <2>2, <2>3 DEF StepInv
  <2>4. CASE stepNo > 0
    <3> DEFINE first == results[stepNo].seq_start
    <3>1. first \in Nat /\ first <= nextSeq /\ results[stepNo].seq_end = SeqEnd(first, nextSeq)
          /\ (results[stepNo].offered > 0 => first < nextSeq)
        BY <2>1, <2>2, <2>4 DEF StepInv, TypeInv, TypeOK, TypeMain, ResultType, Steps
    <3>2. manifest.seq_max = IF nextSeq - 1 > first THEN nextSeq - 1 ELSE first
        BY <2>1, <2>4, <3>1 DEF SeqEnd
    <3> QED
        BY <2>1, <2>2, <3>1, <3>2
  <2> QED
      BY <2>2, <2>3, <2>4
<1> QED
    BY <1>1, StepAlways, PTL

-----------------------------------------------------------------------------
(* The steps against the totals.                                           *)

AckedBySteps == [i \in Steps |-> results[i].accepted]

\* Workers whose ack is in the totals and in no step yet.
Crediting == {w \in Workers : wpc[w] \in {"reset", "ackStep"}}

\* Every ack a step shows is in the totals, and so are those on their way.
CreditInv ==
  SumFunctionOnSet(AckedBySteps, Steps) + Worth(Crediting) <= totals.accepted

LEMMA CreditTypes ==
  ASSUME TypeInv
  PROVE  /\ IsFiniteSet(Steps) /\ IsFiniteSet(Crediting)
         /\ \A i \in Steps : AckedBySteps[i] = results[i].accepted /\ AckedBySteps[i] \in Int
         /\ SumFunctionOnSet(AckedBySteps, Steps) \in Int
         /\ SumFunction(AckedBySteps) = SumFunctionOnSet(AckedBySteps, Steps)
         /\ Worth(Crediting) \in Nat /\ totals.accepted \in Nat /\ BatchSize \in Nat
<1>1. NumSteps \in Int /\ 1 \in Int
  BY PlanAssumption
<1>2. IsFiniteSet(Steps)
  BY <1>1, FS_Interval DEF Steps
<1>3. \A i \in Steps : AckedBySteps[i] = results[i].accepted /\ AckedBySteps[i] \in Int
  BY DEF AckedBySteps, TypeInv, TypeOK, TypeMain, ResultType
<1>4. SumFunctionOnSet(AckedBySteps, Steps) \in Int
  BY <1>2, <1>3, SumType
<1>5. SumFunction(AckedBySteps) = SumFunctionOnSet(AckedBySteps, Steps)
  BY DEF SumFunction, AckedBySteps
<1>6. Crediting \in SUBSET Workers /\ IsFiniteSet(Workers)
  BY PoolAssumption DEF Crediting
<1>7. IsFiniteSet(Crediting) /\ Worth(Crediting) \in Nat
  BY <1>6, WorthPart
<1>8. totals.accepted \in Nat
  BY DEF TypeInv, TypeOK, TypeBooks, TotalsType
<1> QED
  BY <1>2, <1>3, <1>4, <1>5, <1>7, <1>8, PlanAssumption

LEMMA CreditStart == Init => CreditInv
<1> SUFFICES ASSUME Init PROVE CreditInv
  OBVIOUS
<1>1. TypeInv
  BY TypeInit
<1>2. Crediting = {} /\ totals.accepted = 0
  BY DEF Init, Crediting
<1>3. \A i \in Steps : AckedBySteps[i] = 0
  <2> SUFFICES ASSUME NEW i \in Steps PROVE AckedBySteps[i] = 0
    OBVIOUS
  <2>1. results = [j \in Steps |-> NewResult(0)]
    BY DEF Init
  <2> QED
    BY <2>1 DEF AckedBySteps, NewResult
<1>4. SumFunctionOnSet(AckedBySteps, Steps) = -SumFunctionOnSet(AckedBySteps, Steps)
  <2>1. \A i \in Steps : AckedBySteps[i] \in Int /\ AckedBySteps[i] = -AckedBySteps[i]
    BY <1>3
  <2> QED
    BY <1>1, <2>1, CreditTypes, SumNegated
<1> QED
  BY <1>1, <1>2, <1>4, CreditTypes, WorthNone DEF CreditInv

\* A step of the program that books no ack, neither in the totals nor in a
\* step; a step that begins starts from zero.
LEMMA CreditKept ==
  ASSUME TypeInv, TypeInv', CreditInv, Crediting' = Crediting,
         totals'.accepted = totals.accepted,
         \A i \in Steps : results'[i].accepted <= results[i].accepted
  PROVE  CreditInv'
<1>1. \A i \in Steps : /\ AckedBySteps[i] \in Int /\ AckedBySteps'[i] \in Int
                       /\ AckedBySteps'[i] <= AckedBySteps[i]
  BY DEF AckedBySteps, TypeInv, TypeOK, TypeMain, ResultType
<1>2. SumFunctionOnSet(AckedBySteps', Steps) <= SumFunctionOnSet(AckedBySteps, Steps)
  BY <1>1, CreditTypes, SumMonotonic
<1>3. SumFunctionOnSet(AckedBySteps', Steps) \in Int
  BY <1>1, CreditTypes, SumType
<1>4. Worth(Crediting') = Worth(Crediting)
  OBVIOUS
<1> QED
  BY <1>2, <1>3, <1>4, CreditTypes DEF CreditInv, Worth

\* record_success(): the totals come first.
LEMMA CreditTotals ==
  ASSUME TypeInv, TypeInv', CreditInv, NEW w \in Workers, RecordSuccess(w)
  PROVE  CreditInv'
<1>1. /\ wpc[w] = "success" /\ wpc' = [wpc EXCEPT ![w] = "reset"] /\ results' = results
      /\ totals' = [totals EXCEPT !.sent = @ + 1, !.accepted = @ + BatchSize]
  BY DEF RecordSuccess, BookSuccess, Move
<1>2. totals'.accepted = totals.accepted + BatchSize
  BY <1>1 DEF TypeInv, TypeOK, TypeBooks, TotalsType
<1>3. w \notin Crediting /\ Crediting' = Crediting \cup {w}
  BY <1>1 DEF Crediting, TypeInv, TypeOK, TypeWorkers
<1>4. Worth(Crediting') = Worth(Crediting) + BatchSize
  BY <1>3, CreditTypes, WorthAdd
<1>5. AckedBySteps' = AckedBySteps
  BY <1>1 DEF AckedBySteps
<1> QED
  BY <1>2, <1>4, <1>5, CreditTypes DEF CreditInv, Worth

\* The ack goes to the current step, or to none.
LEMMA CreditStep ==
  ASSUME TypeInv, TypeInv', CreditInv, NEW w \in Workers, StepAccepted(w)
  PROVE  CreditInv'
<1>1. /\ wpc[w] = "ackStep" /\ wpc' = [wpc EXCEPT ![w] = "get"] /\ totals' = totals
      /\ results' = IF step = None THEN results
                    ELSE [results EXCEPT ![step].accepted = @ + BatchSize,
                                         ![step].requests = @ + 1]
  BY DEF StepAccepted, Move
<1>2. w \in Crediting /\ Crediting' = Crediting \ {w}
  BY <1>1 DEF Crediting, TypeInv, TypeOK, TypeWorkers
<1>3. Worth(Crediting) = Worth(Crediting') + BatchSize /\ Worth(Crediting') \in Nat
  BY <1>2, CreditTypes, WorthRemove
<1>4. /\ IsFiniteSet(Steps)
      /\ \A i \in Steps : AckedBySteps[i] \in Int /\ AckedBySteps'[i] \in Int
      /\ SumFunctionOnSet(AckedBySteps, Steps) \in Int
  BY CreditTypes DEF AckedBySteps, TypeInv, TypeOK, TypeMain, ResultType
<1>5. SumFunctionOnSet(AckedBySteps', Steps)
        \in {SumFunctionOnSet(AckedBySteps, Steps), SumFunctionOnSet(AckedBySteps, Steps) + BatchSize}
  <2>1. CASE step = None
    <3>1. AckedBySteps' = AckedBySteps
      BY <1>1, <2>1 DEF AckedBySteps
    <3> QED
      BY <3>1
  <2>2. CASE step # None
    <3>1. step \in Steps /\ results \in [Steps -> ResultType]
      BY <2>2 DEF TypeInv, TypeOK, TypeMain
    <3>2. /\ AckedBySteps'[step] = AckedBySteps[step] + BatchSize
          /\ \A i \in Steps \ {step} : AckedBySteps'[i] = AckedBySteps[i]
      BY <1>1, <2>2, <3>1 DEF AckedBySteps, ResultType
    <3>3. SumFunctionOnSet(AckedBySteps', Steps)
            = SumFunctionOnSet(AckedBySteps, Steps) + (AckedBySteps'[step] - AckedBySteps[step])
      BY <1>4, <3>1, <3>2, SumChange
    <3>4. AckedBySteps'[step] - AckedBySteps[step] = BatchSize
      BY <1>4, <3>1, <3>2, CreditTypes
    <3> QED
      BY <3>3, <3>4
  <2> QED
    BY <2>1, <2>2
<1> QED
  BY <1>1, <1>3, <1>4, <1>5, CreditTypes DEF CreditInv, Worth

LEMMA CreditWorker ==
  ASSUME TypeInv, TypeInv', CreditInv, NEW w \in Workers, Worker(w)
  PROVE  CreditInv'
<1>1. CASE RecordSuccess(w)
  BY <1>1, CreditTotals
<1>2. CASE StepAccepted(w)
  BY <1>2, CreditStep
<1>3. CASE ResetConsecutive(w)
  <2>1. /\ wpc[w] = "reset" /\ wpc' = [wpc EXCEPT ![w] = "ackStep"]
        /\ UNCHANGED <<results, totals>>
    BY <1>3 DEF ResetConsecutive, Move
  <2>2. Crediting' = Crediting
    BY <2>1 DEF Crediting, TypeInv, TypeOK, TypeWorkers
  <2> QED
    BY <2>1, <2>2, CreditKept DEF TypeInv, TypeOK, TypeMain, ResultType
<1>4. ASSUME NEW to, to \notin {"reset", "ackStep"}, wpc' = [wpc EXCEPT ![w] = to],
             wpc[w] \notin {"reset", "ackStep"}, totals'.accepted = totals.accepted,
             \A i \in Steps : results'[i].accepted = results[i].accepted
      PROVE  CreditInv'
  <2>1. Crediting' = Crediting
    BY <1>4 DEF Crediting, TypeInv, TypeOK, TypeWorkers
  <2> QED
    BY <1>4, <2>1, CreditKept DEF TypeInv, TypeOK, TypeMain, ResultType
<1>5. CASE Get(w) \/ Send(w) \/ \E c \in Outcomes : Export(w, c)
  <2>1. UNCHANGED <<results, totals>>
    BY <1>5 DEF Get, Send, Export, planVars
  <2>2. /\ wpc[w] \notin {"reset", "ackStep"}
        /\ \E to \in {"gone", "send", "rpc", "get", "success", "failure"} :
             wpc' = [wpc EXCEPT ![w] = to]
    BY <1>5 DEF Get, Send, Export
  <2> QED
    BY <1>4, <2>1, <2>2
<1>6. CASE RecordFailure(w)
  <2>1. /\ wpc[w] = "failure" /\ wpc' = [wpc EXCEPT ![w] = "failStep"] /\ results' = results
        /\ totals'.accepted = totals.accepted
    BY <1>6 DEF RecordFailure, BookFailure, Move, TypeInv, TypeOK, TypeBooks, TotalsType
  <2> QED
    BY <1>4, <2>1
<1>7. CASE StepFailed(w)
  <2>1. /\ wpc[w] = "failStep" /\ totals' = totals
        /\ \E to \in {"get", "count"} : wpc' = [wpc EXCEPT ![w] = to]
    BY <1>7 DEF StepFailed, StepFailedTo, Move
  <2>2. \A i \in Steps : results'[i].accepted = results[i].accepted
    BY <1>7 DEF StepFailed, StepFailedTo, TypeInv, TypeOK, TypeMain, ResultType
  <2> QED
    BY <1>4, <2>1, <2>2
<1>8. CASE CountFailure(w) \/ Halt(w)
  <2>1. /\ wpc[w] \in {"count", "halt"} /\ UNCHANGED <<results, totals>>
        /\ \E to \in {"get", "halt"} : wpc' = [wpc EXCEPT ![w] = to]
    BY <1>8 DEF CountFailure, Halt, Move
  <2> QED
    BY <1>4, <2>1
<1> QED
  BY <1>1, <1>2, <1>3, <1>5, <1>6, <1>7, <1>8 DEF Worker

\* The main thread books offers, never acks.
LEMMA CreditMain ==
  ASSUME TypeInv, TypeInv', CreditInv, Main \/ Signal \/ DeadlinePasses \/ UNCHANGED vars
  PROVE  CreditInv'
<1>0. stepNo \in Nat /\ results \in [Steps -> ResultType] /\ totals \in TotalsType
  BY PlanAssumption DEF TypeInv, TypeOK, TypeMain, TypeBooks
<1>1. ASSUME wpc' = wpc, totals'.accepted = totals.accepted,
             \A i \in Steps : results'[i].accepted <= results[i].accepted
      PROVE  CreditInv'
  <2>1. Crediting' = Crediting
    BY <1>1 DEF Crediting
  <2> QED
    BY <1>1, <2>1, CreditKept
<1>2. ASSUME wpc' = wpc, totals' = totals, results' = results
      PROVE  CreditInv'
  <2>1. \A i \in Steps : results'[i].accepted <= results[i].accepted
    BY <1>0, <1>2 DEF ResultType
  <2> QED
    BY <1>1, <1>2, <2>1
<1>3. CASE StartEngine
  <2>1. /\ \A w \in Workers : wpc[w] = "unborn"
        /\ wpc' = [w \in Workers |-> "get"] /\ totals' = totals /\ results' = results
    BY <1>3 DEF StartEngine, TypeInv, Control, planVars
  <2>2. Crediting' = Crediting
    BY <2>1 DEF Crediting
  <2>3. \A i \in Steps : results'[i].accepted <= results[i].accepted
    BY <1>0, <2>1 DEF ResultType
  <2> QED
    BY <2>1, <2>2, <2>3, CreditKept
<1>4. CASE BeginStep
  <2>1. /\ wpc' = wpc /\ totals' = totals /\ stepNo < NumSteps
        /\ results' = [results EXCEPT ![stepNo + 1] = NewResult(nextSeq)]
    BY <1>4 DEF BeginStep, workerVars
  <2>2. \A i \in Steps : results'[i].accepted <= results[i].accepted
    BY <1>0, <2>1 DEF ResultType, NewResult
  <2> QED
    BY <1>1, <2>1, <2>2
<1>5. CASE StepOffered
  <2>1. /\ wpc' = wpc /\ totals' = totals
        /\ results' = [results EXCEPT ![stepNo].offered = @ + BatchSize]
    BY <1>5 DEF StepOffered, workerVars
  <2>2. \A i \in Steps : results'[i].accepted <= results[i].accepted
    BY <1>0, <2>1 DEF ResultType
  <2> QED
    BY <1>1, <2>1, <2>2
<1>6. CASE EndStep
  <2>1. /\ wpc' = wpc /\ totals' = totals
        /\ results' = [results EXCEPT ![stepNo].seq_end =
                         SeqEnd(results[stepNo].seq_start, nextSeq)]
    BY <1>6 DEF EndStep, EndStepTo, workerVars
  <2>2. \A i \in Steps : results'[i].accepted <= results[i].accepted
    BY <1>0, <2>1 DEF ResultType
  <2> QED
    BY <1>1, <2>1, <2>2
<1>7. CASE RecordOffered
  <2>1. wpc' = wpc /\ results' = results /\ totals'.accepted = totals.accepted
    BY <1>0, <1>7 DEF RecordOffered, workerVars, planVars, TotalsType
  <2>2. \A i \in Steps : results'[i].accepted <= results[i].accepted
    BY <1>0, <2>1 DEF ResultType
  <2> QED
    BY <1>1, <2>1, <2>2
<1>8. CASE RefuseToStart \/ LeaveSteps \/ PaceCheck \/ PaceWait \/ Allocate \/ PutCheck \/ Put
           \/ PutFull \/ GiveBack \/ DrainDone \/ DrainTimeout
  BY <1>2, <1>8
  DEF RefuseToStart, LeaveSteps, PaceCheck, PaceWait, Allocate, PutCheck, Put, PutWhen,
      PutFull, GiveBack, GiveBackTo, DrainDone, DrainTimeout, Goto, planVars, workerVars
<1>9. CASE Judge \/ StopEngine \/ PutSentinel \/ Join \/ CloseExporter \/ WriteManifest \/ Exit
           \/ Signal \/ DeadlinePasses \/ UNCHANGED vars
  BY <1>2, <1>9
  DEF Judge, StopEngine, PutSentinel, PutSentinelAs, Join, CloseExporter, WriteManifest, Exit,
      Signal, DeadlinePasses, Goto, planVars, workerVars, vars
<1> QED
  BY <1>3, <1>4, <1>5, <1>6, <1>7, <1>8, <1>9 DEF Main

\* For every pool, plan and interleaving: what the steps show as accepted was
\* booked in the totals first, late acks and restarted steps included.
THEOREM StepsStayWithinTotals == Spec => []StepsWithinTotals
<1>1. TypeInv /\ CreditInv => StepsWithinTotals
  <2> SUFFICES ASSUME TypeInv, CreditInv PROVE StepsWithinTotals
    OBVIOUS
  <2>1. SumFunction(AckedBySteps) <= totals.accepted
    BY CreditTypes DEF CreditInv
  <2> QED
    BY <2>1 DEF StepsWithinTotals, AckedBySteps
<1>2. TypeInv /\ CreditInv /\ [Next]_vars => (TypeInv /\ CreditInv)'
  BY TypeStep, CreditMain, CreditWorker DEF Next, Terminated
<1>3. Init => TypeInv /\ CreditInv
  BY TypeInit, CreditStart
<1> QED
  BY <1>1, <1>2, <1>3, PTL DEF Spec
=============================================================================
