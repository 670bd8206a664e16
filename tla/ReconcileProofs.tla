-------------------------- MODULE ReconcileProofs --------------------------
(***************************************************************************)
(* Proofs about Reconcile, for any number of rows, any faults and any      *)
(* interleaving of the queries with the rows that still arrive.            *)
(***************************************************************************)
EXTENDS Reconcile, FiniteSetTheorems, TLAPS

TypeInv == TypeOK /\ IsFiniteSet(lake)

\* The generator numbers finitely many rows, so every count is a number.
LEMMA RowsFinite == IsFiniteSet(Rows) /\ NumRows \in Nat
<1>1. 0 \in Int /\ NumRows - 1 \in Int /\ NumRows \in Nat
    BY BoundAssumption
<1> QED
    BY <1>1, FS_Interval DEF Rows

\* Any selection of rows is finite: what the manifest's totals count.
LEMMA SomeRows ==
  ASSUME NEW S \in SUBSET Rows
  PROVE  IsFiniteSet(S) /\ Cardinality(S) \in Nat
BY RowsFinite, FS_Subset, FS_CardinalityType

\* Any selection of rows of the table is finite: what the queries count.
LEMMA SomeLake ==
  ASSUME IsFiniteSet(lake), NEW S \in SUBSET lake
  PROVE  IsFiniteSet(S) /\ Cardinality(S) \in Nat
BY FS_Subset, FS_CardinalityType

-----------------------------------------------------------------------------
(* Type correctness                                                        *)

\* Each query fills in a field of the result with a value of its type.
LEMMA AnswerType ==
  ASSUME result \in ResultType
  PROVE  /\ \A n \in Nat : /\ [NoResult EXCEPT !.landed = n] \in ResultType
                           /\ [result EXCEPT !.inWindow = n] \in ResultType
                           /\ [result EXCEPT !.dups = n] \in ResultType
                           /\ [result EXCEPT !.unaccounted = n] \in ResultType
         /\ \A x \in {"pass", "fail"} :
              [result EXCEPT !.watermark = x] \in ResultType
         /\ \A x \in SumsType : [result EXCEPT !.sums = x] \in ResultType
         /\ \A x \in {"PASS", "FAIL"} :
              [result EXCEPT !.verdict = x] \in ResultType
<1> DEFINE T == SumsType
<1> HIDE DEF T
<1>1. ResultType = [landed : Nat, inWindow : Nat, dups : Nat,
                    unaccounted : Nat, watermark : {"pass", "fail", None},
                    sums : T \cup {None}, verdict : {"PASS", "FAIL", None}]
    BY DEF ResultType, T
<1>2. \A n \in Nat : [NoResult EXCEPT !.landed = n] \in ResultType
    BY <1>1 DEF NoResult
<1>3. \A n \in Nat : /\ [result EXCEPT !.inWindow = n] \in ResultType
                     /\ [result EXCEPT !.dups = n] \in ResultType
                     /\ [result EXCEPT !.unaccounted = n] \in ResultType
    BY <1>1
<1>4. /\ \A x \in {"pass", "fail"} :
           [result EXCEPT !.watermark = x] \in ResultType
      /\ \A x \in {"PASS", "FAIL"} :
           [result EXCEPT !.verdict = x] \in ResultType
    BY <1>1
<1>5. \A x \in T : [result EXCEPT !.sums = x] \in ResultType
    BY <1>1
<1> QED
    BY <1>2, <1>3, <1>4, <1>5 DEF T

\* The checksums of any table are counts.
LEMMA SumsTyped == IsFiniteSet(lake) => Checksums \in SumsType
<1> SUFFICES ASSUME IsFiniteSet(lake) PROVE Checksums \in SumsType
    OBVIOUS
<1>1. \A s \in Rows : Cardinality({r \in lake : r.seq = s}) \in Nat
    BY SomeLake
<1>2. \A b \in Bodies : Cardinality({r \in lake : r.body = b}) \in Nat
    BY SomeLake
<1> QED
    BY <1>1, <1>2 DEF Checksums, SumsType

\* Before the run the table, the watermark and the result are empty.
LEMMA ReconcileTypeInit == Init => TypeInv
<1> SUFFICES ASSUME Init PROVE TypeInv
    OBVIOUS
<1>1. result \in ResultType
    BY DEF Init, NoResult, ResultType
<1>2. 0 \in 0..NumRows /\ 0 \in 0..MaxDamage /\ 0 \in 0..MaxForeign
    BY BoundAssumption
<1>3. IsFiniteSet(lake)
    BY FS_EmptySet DEF Init
<1>4. manifest = None /\ phase = "load"
    BY DEF Init
<1>5. baseline \in [sums : SumsType \cup {None}] \cup {None}
    BY DEF Init
<1> QED
    BY <1>1, <1>2, <1>3, <1>4, <1>5 DEF Init, TypeInv, TypeOK, Phases

\* A step of the generator or the collector that leaves the check alone.
LEMMA TypeRunStep ==
  ASSUME TypeInv,
         \/ Offer \/ ForeignCommit
         \/ \E s \in Rows : \/ Commit(s) \/ Ack(s) \/ Reject(s)
                            \/ Unavailable(s) \/ AckLost(s) \/ Late(s)
  PROVE  TypeInv'
<1> USE DEF TypeInv, TypeOK
<1>1. CASE Offer
  <2>1. offered \in Rows
      BY <1>1, BoundAssumption DEF Offer, Rows
  <2> QED
      BY <1>1, <2>1, BoundAssumption DEF Offer, checkVars, Rows
<1>2. CASE ForeignCommit
    BY <1>2, BoundAssumption DEF ForeignCommit, runVars, checkVars
<1>3. ASSUME NEW s \in Rows, Commit(s) PROVE TypeInv'
  <2>1. IsFiniteSet(lake')
      BY <1>3, FS_AddElement DEF Commit
  <2>2. [seq |-> s, copy |-> 1, body |-> s, other |-> "sent"] \in LakeRow
      BY BoundAssumption DEF LakeRow, Bodies
  <2>3. lake' \subseteq LakeRow
      BY <1>3, <2>2 DEF Commit
  <2>4. server' \in [Rows -> {"idle", "received", "committed", "dropped"}]
      BY <1>3 DEF Commit
  <2> QED
      BY <1>3, <2>1, <2>3, <2>4 DEF Commit, runVars, checkVars
<1>4. ASSUME NEW s \in Rows, NEW from,
             NEW to \in {"committed", "dropped"},
             NEW fate \in {"acked", "rejected", "failed"},
             Reply(s, from, to, fate)
      PROVE  TypeInv'
    BY <1>4 DEF Reply, checkVars
<1>5. ASSUME NEW s \in Rows, Late(s) PROVE TypeInv'
    BY <1>5 DEF Late, lakeVars, checkVars
<1> QED
    BY <1>1, <1>2, <1>3, <1>4, <1>5 DEF Ack, Reject, Unavailable, AckLost

\* A damaged table is still a finite table of rows.
LEMMA TypeDamage ==
  ASSUME TypeInv,
         \/ \E r \in lake : Lose(r) \/ Duplicate(r) \/ Corrupt(r)
         \/ \E q, r \in lake : Misalign(q, r)
  PROVE  TypeInv'
<1> USE DEF TypeInv, TypeOK
<1>1. ASSUME NEW fault, NEW L \in SUBSET LakeRow, IsFiniteSet(L),
             Damage(fault, L)
      PROVE  TypeInv'
    BY <1>1, BoundAssumption DEF Damage, runVars, checkVars
<1>2. ASSUME NEW q \in lake, NEW r \in lake
      PROVE  /\ [r EXCEPT !.body = Corrupted] \in LakeRow
             /\ [r EXCEPT !.other = "changed"] \in LakeRow
             /\ [q EXCEPT !.body = r.body] \in LakeRow
             /\ r.copy < MaxCopies => [r EXCEPT !.copy = @ + 1] \in LakeRow
  <2>1. q \in LakeRow /\ r \in LakeRow
      OBVIOUS
  <2> QED
      BY <2>1, BoundAssumption DEF LakeRow, Bodies
<1>3. ASSUME NEW S \in SUBSET lake, NEW x, NEW y
      PROVE  IsFiniteSet(S) /\ IsFiniteSet(S \cup {x}) /\ IsFiniteSet(S \cup {x, y})
  <2>1. IsFiniteSet(S)
      BY FS_Subset
  <2>2. IsFiniteSet(S \cup {x}) /\ IsFiniteSet((S \cup {x}) \cup {y})
      BY <2>1, FS_AddElement
  <2>3. (S \cup {x}) \cup {y} = S \cup {x, y}
      OBVIOUS
  <2> QED
      BY <2>1, <2>2, <2>3
<1>4. ASSUME NEW r \in lake, Lose(r) PROVE TypeInv'
    BY <1>1, <1>3, <1>4 DEF Lose
<1>5. ASSUME NEW r \in lake, Duplicate(r) PROVE TypeInv'
  <2> DEFINE L == lake \cup {[r EXCEPT !.copy = @ + 1]}
  <2>1. L \in SUBSET LakeRow /\ IsFiniteSet(L)
      BY <1>2, <1>3, <1>5 DEF Duplicate
  <2> QED
      BY <1>1, <1>5, <2>1 DEF Duplicate
<1>6. ASSUME NEW r \in lake, Corrupt(r) PROVE TypeInv'
  <2>1. PICK x \in {[r EXCEPT !.body = Corrupted], [r EXCEPT !.other = "changed"]} :
          Damage("corrupt", (lake \ {r}) \cup {x})
      BY <1>6 DEF Corrupt
  <2> DEFINE L == (lake \ {r}) \cup {x}
  <2>2. x \in LakeRow
      BY <1>2
  <2>3. L \in SUBSET LakeRow /\ IsFiniteSet(L)
    <3> HIDE <1>2
    <3> QED
        BY <1>3, <2>2
  <2> QED
      BY <1>1, <2>1, <2>3
<1>7. ASSUME NEW q \in lake, NEW r \in lake, Misalign(q, r) PROVE TypeInv'
  <2> DEFINE L == (lake \ {q, r}) \cup {[q EXCEPT !.body = r.body],
                                        [r EXCEPT !.body = q.body]}
  <2>1. L \in SUBSET LakeRow /\ IsFiniteSet(L)
      BY <1>2, <1>3
  <2> QED
      BY <1>1, <1>7, <2>1 DEF Misalign
<1> QED
    BY <1>4, <1>5, <1>6, <1>7

\* The manifest, the queries and the verdict.
LEMMA TypeCheckStep ==
  ASSUME TypeInv,
         \/ WriteManifest \/ CountLanded \/ CountWindow \/ CountDuplicates
         \/ CountDistinct \/ SumWatermark \/ SumColumns \/ Verdict \/ CheckAgain
  PROVE  TypeInv'
<1> USE DEF TypeInv, TypeOK
<1>1. CASE WriteManifest
  <2>1. Total("acked") \in Nat /\ Total("rejected") \in Nat
      BY SomeRows DEF Total
  <2>2. offered \in Nat /\ lastEmpty' \in BOOLEAN
      BY <1>1 DEF WriteManifest
  <2>3. manifest' \in ManifestType
      BY <1>1, <2>1, <2>2 DEF WriteManifest, ManifestType
  <2> QED
      BY <1>1, <2>2, <2>3 DEF WriteManifest, lakeVars, Phases
<1>2. ASSUME NEW from \in Phases \ {"load"}, NEW to \in Phases \ {"load"},
             NEW answer \in ResultType, Query(from, to, answer)
      PROVE  TypeInv'
    BY <1>2 DEF Query, runVars, lakeVars
<1>3. Cardinality(lake) \in Nat
    BY FS_CardinalityType
<1>4. CASE CountLanded
    BY <1>2, <1>3, <1>4, AnswerType DEF CountLanded, Phases
<1>5. CASE CountWindow
  <2>1. Cardinality(lake) + foreign \in Nat
      BY <1>3
  <2>2. [result EXCEPT !.inWindow = Cardinality(lake) + foreign] \in ResultType
      BY <2>1, AnswerType
  <2> QED
      BY <1>2, <1>5, <2>2 DEF CountWindow, Phases
<1>6. CASE CountDuplicates
  <2>1. Cardinality(Duplicated) \in Nat
      BY SomeRows DEF Duplicated
  <2> QED
      BY <1>2, <1>6, <2>1, AnswerType DEF CountDuplicates, Phases
<1>7. CASE CountDistinct
  <2>1. Landed \subseteq Rows
      BY DEF Landed, LakeRow
  <2>2. Cardinality(Landed) \in Nat
      BY <2>1, SomeRows
  <2>3. manifest \in ManifestType
      BY <1>7 DEF CountDistinct, Query
  <2>4. Unaccounted \in Nat
      BY <2>2, <2>3 DEF Unaccounted, Excess, ManifestType
  <2> QED
      BY <1>2, <1>7, <2>4, AnswerType DEF CountDistinct, Phases
<1>8. CASE SumWatermark
  <2>1. CASE Query("watermark", "sums",
                   [result EXCEPT !.watermark = IF WatermarkAgrees THEN "pass"
                                                ELSE "fail"])
    <3>1. (IF WatermarkAgrees THEN "pass" ELSE "fail") \in {"pass", "fail"}
        OBVIOUS
    <3> QED
        BY <1>2, <2>1, <3>1, AnswerType DEF Phases
  <2>2. CASE Query("watermark", "sums", result)
      BY <1>2, <2>2 DEF Phases
  <2> QED
      BY <1>8, <2>1, <2>2 DEF SumWatermark
<1>9. CASE SumColumns
  <2>1. result' \in ResultType
      BY <1>9, SumsTyped, AnswerType DEF SumColumns
  <2>2. before' \subseteq LakeRow
      BY <1>9 DEF SumColumns
  <2> QED
      BY <1>9, <2>1, <2>2 DEF SumColumns, runVars, lakeVars, Phases
<1>10. CASE Verdict
  <2>1. (IF Hard \/ Differing THEN "FAIL" ELSE "PASS") \in {"PASS", "FAIL"}
      OBVIOUS
  <2> QED
      BY <1>2, <1>10, <2>1, AnswerType DEF Verdict, Phases
<1>11. CASE CheckAgain
  <2>1. result.sums \in SumsType \cup {None}
      BY DEF ResultType
  <2>2. baseline' \in [sums : SumsType \cup {None}]
      BY <1>11, <2>1 DEF CheckAgain
  <2> QED
      BY <1>11, <2>2 DEF CheckAgain, runVars, lakeVars, Phases
<1> QED
    BY <1>1, <1>4, <1>5, <1>6, <1>7, <1>8, <1>9, <1>10, <1>11

\* Every step keeps the types.
LEMMA ReconcileTypeStep == TypeInv /\ [Next]_vars => TypeInv'
<1>1. ASSUME TypeInv, UNCHANGED vars PROVE TypeInv'
    BY <1>1 DEF vars, TypeInv, TypeOK
<1> QED
    BY <1>1, TypeRunStep, TypeDamage, TypeCheckStep DEF Next, Done

\* Every variable of the check keeps its type, whatever the faults.
THEOREM ReconcileTypeCorrect == Spec => []TypeOK
<1>1. TypeInv => TypeOK
    BY DEF TypeInv
<1> QED
    BY <1>1, ReconcileTypeInit, ReconcileTypeStep, PTL DEF Spec

-----------------------------------------------------------------------------
(* The invariant behind PassIsExact and WatermarkWitness                   *)

Queries    == Phases \ {"load", "settled"}
WindowRead == Queries \ {"window"}
DupsRead   == WindowRead \ {"dups"}
MarkRead   == {"sums", "verdict", "report"}

\* What the collector keeps: one transaction for the rows and the watermark,
\* and only a row whose call failed can still be committed after the run.
Ledger ==
  /\ wm = Cardinality(Committed) + foreign
  /\ Landed \subseteq Committed
  /\ \A s \in Rows : server[s] = "received" => client[s] \in {"waiting", "failed"}
  /\ \A s \in Rows : s >= offered => server[s] = "idle"

\* The manifest counts the acked rows, and no call is open any more.
Closed ==
  phase # "load" => /\ manifest.accepted = Cardinality(Acked)
                    /\ \A s \in Rows : client[s] # "waiting"

\* What an answer still says of the table after later commits.  A count of
\* rows is right unless a row that was not acked has landed since.
Answers ==
  /\ phase \in Queries /\ Landed \subseteq Acked => result.landed = Cardinality(lake)
  /\ phase \in Queries \ MarkRead => result.watermark # "pass"
  /\ phase \in WindowRead => result.inWindow <= Cardinality(lake) + foreign
  /\ phase \in DupsRead /\ result.dups = 0 => Duplicated = {}
  /\ phase \in MarkRead /\ result.watermark = "pass" /\ result.dups = 0 =>
       Committed \subseteq Landed
  /\ phase = "report" /\ result.verdict = "PASS" =>
       result.landed = manifest.accepted /\ result.dups = 0

Sound == Ledger /\ Closed /\ Answers

\* Without duplicates the table has as many rows as sequence numbers.
LEMMA OneRowPerSeq ==
  ASSUME TypeInv, Duplicated = {}
  PROVE  IsFiniteSet(Landed) /\ Cardinality(Landed) = Cardinality(lake)
<1> DEFINE f == [r \in lake |-> r.seq]
<1>1. \A r \in lake : r.seq \in Rows
    BY DEF TypeInv, TypeOK, LakeRow
<1>2. \A q, r \in lake : q.seq = r.seq => q = r
    BY <1>1 DEF Duplicated
<1>3. f \in Bijection(lake, Landed)
    BY <1>2 DEF Landed, Bijection, Injection, Surjection, IsInjective
<1>4. ExistsBijection(lake, Landed)
    BY <1>3 DEF ExistsBijection
<1> QED
    BY <1>4, FS_Bijection DEF TypeInv

\* Nothing is counted before the run.
LEMMA SoundInit == Init => Sound
<1> SUFFICES ASSUME Init PROVE Sound
    OBVIOUS
<1>1. Committed = {} /\ Landed = {}
    BY DEF Init, Committed, Landed
<1>2. Cardinality(Committed) = 0
    BY <1>1, FS_EmptySet
<1>3. Ledger
    BY <1>1, <1>2 DEF Init, Ledger
<1>4. Closed /\ Answers
    BY DEF Init, Closed, Answers, Queries, WindowRead, DupsRead, MarkRead, Phases
<1> QED
    BY <1>3, <1>4 DEF Sound

\* While the generator runs, a call ends and nothing reaches the table.
LEMMA SoundCall ==
  ASSUME TypeInv, Sound,
         \/ Offer
         \/ \E s \in Rows : \/ Ack(s) \/ Reject(s) \/ Unavailable(s)
                            \/ AckLost(s) \/ Late(s)
  PROVE  Sound'
<1> USE DEF TypeInv, TypeOK
<1>1. ASSUME phase = "load", phase' = "load", Committed' = Committed,
             lake' = lake, UNCHANGED <<foreign, wm>>,
             \A s \in Rows : /\ server'[s] = "received" =>
                                  client'[s] \in {"waiting", "failed"}
                             /\ s >= offered' => server'[s] = "idle"
      PROVE  Sound'
  <2>1. Ledger'
      BY <1>1 DEF Sound, Ledger, Landed
  <2>2. Closed' /\ Answers'
      BY <1>1 DEF Closed, Answers, Queries, WindowRead, DupsRead, MarkRead
  <2> QED
      BY <2>1, <2>2 DEF Sound
<1>2. CASE Offer
  <2>1. offered \in Rows
      BY <1>2, BoundAssumption DEF Offer, Rows
  <2>2. server[offered] = "idle"
      BY <2>1 DEF Sound, Ledger
  <2>3. Committed' = Committed
      BY <1>2, <2>1, <2>2 DEF Offer, Committed
  <2>4. \A s \in Rows : /\ server'[s] = "received" =>
                             client'[s] \in {"waiting", "failed"}
                        /\ s >= offered' => server'[s] = "idle"
      BY <1>2, <2>1 DEF Offer, Sound, Ledger
  <2> QED
      BY <1>1, <1>2, <2>3, <2>4 DEF Offer, checkVars
<1>3. ASSUME NEW s \in Rows, NEW from \in {"received", "committed"},
             NEW to \in {"committed", "dropped"}, NEW fate, Reply(s, from, to, fate),
             from = "committed" <=> to = "committed"
      PROVE  Sound'
  <2>1. Committed' = Committed
      BY <1>3 DEF Reply, Committed
  <2>2. \A t \in Rows : /\ server'[t] = "received" =>
                             client'[t] \in {"waiting", "failed"}
                        /\ t >= offered' => server'[t] = "idle"
      BY <1>3 DEF Reply, Sound, Ledger
  <2> QED
      BY <1>1, <1>3, <2>1, <2>2 DEF Reply, checkVars
<1>4. ASSUME NEW s \in Rows, Late(s) PROVE Sound'
  <2>1. Committed' = Committed
      BY <1>4 DEF Late, lakeVars, Committed
  <2>2. \A t \in Rows : /\ server'[t] = "received" =>
                             client'[t] \in {"waiting", "failed"}
                        /\ t >= offered' => server'[t] = "idle"
      BY <1>4 DEF Late, lakeVars, Sound, Ledger
  <2> QED
      BY <1>1, <1>4, <2>1, <2>2 DEF Late, lakeVars, checkVars
<1>5. ASSUME NEW s \in Rows,
             Ack(s) \/ Reject(s) \/ Unavailable(s) \/ AckLost(s)
      PROVE  Sound'
    BY <1>3, <1>5 DEF Ack, Reject, Unavailable, AckLost
<1> QED
    BY <1>2, <1>4, <1>5

\* A commit during the check: it adds one row, of a call that has failed, to
\* the table and to the watermark at once.
LEMMA SoundCommit ==
  ASSUME TypeInv, Sound, NEW s \in Rows, Commit(s)
  PROVE  Sound'
<1> DEFINE x == [seq |-> s, copy |-> 1, body |-> s, other |-> "sent"]
<1> USE DEF TypeInv, TypeOK
<1>1. /\ lake' = lake \cup {x} /\ UNCHANGED <<phase, result, manifest, client>>
      /\ UNCHANGED <<foreign, offered>> /\ wm' = wm + 1
    BY DEF Commit, runVars, checkVars
<1>2. Committed' = Committed \cup {s} /\ s \notin Committed
    BY DEF Commit, Committed
<1>3. IsFiniteSet(Committed) /\ Cardinality(Committed) \in Nat
    BY SomeRows DEF Committed
<1>4. Cardinality(Committed') = Cardinality(Committed) + 1
    BY <1>2, <1>3, FS_AddElement
<1>5. s \notin Landed /\ x.seq = s
    BY <1>2 DEF Sound, Ledger
<1>6. Landed' = Landed \cup {s}
    BY <1>1, <1>5 DEF Landed
<1>7. x \notin lake
    BY <1>5 DEF Landed
<1>8. Cardinality(lake') = Cardinality(lake) + 1 /\ Cardinality(lake) \in Nat
    BY <1>1, <1>7, FS_AddElement, FS_CardinalityType
<1>9. Ledger'
  <2>1. wm' = Cardinality(Committed') + foreign'
      BY <1>1, <1>3, <1>4 DEF Sound, Ledger
  <2>2. Landed' \subseteq Committed'
      BY <1>2, <1>6 DEF Sound, Ledger
  <2>3. \A t \in Rows : /\ server'[t] = "received" =>
                             client'[t] \in {"waiting", "failed"}
                        /\ t >= offered' => server'[t] = "idle"
      BY <1>1 DEF Commit, Sound, Ledger
  <2> QED
      BY <2>1, <2>2, <2>3 DEF Ledger
<1>10. Closed'
  <2>1. Acked' = Acked
      BY <1>1 DEF Acked
  <2> QED
      BY <1>1, <2>1 DEF Sound, Closed
<1>11. Answers'
  <2>1. phase # "load" => s \notin Acked
      BY DEF Commit, Acked, Sound, Ledger
  <2>2. phase' \in Queries => ~(Landed' \subseteq Acked')
      BY <1>1, <1>6, <2>1 DEF Acked, Queries
  <2>3. Duplicated = {} => Duplicated' = {}
    <3>1. \A q, r \in lake' : q # r /\ q.seq = r.seq => q \in lake /\ r \in lake
        BY <1>1, <1>5 DEF Landed
    <3> QED
        BY <3>1 DEF Duplicated
  <2>4. Committed \subseteq Landed => Committed' \subseteq Landed'
      BY <1>2, <1>6
  <2>5. result.inWindow <= Cardinality(lake) + foreign =>
          result'.inWindow <= Cardinality(lake') + foreign'
      BY <1>1, <1>8 DEF ResultType
  <2> QED
      BY <1>1, <2>2, <2>3, <2>4, <2>5 DEF Sound, Answers
<1> QED
    BY <1>9, <1>10, <1>11 DEF Sound

\* Other traffic in the window only makes it larger.
LEMMA SoundForeign == ASSUME TypeInv, Sound, ForeignCommit PROVE Sound'
<1> USE DEF TypeInv, TypeOK
<1>1. /\ foreign' = foreign + 1 /\ wm' = wm + 1
      /\ UNCHANGED <<runVars, server, lake, checkVars>>
    BY DEF ForeignCommit
<1>2. Committed' = Committed /\ Landed' = Landed /\ Acked' = Acked
      /\ Duplicated' = Duplicated
    BY <1>1 DEF Committed, Landed, Acked, Duplicated, runVars
<1>3. Cardinality(Committed) \in Nat /\ Cardinality(lake) \in Nat
    BY SomeRows, FS_CardinalityType DEF Committed
<1>4. Ledger'
    BY <1>1, <1>2, <1>3 DEF Sound, Ledger, runVars
<1>5. Closed'
    BY <1>1, <1>2 DEF Sound, Closed, runVars, checkVars
<1>6. Answers'
  <2>1. result.inWindow <= Cardinality(lake) + foreign =>
          result'.inWindow <= Cardinality(lake') + foreign'
      BY <1>1, <1>3 DEF ResultType, checkVars
  <2> QED
      BY <1>1, <1>2, <2>1 DEF Sound, Answers, runVars, checkVars
<1> QED
    BY <1>4, <1>5, <1>6 DEF Sound

\* Damage happens between two checks, when no answer is in use.
LEMMA SoundDamage ==
  ASSUME TypeInv, Sound,
         \/ \E r \in lake : Lose(r) \/ Duplicate(r) \/ Corrupt(r)
         \/ \E q, r \in lake : Misalign(q, r)
  PROVE  Sound'
<1> USE DEF TypeInv, TypeOK
<1>1. ASSUME NEW fault, NEW L, Damage(fault, L),
             \A r \in L : r.seq \in Landed
      PROVE  Sound'
  <2>1. /\ phase = "settled" /\ lake' = L
        /\ UNCHANGED <<runVars, server, foreign, wm, checkVars>>
      BY <1>1 DEF Damage
  <2>2. Landed' \subseteq Landed /\ Committed' = Committed /\ Acked' = Acked
      BY <1>1, <2>1 DEF Landed, Committed, Acked, runVars
  <2>3. Ledger'
      BY <2>1, <2>2 DEF Sound, Ledger, runVars
  <2>4. Closed'
      BY <2>1, <2>2 DEF Sound, Closed, runVars, checkVars
  <2>5. Answers'
      BY <2>1 DEF Answers, checkVars, Queries, WindowRead, DupsRead, MarkRead
  <2> QED
      BY <2>3, <2>4, <2>5 DEF Sound
<1>2. ASSUME NEW q \in lake, NEW r \in lake
      PROVE  /\ q.seq \in Landed
             /\ [r EXCEPT !.body = Corrupted].seq \in Landed
             /\ [r EXCEPT !.other = "changed"].seq \in Landed
             /\ [q EXCEPT !.body = r.body].seq \in Landed
             /\ [r EXCEPT !.copy = @ + 1].seq \in Landed
  <2>1. q \in LakeRow /\ r \in LakeRow /\ q.seq \in Landed /\ r.seq \in Landed
      BY DEF Landed
  <2> QED
      BY <2>1 DEF LakeRow
<1>3. ASSUME NEW r \in lake, Lose(r) PROVE Sound'
    BY <1>1, <1>2, <1>3 DEF Lose
<1>4. ASSUME NEW r \in lake, Duplicate(r) PROVE Sound'
  <2> DEFINE L == lake \cup {[r EXCEPT !.copy = @ + 1]}
  <2>1. \A q \in L : q.seq \in Landed
      BY <1>2
  <2> QED
      BY <1>1, <1>4, <2>1 DEF Duplicate
<1>5. ASSUME NEW r \in lake, Corrupt(r) PROVE Sound'
  <2>1. PICK x \in {[r EXCEPT !.body = Corrupted], [r EXCEPT !.other = "changed"]} :
          Damage("corrupt", (lake \ {r}) \cup {x})
      BY <1>5 DEF Corrupt
  <2> DEFINE L == (lake \ {r}) \cup {x}
  <2>2. \A q \in L : q.seq \in Landed
      BY <1>2
  <2> QED
      BY <1>1, <2>1, <2>2
<1>6. ASSUME NEW q \in lake, NEW r \in lake, Misalign(q, r) PROVE Sound'
  <2> DEFINE L == (lake \ {q, r}) \cup {[q EXCEPT !.body = r.body],
                                        [r EXCEPT !.body = q.body]}
  <2>1. \A t \in L : t.seq \in Landed
      BY <1>2
  <2> QED
      BY <1>1, <1>6, <2>1 DEF Misalign
<1> QED
    BY <1>3, <1>4, <1>5, <1>6

\* Steps that leave the table and the manifest as they are keep the ledger.
LEMMA KeepLedger ==
  ASSUME Sound, UNCHANGED <<runVars, lakeVars>>, phase # "load"
  PROVE  /\ Ledger' /\ Closed'
         /\ Committed' = Committed /\ Landed' = Landed /\ Acked' = Acked
         /\ Duplicated' = Duplicated /\ lake' = lake /\ foreign' = foreign
<1>1. /\ Committed' = Committed /\ Landed' = Landed /\ Acked' = Acked
      /\ Duplicated' = Duplicated /\ lake' = lake /\ foreign' = foreign
    BY DEF runVars, lakeVars, Committed, Landed, Acked, Duplicated
<1>2. Ledger'
    BY <1>1 DEF Sound, Ledger, runVars, lakeVars
<1>3. Closed'
    BY <1>1 DEF Sound, Closed, runVars
<1> QED
    BY <1>1, <1>2, <1>3

\* The manifest counts the rows whose acks the generator has seen.
LEMMA SoundManifest == ASSUME TypeInv, Sound, WriteManifest PROVE Sound'
<1>1. /\ phase' = "settled" /\ UNCHANGED <<offered, client, lakeVars>>
      /\ manifest'.accepted = Total("acked")
      /\ \A s \in Rows : client[s] # "waiting"
    BY DEF WriteManifest
<1>2. Total("acked") = Cardinality(Acked) /\ Acked' = Acked
    BY <1>1 DEF Total, Acked
<1>3. Ledger'
    BY <1>1 DEF Sound, Ledger, lakeVars, Committed, Landed
<1>4. Closed'
    BY <1>1, <1>2 DEF Closed
<1>5. Answers'
    BY <1>1 DEF Answers, Queries, WindowRead, DupsRead, MarkRead
<1> QED
    BY <1>3, <1>4, <1>5 DEF Sound

\* The queries, the verdict and the second check.
LEMMA SoundQuery ==
  ASSUME TypeInv, Sound,
         \/ CountLanded \/ CountWindow \/ CountDuplicates \/ CountDistinct
         \/ SumWatermark \/ SumColumns \/ Verdict \/ CheckAgain
  PROVE  Sound'
<1> USE DEF TypeInv, TypeOK
<1> DEFINE fields == <<result.landed, result.inWindow, result.dups,
                       result.watermark, result.verdict>>
<1>1. result \in ResultType
    OBVIOUS
<1>2. /\ phase # "load" /\ UNCHANGED <<runVars, lakeVars>>
    BY DEF CountLanded, CountWindow, CountDuplicates, CountDistinct,
           SumWatermark, SumColumns, Verdict, CheckAgain, Query
<1>3. /\ Ledger' /\ Closed'
      /\ Committed' = Committed /\ Landed' = Landed /\ Acked' = Acked
      /\ Duplicated' = Duplicated /\ lake' = lake /\ foreign' = foreign
    BY <1>2, KeepLedger
<1>4. Cardinality(lake) \in Nat /\ manifest' = manifest
    BY <1>2, FS_CardinalityType DEF runVars
<1> USE DEF Answers, Queries, WindowRead, DupsRead, MarkRead, Phases
<1>5. CASE CountLanded
  <2>1. /\ phase' = "window" /\ result'.landed = Cardinality(lake)
        /\ result'.watermark # "pass"
      BY <1>5, BoundAssumption DEF CountLanded, Query, NoResult
  <2> QED
      BY <1>3, <2>1 DEF Sound
<1>6. CASE CountWindow
  <2>1. /\ phase = "window" /\ phase' = "dups"
        /\ result'.inWindow = Cardinality(lake) + foreign
        /\ result'.landed = result.landed
        /\ result'.watermark = result.watermark
      BY <1>1, <1>6 DEF CountWindow, Query, ResultType
  <2> QED
      BY <1>3, <1>4, <2>1 DEF Sound
<1>7. CASE CountDuplicates
  <2>1. /\ phase = "dups" /\ phase' = "distinct"
        /\ result'.dups = Cardinality(Duplicated)
        /\ result'.landed = result.landed /\ result'.inWindow = result.inWindow
        /\ result'.watermark = result.watermark
      BY <1>1, <1>7 DEF CountDuplicates, Query, ResultType
  <2>2. result'.dups = 0 => Duplicated = {}
    <3>1. IsFiniteSet(Duplicated)
        BY SomeRows DEF Duplicated
    <3> QED
        BY <2>1, <3>1, FS_EmptySet
  <2> QED
      BY <1>3, <2>1, <2>2 DEF Sound
<1>8. CASE CountDistinct
  <2>1. /\ phase = "distinct" /\ phase' = "watermark"
        /\ result'.dups = result.dups /\ result'.watermark = result.watermark
        /\ result'.landed = result.landed /\ result'.inWindow = result.inWindow
      BY <1>1, <1>8 DEF CountDistinct, Query, ResultType
  <2> QED
      BY <1>3, <2>1 DEF Sound
<1>9. CASE SumWatermark
  <2>1. /\ phase = "watermark" /\ phase' = "sums"
        /\ result'.dups = result.dups
        /\ result'.landed = result.landed /\ result'.inWindow = result.inWindow
      BY <1>1, <1>9 DEF SumWatermark, Query, ResultType
  <2>2. result'.watermark = "pass" => wm = result.inWindow
      BY <1>1, <1>9 DEF SumWatermark, Query, ResultType, WatermarkAgrees, Sound
  <2>3. ASSUME result'.watermark = "pass", result.dups = 0
        PROVE  Committed \subseteq Landed
    <3>1. wm = Cardinality(Committed) + foreign /\ Landed \subseteq Committed
        BY DEF Sound, Ledger
    <3>2. result.inWindow <= Cardinality(lake) + foreign /\ Duplicated = {}
        BY <2>1, <2>3 DEF Sound
    <3>3. IsFiniteSet(Committed) /\ Cardinality(Committed) \in Nat
        BY SomeRows DEF Committed
    <3>4. Cardinality(Committed) <= Cardinality(lake)
        BY <1>4, <2>2, <2>3, <3>1, <3>2, <3>3
    <3>5. Cardinality(Landed) = Cardinality(lake)
        BY <3>2, OneRowPerSeq
    <3>6. Cardinality(Landed) <= Cardinality(Committed)
          /\ (Cardinality(Committed) = Cardinality(Landed) => Committed = Landed)
        BY <3>1, <3>3, FS_Subset
    <3> QED
        BY <1>4, <3>3, <3>4, <3>5, <3>6
  <2> QED
      BY <1>3, <2>1, <2>3 DEF Sound
<1>10. CASE SumColumns
  <2>1. /\ phase = "sums" /\ phase' = "verdict"
        /\ result'.dups = result.dups /\ result'.watermark = result.watermark
        /\ result'.landed = result.landed /\ result'.inWindow = result.inWindow
      BY <1>1, <1>10 DEF SumColumns, ResultType
  <2> QED
      BY <1>3, <2>1 DEF Sound
<1>11. CASE Verdict
  <2>1. /\ phase = "verdict" /\ phase' = "report"
        /\ result'.dups = result.dups /\ result'.watermark = result.watermark
        /\ result'.landed = result.landed /\ result'.inWindow = result.inWindow
        /\ result'.verdict = "PASS" => ~Hard
      BY <1>1, <1>11 DEF Verdict, Query, ResultType
  <2>2. manifest.accepted \in Nat /\ result.landed \in Nat
      BY <1>1, <2>1 DEF ManifestType, ResultType
  <2>3. ~Hard => result.landed = manifest.accepted /\ result.dups = 0
      BY <2>2 DEF Hard
  <2> QED
      BY <1>3, <1>4, <2>1, <2>3 DEF Sound
<1>12. CASE CheckAgain
    BY <1>3, <1>12 DEF CheckAgain, Sound
<1> QED
    BY <1>5, <1>6, <1>7, <1>8, <1>9, <1>10, <1>11, <1>12

\* Every step keeps what the answers of the queries are worth.
LEMMA SoundStep == TypeInv /\ Sound /\ [Next]_vars => Sound'
<1>1. ASSUME Sound, UNCHANGED vars PROVE Sound'
    BY <1>1 DEF vars, Sound, Ledger, Closed, Answers, Committed, Landed, Acked,
                Duplicated
<1> QED
    BY <1>1, SoundCall, SoundCommit, SoundForeign, SoundDamage, SoundManifest,
       SoundQuery DEF Next, Done

\* The inductive invariant holds in every state.
LEMMA SoundAlways == Spec => [](TypeInv /\ Sound)
BY ReconcileTypeInit, ReconcileTypeStep, SoundInit, SoundStep, PTL DEF Spec

\* VERDICT PASS is exact when no un-acked row landed: equal counts and no
\* duplicate key make the table the acked rows, each once, although the two
\* were counted at different moments.
THEOREM PassMeansExact == Spec => []PassIsExact
<1>1. TypeInv /\ Sound => PassIsExact
  <2> SUFFICES ASSUME TypeInv, Sound, phase = "report",
                      result.verdict = "PASS", Landed \subseteq Acked
               PROVE  Landed = Acked /\ Duplicated = {}
      BY DEF PassIsExact
  <2>1. /\ result.landed = Cardinality(lake) /\ result.dups = 0
        /\ result.landed = manifest.accepted /\ Duplicated = {}
      BY DEF Sound, Answers, Queries, WindowRead, DupsRead, Phases
  <2>2. manifest.accepted = Cardinality(Acked)
      BY DEF Sound, Closed
  <2>3. Cardinality(Landed) = Cardinality(lake)
      BY <2>1, OneRowPerSeq
  <2>4. IsFiniteSet(Acked)
      BY SomeRows DEF Acked
  <2> QED
      BY <2>1, <2>2, <2>3, <2>4, FS_Subset
<1> QED
    BY <1>1, SoundAlways, PTL

\* A watermark that agrees with the window proves that no committed row has
\* left the table, with any traffic and any late commit during the check.
THEOREM WatermarkIsWitness == Spec => []WatermarkWitness
<1>1. Sound => WatermarkWitness
    BY DEF Sound, Answers, MarkRead, WatermarkWitness
<1> QED
    BY <1>1, SoundAlways, PTL

-----------------------------------------------------------------------------
(* Completeness: CleanRunPasses, and what the checksums catch              *)

\* Checksums, of any table.
SumsOf(L) ==
  [seq  |-> [s \in Rows |-> Cardinality({r \in L : r.seq = s})],
   body |-> [b \in Bodies |-> Cardinality({r \in L : r.body = b})]]

SeqsOf(L) == {r.seq : r \in L}

\* L is the table the checksums on file were taken of: what the table has
\* gained since are rows that were not acked, with numbers L does not have.
Taken(L) ==
  /\ L \subseteq lake /\ result.sums = SumsOf(L)
  /\ Landed \subseteq Acked => L = lake
  /\ Landed = SeqsOf(L) => L = lake

Judged == {"verdict", "report"}

\* Whose checksums the result and the baseline hold.
Summed ==
  /\ IsFiniteSet(before)
  /\ phase \in Queries \ Judged => result.sums = None
  /\ phase \in Judged /\ result.sums # None => \E L \in SUBSET lake : Taken(L)
  /\ phase \in Judged /\ baseline = None /\ result.sums # None => result.sums = SumsOf(before)
  /\ baseline # None => (baseline.sums # None => baseline.sums = SumsOf(before))
  /\ phase = "report" /\ result.verdict = "PASS" /\ baseline # None =>
       baseline.sums = result.sums

\* What the manifest says of the range.
Ranged ==
  /\ \A s \in Rows : s >= offered => client[s] = "unsent"
  /\ phase # "load" => /\ manifest.offered = offered /\ manifest.seq_min = 0
                       /\ ~lastEmpty => manifest.seq_max = offered - 1

Unharmed == Landed = Acked /\ Duplicated = {}
SameAsBefore == baseline # None => before = lake /\ None \notin {baseline.sums, result.sums}

\* What each query has answered about a run that lost and doubled nothing.
Clean ==
  /\ phase \in DupsRead /\ Unharmed => result.dups = 0
  /\ phase \in DupsRead \ {"distinct"} /\ Unharmed /\ ~lastEmpty => result.unaccounted = 0
  /\ phase = "report" /\ Unharmed /\ ~lastEmpty /\ SameAsBefore => result.verdict = "PASS"

Complete == Summed /\ Ranged /\ Clean

LEMMA CompleteInit == Init => Complete
<1> SUFFICES ASSUME Init PROVE Complete
    OBVIOUS
<1>1. phase = "load" /\ baseline = None /\ before = {}
    BY DEF Init
<1>2. Summed
    BY <1>1, FS_EmptySet DEF Summed, Queries, Judged, Phases
<1>3. Ranged
    BY <1>1 DEF Init, Ranged
<1>4. Clean
    BY <1>1 DEF Clean, DupsRead, WindowRead, Queries, Phases
<1> QED
    BY <1>2, <1>3, <1>4 DEF Complete

\* While the generator runs only the range matters.
LEMMA CompleteCall ==
  ASSUME TypeInv, Complete,
         \/ Offer
         \/ \E s \in Rows : \/ Ack(s) \/ Reject(s) \/ Unavailable(s)
                            \/ AckLost(s) \/ Late(s)
  PROVE  Complete'
<1>1. phase = "load" /\ phase' = "load" /\ baseline' = baseline /\ before' = before
    BY DEF Offer, Ack, Reject, Unavailable, AckLost, Late, Reply, checkVars
<1>2. Summed'
    BY <1>1 DEF Complete, Summed, Queries, Judged, Phases
<1>3. Clean'
    BY <1>1 DEF Clean, DupsRead, WindowRead, Queries, Phases
<1>4. \A s \in Rows : s >= offered' => client'[s] = "unsent"
  <2>1. CASE Offer
      BY <2>1, BoundAssumption DEF Offer, Complete, Ranged, TypeInv, TypeOK, Rows
  <2>2. CASE ~Offer
    <3>1. offered' = offered
        BY <2>2 DEF Ack, Reject, Unavailable, AckLost, Late, Reply
    <3>2. PICK s \in Rows : client[s] = "waiting" /\ \E x : client' = [client EXCEPT ![s] = x]
        BY <2>2 DEF Ack, Reject, Unavailable, AckLost, Late, Reply
    <3> QED
        BY <3>1, <3>2 DEF Complete, Ranged, TypeInv, TypeOK
  <2> QED
      BY <2>1, <2>2
<1>5. Ranged'
    BY <1>1, <1>4 DEF Ranged
<1> QED
    BY <1>2, <1>3, <1>5 DEF Complete

\* A row that lands during the check was not acked, and its number is new.
LEMMA CompleteCommit ==
  ASSUME TypeInv, Sound, Complete, NEW s \in Rows, Commit(s)
  PROVE  Complete'
<1> DEFINE x == [seq |-> s, copy |-> 1, body |-> s, other |-> "sent"]
<1>1. /\ lake' = lake \cup {x} /\ UNCHANGED <<phase, result, manifest, client>>
      /\ UNCHANGED <<offered, lastEmpty, baseline, before>>
    BY DEF Commit, runVars, checkVars
<1>2. s \notin Landed
    BY DEF Commit, Sound, Ledger, Committed
<1>3. Landed' = Landed \cup {s} /\ Acked' = Acked
  <2>1. x.seq = s
      OBVIOUS
  <2>2. Landed' = Landed \cup {x.seq}
    <3> HIDE DEF x
    <3> QED
        BY <1>1 DEF Landed
  <2> QED
      BY <1>1, <2>1, <2>2 DEF Acked
<1>4. phase # "load" => s \notin Acked
    BY DEF Commit, Acked, Sound, Ledger, Closed
<1>5. phase # "load" => ~(Landed' \subseteq Acked')
    BY <1>3, <1>4
<1>6. ASSUME NEW L \in SUBSET lake, Taken(L), phase # "load" PROVE Taken(L)'
  <2>1. L \subseteq lake' /\ result'.sums = SumsOf(L)
      BY <1>1, <1>6 DEF Taken
  <2>2. SeqsOf(L) \subseteq Landed
      BY DEF SeqsOf, Landed
  <2>3. Landed' # SeqsOf(L)
      BY <1>2, <1>3, <2>2
  <2>4. SumsOf(L)' = SumsOf(L) /\ SeqsOf(L)' = SeqsOf(L)
      BY DEF SumsOf, SeqsOf
  <2> QED
      BY <1>5, <1>6, <2>1, <2>3, <2>4 DEF Taken
<1>7. Summed'
  <2>1. ASSUME phase' \in Judged, result'.sums # None
        PROVE  \E L \in SUBSET lake' : Taken(L)'
    <3>1. phase \in Judged /\ result.sums # None /\ phase # "load"
        BY <1>1, <2>1 DEF Judged
    <3>2. PICK L \in SUBSET lake : Taken(L)
        BY <3>1 DEF Complete, Summed
    <3>3. Taken(L)' /\ L \in SUBSET lake'
        BY <1>1, <1>6, <3>1, <3>2
    <3> QED
        BY <3>3
  <2> QED
      BY <1>1, <2>1 DEF Complete, Summed, SumsOf
<1>8. Ranged'
    BY <1>1 DEF Complete, Ranged
<1>9. Clean'
    BY <1>1, <1>5 DEF Clean, Unharmed, DupsRead, WindowRead, Queries, Phases
<1> QED
    BY <1>7, <1>8, <1>9 DEF Complete

\* Other traffic, damage between two checks, and the manifest.
LEMMA CompleteBetween ==
  ASSUME TypeInv, Sound, Complete,
         \/ ForeignCommit \/ WriteManifest
         \/ \E r \in lake : Lose(r) \/ Duplicate(r) \/ Corrupt(r)
         \/ \E q, r \in lake : Misalign(q, r)
  PROVE  Complete'
<1>1. CASE ForeignCommit
  <2>1. /\ UNCHANGED <<lake, phase, result, manifest, client>>
        /\ UNCHANGED <<offered, lastEmpty, baseline, before>>
      BY <1>1 DEF ForeignCommit, runVars, checkVars
  <2>2. ASSUME NEW L \in SUBSET lake, Taken(L) PROVE Taken(L)'
    <3>1. SumsOf(L)' = SumsOf(L) /\ SeqsOf(L)' = SeqsOf(L)
        BY DEF SumsOf, SeqsOf
    <3>2. Landed' = Landed /\ Acked' = Acked
        BY <2>1 DEF Landed, Acked
    <3> QED
        BY <2>1, <2>2, <3>1, <3>2 DEF Taken
  <2>3. Summed'
    <3>1. SumsOf(before)' = SumsOf(before)
        BY <2>1 DEF SumsOf
    <3> QED
        BY <2>1, <2>2, <3>1 DEF Complete, Summed
  <2>4. Ranged'
      BY <2>1 DEF Complete, Ranged
  <2>5. Clean'
      BY <2>1 DEF Complete, Clean, Landed, Acked, Unharmed, Duplicated, SameAsBefore
  <2> QED
      BY <2>3, <2>4, <2>5 DEF Complete
<1>2. CASE WriteManifest
  <2>1. /\ phase' = "settled" /\ UNCHANGED <<offered, client, baseline, before>>
        /\ manifest'.offered = offered /\ manifest'.seq_min = 0
        /\ ~lastEmpty' => manifest'.seq_max = offered - 1
      BY <1>2 DEF WriteManifest
  <2>2. Summed' /\ Clean'
      BY <2>1 DEF Complete, Summed, SumsOf, Clean, DupsRead, WindowRead, Queries, Judged, Phases
  <2>3. Ranged'
      BY <2>1 DEF Complete, Ranged
  <2> QED
      BY <2>2, <2>3 DEF Complete
<1>3. CASE \/ \E r \in lake : Lose(r) \/ Duplicate(r) \/ Corrupt(r)
           \/ \E q, r \in lake : Misalign(q, r)
  <2>1. /\ phase = "settled" /\ phase' = "settled"
        /\ UNCHANGED <<offered, client, manifest, lastEmpty, baseline, before>>
      BY <1>3 DEF Lose, Duplicate, Corrupt, Misalign, Damage, runVars, checkVars
  <2>2. Summed' /\ Clean'
      BY <2>1 DEF Complete, Summed, SumsOf, Clean, DupsRead, WindowRead, Queries, Judged, Phases
  <2>3. Ranged'
      BY <2>1 DEF Complete, Ranged
  <2> QED
      BY <2>2, <2>3 DEF Complete
<1> QED
    BY <1>1, <1>2, <1>3

\* The un-acked budget of a run that lost nothing covers what is missing.
LEMMA NothingUnaccounted ==
  ASSUME TypeInv, Sound, Complete, phase # "load", Landed = Acked, ~lastEmpty
  PROVE  Unaccounted = 0
<1>1. manifest.accepted = Cardinality(Acked) /\ manifest.offered = offered
      /\ manifest.seq_min = 0 /\ manifest.seq_max = offered - 1
    BY DEF Sound, Closed, Complete, Ranged
<1>2. offered \in Nat
    BY BoundAssumption DEF TypeInv, TypeOK
<1>3. Acked \subseteq 0 .. offered - 1
    BY <1>2, BoundAssumption DEF Acked, Complete, Ranged, Rows
<1>4. IsFiniteSet(0 .. offered - 1) /\ Cardinality(0 .. offered - 1) = offered
    BY <1>2, FS_Interval
<1>5. Cardinality(Acked) <= offered /\ Cardinality(Acked) \in Nat
    BY <1>3, <1>4, FS_Subset, FS_CardinalityType
<1> QED
    BY <1>1, <1>2, <1>5 DEF Unaccounted, Excess

\* The queries fill in a field each and leave the table alone.
LEMMA CompleteQuery ==
  ASSUME TypeInv, Sound, Complete,
         \/ CountLanded \/ CountWindow \/ CountDuplicates \/ CountDistinct \/ SumWatermark
  PROVE  Complete'
<1>1. result \in ResultType
    BY DEF TypeInv, TypeOK
<1>2. /\ phase # "load" /\ UNCHANGED <<offered, client, manifest, lastEmpty, baseline, before>>
      /\ UNCHANGED lake
    BY DEF CountLanded, CountWindow, CountDuplicates, CountDistinct, SumWatermark, Query,
           runVars, lakeVars
<1>3. Unharmed' = Unharmed
    BY <1>2 DEF Unharmed, Landed, Acked, Duplicated
<1>4. /\ phase \in (Queries \ Judged) \cup {"settled"} /\ phase' \in Queries \ Judged
      /\ result'.sums = IF phase = "settled" THEN None ELSE result.sums
  <2> USE DEF Query, ResultType, Queries, Judged, Phases
  <2>1. CASE CountLanded
    <3>1. result' = [NoResult EXCEPT !.landed = Cardinality(lake)]
        BY <2>1 DEF CountLanded
    <3>2. result'.sums = None
        BY <3>1 DEF NoResult
    <3>3. phase = "settled" /\ phase' = "window"
        BY <2>1 DEF CountLanded
    <3> QED
        BY <3>2, <3>3
  <2>2. CASE CountWindow \/ CountDuplicates \/ CountDistinct
      BY <1>1, <2>2 DEF CountWindow, CountDuplicates, CountDistinct
  <2>3. CASE SumWatermark
      BY <1>1, <2>3 DEF SumWatermark
  <2> QED
      BY <2>1, <2>2, <2>3
<1>5. Ranged'
    BY <1>2, <1>4 DEF Complete, Ranged, Queries, Phases
<1>6. Summed'
    BY <1>2, <1>4 DEF Complete, Summed, SumsOf, Judged, Queries, Phases
<1>7. phase' # "report"
    BY <1>4 DEF Judged
<1>8. CASE CountLanded \/ CountWindow
  <2>1. phase' \notin DupsRead
      BY <1>8 DEF CountLanded, CountWindow, Query, DupsRead, WindowRead
  <2> QED
      BY <1>5, <1>6, <1>7, <2>1 DEF Complete, Clean
<1>9. CASE CountDuplicates
  <2>1. phase' = "distinct" /\ result'.dups = Cardinality(Duplicated)
      BY <1>1, <1>9 DEF CountDuplicates, Query, ResultType
  <2>2. Unharmed => result'.dups = 0
      BY <2>1, FS_EmptySet DEF Unharmed
  <2> QED
      BY <1>3, <1>5, <1>6, <1>7, <2>1, <2>2 DEF Complete, Clean
<1>10. CASE CountDistinct
  <2>1. phase = "distinct" /\ result'.dups = result.dups /\ result'.unaccounted = Unaccounted
      BY <1>1, <1>10 DEF CountDistinct, Query, ResultType
  <2>2. Unharmed => result.dups = 0
      BY <2>1 DEF Complete, Clean, DupsRead, WindowRead, Queries, Phases
  <2>3. Unharmed /\ ~lastEmpty => result'.unaccounted = 0
      BY <1>2, <2>1, NothingUnaccounted DEF Unharmed
  <2> QED
      BY <1>2, <1>3, <1>5, <1>6, <1>7, <2>1, <2>2, <2>3 DEF Complete, Clean
<1>11. CASE SumWatermark
  <2>1. phase = "watermark" /\ result'.dups = result.dups
        /\ result'.unaccounted = result.unaccounted
      BY <1>1, <1>11 DEF SumWatermark, Query, ResultType
  <2>2. phase \in DupsRead \ {"distinct"}
      BY <2>1 DEF DupsRead, WindowRead, Queries, Phases
  <2> QED
      BY <1>2, <1>3, <1>5, <1>6, <1>7, <2>1, <2>2 DEF Complete, Clean
<1> QED
    BY <1>8, <1>9, <1>10, <1>11

\* The checksums are of the table as it is, or were not taken.
LEMMA CompleteSums ==
  ASSUME TypeInv, Sound, Complete, SumColumns
  PROVE  Complete'
<1>1. result \in ResultType /\ IsFiniteSet(lake)
    BY DEF TypeInv, TypeOK
<1>2. /\ phase = "sums" /\ phase' = "verdict"
      /\ UNCHANGED <<offered, client, manifest, lastEmpty, baseline, lake>>
      /\ before' = IF baseline = None THEN lake ELSE before
    BY DEF SumColumns, runVars, lakeVars
<1>3. result.sums = None
    BY <1>2 DEF Complete, Summed, Queries, Judged, Phases
<1>4. /\ result'.dups = result.dups /\ result'.unaccounted = result.unaccounted
      /\ result'.sums = Checksums \/ result'.sums = None
    BY <1>1, <1>3 DEF SumColumns, ResultType
<1>5. Checksums = SumsOf(lake)
    BY DEF Checksums, SumsOf
<1>6. Ranged'
    BY <1>2 DEF Complete, Ranged
<1>7. Clean'
  <2>1. Unharmed' = Unharmed
      BY <1>2 DEF Unharmed, Landed, Acked, Duplicated
  <2>2. phase \in DupsRead \ {"distinct"}
      BY <1>2 DEF DupsRead, WindowRead, Queries, Phases
  <2> QED
      BY <1>2, <1>4, <2>1, <2>2 DEF Complete, Clean
<1>8. Summed'
  <2>1. IsFiniteSet(before')
      BY <1>1, <1>2 DEF Complete, Summed
  <2>2. ASSUME result'.sums # None PROVE Taken(lake)'
    <3>1. result'.sums = SumsOf(lake)'
        BY <1>2, <1>4, <1>5, <2>2 DEF SumsOf
    <3> QED
        BY <3>1 DEF Taken
  <2>3. result'.sums # None => \E L \in SUBSET lake' : Taken(L)'
      BY <1>2, <2>2
  <2>4. baseline' = None /\ result'.sums # None => result'.sums = SumsOf(before)'
      BY <1>2, <1>4, <1>5 DEF SumsOf
  <2>5. baseline' # None => (baseline'.sums # None => baseline'.sums = SumsOf(before)')
      BY <1>2 DEF Complete, Summed, SumsOf
  <2> QED
      BY <1>2, <2>1, <2>3, <2>4, <2>5 DEF Summed, Queries, Judged, Phases
<1> QED
    BY <1>6, <1>7, <1>8 DEF Complete

\* A clean run leaves the verdict nothing to object to.
LEMMA CleanVerdict ==
  ASSUME TypeInv, Sound, Complete, phase = "verdict", Unharmed, ~lastEmpty, SameAsBefore
  PROVE  ~(Hard \/ Differing)
<1>1. Landed \subseteq Acked /\ phase \in Queries /\ phase \in DupsRead \ {"distinct"}
    BY DEF Unharmed, DupsRead, WindowRead, Queries, Phases
<1>2. result.landed = Cardinality(lake)
    BY <1>1 DEF Sound, Answers
<1>3. Cardinality(lake) = Cardinality(Acked)
    BY OneRowPerSeq DEF Unharmed
<1>4. manifest.accepted = Cardinality(Acked) /\ Cardinality(Acked) \in Nat
    BY SomeRows DEF Sound, Closed, Acked
<1>5. result.dups = 0 /\ result.unaccounted = 0
    BY <1>1 DEF Complete, Clean
<1>6. ~Hard
    BY <1>2, <1>3, <1>4, <1>5 DEF Hard
<1>7. ASSUME baseline # None PROVE baseline.sums = result.sums
  <2>1. before = lake /\ baseline.sums # None /\ result.sums # None
      BY <1>7 DEF SameAsBefore
  <2>2. baseline.sums = SumsOf(lake)
      BY <1>7, <2>1 DEF Complete, Summed
  <2>3. PICK L \in SUBSET lake : Taken(L)
      BY <2>1 DEF Complete, Summed, Judged
  <2> QED
      BY <1>1, <2>2, <2>3 DEF Taken
<1> QED
    BY <1>6, <1>7 DEF Differing

LEMMA CompleteVerdict ==
  ASSUME TypeInv, Sound, Complete, Verdict
  PROVE  Complete'
<1>1. result \in ResultType
    BY DEF TypeInv, TypeOK
<1>2. /\ phase = "verdict" /\ phase' = "report"
      /\ UNCHANGED <<offered, client, manifest, lastEmpty, baseline, before, lake>>
    BY DEF Verdict, Query, runVars, lakeVars
<1>3. /\ result'.dups = result.dups /\ result'.unaccounted = result.unaccounted
      /\ result'.sums = result.sums
      /\ result'.verdict = IF Hard \/ Differing THEN "FAIL" ELSE "PASS"
    BY <1>1 DEF Verdict, Query, ResultType
<1>4. Ranged'
    BY <1>2 DEF Complete, Ranged
<1>5. Unharmed' = Unharmed /\ Landed' = Landed /\ Acked' = Acked
    BY <1>2 DEF Unharmed, Landed, Acked, Duplicated
<1>6. Clean'
  <2>1. SameAsBefore' = SameAsBefore
      BY <1>2, <1>3 DEF SameAsBefore
  <2>2. phase \in DupsRead \ {"distinct"}
      BY <1>2 DEF DupsRead, WindowRead, Queries, Phases
  <2>3. Unharmed /\ ~lastEmpty /\ SameAsBefore => result'.verdict = "PASS"
      BY <1>2, <1>3, CleanVerdict
  <2> QED
      BY <1>2, <1>3, <1>5, <2>1, <2>2, <2>3 DEF Complete, Clean
<1>7. Summed'
  <2>1. ASSUME result'.sums # None PROVE \E L \in SUBSET lake' : Taken(L)'
    <3>1. PICK L \in SUBSET lake : Taken(L)
        BY <1>2, <1>3, <2>1 DEF Complete, Summed, Judged
    <3>2. Taken(L)'
        BY <1>2, <1>3, <1>5, <3>1 DEF Taken, SumsOf, SeqsOf
    <3> QED
        BY <1>2, <3>2
  <2>2. result'.verdict = "PASS" /\ baseline' # None => baseline'.sums = result'.sums
      BY <1>2, <1>3 DEF Differing
  <2>3. baseline' = None /\ result'.sums # None => result'.sums = SumsOf(before)'
      BY <1>2, <1>3 DEF Complete, Summed, SumsOf, Judged
  <2>4. baseline' # None => (baseline'.sums # None => baseline'.sums = SumsOf(before)')
      BY <1>2 DEF Complete, Summed, SumsOf
  <2>5. IsFiniteSet(before')
      BY <1>2 DEF Complete, Summed
  <2> QED
      BY <1>2, <2>1, <2>2, <2>3, <2>4, <2>5 DEF Summed, Judged
<1> QED
    BY <1>4, <1>6, <1>7 DEF Complete

\* The second check takes the checksums of the first as its baseline.
LEMMA CompleteAgain ==
  ASSUME TypeInv, Sound, Complete, CheckAgain
  PROVE  Complete'
<1>1. /\ phase = "report" /\ phase' = "settled" /\ baseline = None
      /\ baseline' = [sums |-> result.sums]
      /\ UNCHANGED <<offered, client, manifest, lastEmpty, before>>
    BY DEF CheckAgain, runVars
<1>2. Ranged'
    BY <1>1 DEF Complete, Ranged
<1>3. Clean'
    BY <1>1 DEF Clean, DupsRead, WindowRead, Queries, Phases
<1>4. Summed'
  <2>1. "settled" \notin Queries /\ "settled" \notin Judged /\ "report" \in Judged
      BY DEF Judged, Queries
  <2>2. SumsOf(before)' = SumsOf(before)
      BY <1>1 DEF SumsOf
  <2> QED
      BY <1>1, <2>1, <2>2 DEF Complete, Summed
<1> QED
    BY <1>2, <1>3, <1>4 DEF Complete

LEMMA CompleteStep == TypeInv /\ Sound /\ Complete /\ [Next]_vars => Complete'
<1>1. ASSUME Complete, UNCHANGED vars PROVE Complete'
  <2>1. /\ UNCHANGED <<lake, phase, result, manifest, client>>
        /\ UNCHANGED <<offered, lastEmpty, baseline, before>>
      BY <1>1 DEF vars, runVars, lakeVars, checkVars
  <2>2. /\ Landed' = Landed /\ Acked' = Acked /\ Duplicated' = Duplicated
        /\ SumsOf(before)' = SumsOf(before)
      BY <2>1 DEF Landed, Acked, Duplicated, SumsOf
  <2>3. ASSUME NEW L \in SUBSET lake, Taken(L) PROVE Taken(L)'
    <3>1. SumsOf(L)' = SumsOf(L) /\ SeqsOf(L)' = SeqsOf(L)
        BY DEF SumsOf, SeqsOf
    <3> QED
        BY <2>1, <2>2, <2>3, <3>1 DEF Taken
  <2>4. Summed'
      BY <1>1, <2>1, <2>2, <2>3 DEF Complete, Summed
  <2>5. Ranged' /\ Clean'
      BY <1>1, <2>1, <2>2 DEF Complete, Ranged, Clean, Unharmed, SameAsBefore
  <2> QED
      BY <2>4, <2>5 DEF Complete
<1> QED
    BY <1>1, CompleteCall, CompleteCommit, CompleteBetween, CompleteQuery, CompleteSums,
       CompleteVerdict, CompleteAgain DEF Next, Done

LEMMA CompleteAlways == Spec => [](TypeInv /\ Sound /\ Complete)
BY SoundAlways, CompleteInit, CompleteStep, PTL DEF Spec

\* A run that lost and doubled nothing passes the check, with any traffic in
\* its window and after any number of rejected or failed calls.
THEOREM CleanRunsPass == Spec => []CleanRunPasses
<1>1. Complete => CleanRunPasses
    BY DEF Complete, Clean, Unharmed, SameAsBefore, CleanRunPasses
<1> QED
    BY <1>1, CompleteAlways, PTL

\* A row of the table is known by its number and its copy.
Keyed(L) == \A q, r \in L : q.seq = r.seq /\ q.copy = r.copy => q = r
Keys     == Keyed(lake) /\ Keyed(before)

\* A row that takes the place of another with the same key keeps the keys.
LEMMA KeyedInstead ==
  ASSUME NEW L, Keyed(L), NEW r \in L, NEW x, x.seq = r.seq, x.copy = r.copy
  PROVE  Keyed((L \ {r}) \cup {x})
BY DEF Keyed

\* Commits add a number the table does not have, and damage keeps the keys.
LEMMA KeysStep ==
  ASSUME TypeInv, Sound, Keys, [Next]_vars
  PROVE  Keys'
<1> USE DEF Keys
<1>1. CASE UNCHANGED <<lake, before>>
    BY <1>1 DEF Keyed
<1>2. ASSUME NEW s \in Rows, Commit(s) PROVE Keys'
  <2> DEFINE x == [seq |-> s, copy |-> 1, body |-> s, other |-> "sent"]
  <2>1. lake' = lake \cup {x} /\ before' = before
      BY <1>2 DEF Commit, checkVars
  <2>2. s \notin Landed /\ x.seq = s
      BY <1>2 DEF Commit, Sound, Ledger, Committed
  <2>3. \A q \in lake : q.seq # x.seq
      BY <2>2 DEF Landed
  <2> HIDE DEF x
  <2> QED
      BY <2>1, <2>3 DEF Keyed
<1>3. ASSUME NEW fault, NEW L, Keyed(L), Damage(fault, L) PROVE Keys'
    BY <1>3 DEF Damage, checkVars, Keyed
<1>4. \A r \in lake : r \in LakeRow
    BY DEF TypeInv, TypeOK
<1>5. ASSUME NEW r \in lake, Lose(r) PROVE Keys'
  <2>1. Keyed(lake \ {r})
      BY DEF Keyed
  <2> QED
      BY <1>3, <1>5, <2>1 DEF Lose
<1>6. ASSUME NEW r \in lake, Duplicate(r) PROVE Keys'
  <2> DEFINE x == [r EXCEPT !.copy = @ + 1]
  <2>1. x.seq = r.seq /\ x.copy = r.copy + 1
      BY <1>4 DEF LakeRow
  <2>2. \A q \in lake : ~(q.seq = x.seq /\ q.copy = x.copy)
      BY <1>4, <1>6, <2>1 DEF Duplicate, LakeRow
  <2> HIDE DEF x
  <2>3. Keyed(lake \cup {x})
      BY <2>2 DEF Keyed
  <2> QED
      BY <1>3, <1>6, <2>3 DEF Duplicate, x
<1>7. ASSUME NEW r \in lake, Corrupt(r) PROVE Keys'
  <2>1. PICK x \in {[r EXCEPT !.body = Corrupted], [r EXCEPT !.other = "changed"]} :
          Damage("corrupt", (lake \ {r}) \cup {x})
      BY <1>7 DEF Corrupt
  <2>2. x.seq = r.seq /\ x.copy = r.copy
      BY <1>4 DEF LakeRow
  <2> QED
      BY <1>3, <2>1, <2>2, KeyedInstead
<1>8. ASSUME NEW q \in lake, NEW r \in lake, Misalign(q, r) PROVE Keys'
  <2> DEFINE x == [q EXCEPT !.body = r.body]
             y == [r EXCEPT !.body = q.body]
             K == (lake \ {q}) \cup {x}
             L == (lake \ {q, r}) \cup {x, y}
  <2>1. /\ x.seq = q.seq /\ x.copy = q.copy /\ x.body = r.body
        /\ y.seq = r.seq /\ y.copy = r.copy
        /\ q # r /\ q.body # r.body
      BY <1>4, <1>8 DEF LakeRow, Misalign
  <2>2. x # r
      BY <2>1 DEF Keyed
  <2> HIDE DEF x, y
  <2>3. Keyed(K) /\ r \in K
      BY <2>1, KeyedInstead
  <2>4. Keyed((K \ {r}) \cup {y})
      BY <2>1, <2>3, KeyedInstead
  <2>5. (K \ {r}) \cup {y} = L
      BY <2>2
  <2> QED
      BY <1>3, <1>8, <2>4, <2>5 DEF Misalign, x, y
<1>9. CASE SumColumns
    BY <1>9 DEF SumColumns, lakeVars, Keyed
<1>10. CASE \/ Offer \/ WriteManifest \/ ForeignCommit
            \/ \E s \in Rows : \/ Ack(s) \/ Reject(s) \/ Unavailable(s)
                               \/ AckLost(s) \/ Late(s)
    BY <1>1, <1>10 DEF Offer, WriteManifest, ForeignCommit, Ack, Reject, Unavailable,
       AckLost, Late, Reply, lakeVars, checkVars
<1>11. CASE \/ CountLanded \/ CountWindow \/ CountDuplicates \/ CountDistinct
            \/ SumWatermark \/ Verdict
    BY <1>1, <1>11 DEF CountLanded, CountWindow, CountDuplicates, CountDistinct,
       SumWatermark, Verdict, Query, lakeVars
<1>12. CASE CheckAgain \/ UNCHANGED vars
    BY <1>1, <1>12 DEF CheckAgain, vars, lakeVars
<1> QED
    BY <1>2, <1>5, <1>6, <1>7, <1>8, <1>9, <1>10, <1>11, <1>12 DEF Next, Done

LEMMA KeysAlways == Spec => [](TypeInv /\ Sound /\ Complete /\ Keys)
<1>1. Init => Keys
    BY DEF Init, Keys, Keyed
<1> QED
    BY <1>1, KeysStep, CompleteAlways, PTL DEF Spec

\* The columns that are summed, of one row.
Part(r) == [seq |-> r.seq, copy |-> r.copy, body |-> r.body]

\* Tables with the same compared columns have the same sums and numbers.
LEMMA ComparedTellsAll ==
  ASSUME NEW K \in SUBSET LakeRow, NEW L \in SUBSET LakeRow,
         IsFiniteSet(K), IsFiniteSet(L), Keyed(K), Keyed(L), Compared(K) = Compared(L)
  PROVE  SumsOf(K) = SumsOf(L) /\ SeqsOf(K) = SeqsOf(L)
<1>1. \A r : /\ Part(r).seq = r.seq /\ Part(r).copy = r.copy
            /\ Part(r).body = r.body
    BY DEF Part
<1>2. {Part(r) : r \in K} = {Part(r) : r \in L}
    BY DEF Compared, Part
<1>3. /\ \A k \in K : \E l \in L : Part(l) = Part(k)
      /\ \A l \in L : \E k \in K : Part(k) = Part(l)
  <2>1. \A k \in K : Part(k) \in {Part(r) : r \in L}
      BY <1>2
  <2>2. \A l \in L : Part(l) \in {Part(r) : r \in K}
      BY <1>2
  <2> QED
      BY <2>1, <2>2
<1>4. SeqsOf(K) = SeqsOf(L)
    BY <1>1, <1>3 DEF SeqsOf
<1>5. ASSUME NEW A \in SUBSET K, NEW B \in SUBSET L,
             \A k \in A : \E l \in B : Part(l) = Part(k),
             \A l \in B : \E k \in A : Part(k) = Part(l)
      PROVE  Cardinality(A) = Cardinality(B)
  <2> DEFINE f == [k \in A |-> CHOOSE l \in B : Part(l) = Part(k)]
  <2>1. \A k \in A : f[k] \in B /\ Part(f[k]) = Part(k)
      BY <1>5
  <2>2. \A j, k \in A : Part(j) = Part(k) => j = k
      BY <1>1 DEF Keyed
  <2>3. \A j, k \in B : Part(j) = Part(k) => j = k
      BY <1>1 DEF Keyed
  <2>4. DOMAIN f = A
      OBVIOUS
  <2>5. f \in [A -> B]
      BY <2>1
  <2> HIDE DEF f
  <2>6. \A j, k \in A : f[j] = f[k] => j = k
      BY <2>1, <2>2
  <2>7. \A l \in B : \E k \in A : f[k] = l
      BY <1>5, <2>1, <2>3
  <2>8. f \in Bijection(A, B)
      BY <2>5, <2>6, <2>7 DEF Bijection, Injection, Surjection, IsInjective
  <2>9. ExistsBijection(A, B)
      BY <2>8 DEF ExistsBijection
  <2>10. IsFiniteSet(A)
      BY FS_Subset
  <2> QED
      BY <2>9, <2>10, FS_Bijection
<1>6. ASSUME NEW s \in Rows
      PROVE  Cardinality({r \in K : r.seq = s}) = Cardinality({r \in L : r.seq = s})
  <2> DEFINE A == {r \in K : r.seq = s}
             B == {r \in L : r.seq = s}
  <2>1. /\ \A k \in A : \E l \in B : Part(l) = Part(k)
        /\ \A l \in B : \E k \in A : Part(k) = Part(l)
      BY <1>1, <1>3
  <2> QED
      BY <1>5, <2>1
<1>7. ASSUME NEW b \in Bodies
      PROVE  Cardinality({r \in K : r.body = b}) = Cardinality({r \in L : r.body = b})
  <2> DEFINE A == {r \in K : r.body = b}
             B == {r \in L : r.body = b}
  <2>1. /\ \A k \in A : \E l \in B : Part(l) = Part(k)
        /\ \A l \in B : \E k \in A : Part(k) = Part(l)
      BY <1>1, <1>3
  <2> QED
      BY <1>5, <2>1
<1> QED
    BY <1>4, <1>6, <1>7 DEF SumsOf

\* A value changed in one row changes the sum of its column.
LEMMA OneChangeShows ==
  ASSUME NEW L \in SUBSET LakeRow, IsFiniteSet(L), NEW r \in L, NEW b \in Bodies \ {r.body}
  PROVE  SumsOf((L \ {r}) \cup {[r EXCEPT !.body = b]}) # SumsOf(L)
<1> DEFINE r2 == [r EXCEPT !.body = b]
           L2 == (L \ {r}) \cup {r2}
           B == {q \in L : q.body = r.body}
           B2 == {q \in L2 : q.body = r.body}
<1>1. r \in LakeRow /\ r.body \in Bodies
    BY DEF LakeRow
<1>2. r2.body = b /\ b # r.body
    BY <1>1 DEF LakeRow
<1>3. B2 = B \ {r}
    BY <1>2
<1>4. IsFiniteSet(B) /\ r \in B
    BY FS_Subset
<1>5. Cardinality(B2) = Cardinality(B) - 1 /\ Cardinality(B) \in Nat
  <2> HIDE DEF B, B2
  <2> QED
      BY <1>3, <1>4, FS_RemoveElement, FS_CardinalityType
<1>6. SumsOf(L2).body[r.body] = Cardinality(B2) /\ SumsOf(L).body[r.body] = Cardinality(B)
    BY <1>1 DEF SumsOf
<1> QED
    BY <1>5, <1>6

\* Two tables with the same sums over bench.seq have the same numbers.
LEMMA SumsTellSeqs ==
  ASSUME NEW K \in SUBSET LakeRow, NEW L \in SUBSET LakeRow, IsFiniteSet(K), IsFiniteSet(L),
         SumsOf(K) = SumsOf(L)
  PROVE  SeqsOf(K) = SeqsOf(L)
<1>1. ASSUME NEW s \in Rows
      PROVE  s \in SeqsOf(K) <=> s \in SeqsOf(L)
  <2> DEFINE At(M) == {r \in M : r.seq = s}
  <2>1. SumsOf(K).seq[s] = Cardinality(At(K)) /\ SumsOf(L).seq[s] = Cardinality(At(L))
      BY DEF SumsOf
  <2>2. Cardinality(At(K)) = Cardinality(At(L))
      BY <2>1
  <2>3. IsFiniteSet(At(K)) /\ IsFiniteSet(At(L))
      BY FS_Subset
  <2>4. At(K) = {} <=> At(L) = {}
      BY <2>2, <2>3, FS_EmptySet
  <2>5. (s \in SeqsOf(K) <=> At(K) # {}) /\ (s \in SeqsOf(L) <=> At(L) # {})
      BY DEF SeqsOf
  <2> QED
      BY <2>4, <2>5
<1>2. SeqsOf(K) \subseteq Rows /\ SeqsOf(L) \subseteq Rows
    BY DEF SeqsOf, LakeRow
<1> QED
    BY <1>1, <1>2

\* A second check that passes, and whose checksums did not fail on both
\* sides, rules out that a single value of a summed column differs from the
\* first one, whatever happened to the columns that are not summed, and
\* although rows may land between the queries.
THEOREM SummedChangesAreCaught == Spec => []SummedChangeCaught
<1>1. TypeInv /\ Sound /\ Complete /\ Keys => SummedChangeCaught
  <2> SUFFICES ASSUME TypeInv, Sound, Complete, Keys,
                      phase = "report", baseline # None, result.verdict = "PASS",
                      {baseline.sums, result.sums} # {None},
                      NEW r \in before, NEW b \in Bodies \ {r.body},
                      Compared(lake)
                        = Compared((before \ {r}) \cup {[r EXCEPT !.body = b]})
               PROVE  FALSE
      BY DEF SummedChangeCaught
  <2> DEFINE x == [r EXCEPT !.body = b]
             M == (before \ {r}) \cup {x}
  <2>1. baseline.sums = result.sums
      BY DEF Complete, Summed
  <2>2. result.sums # None /\ result.sums = SumsOf(before)
      BY <2>1 DEF Complete, Summed
  <2>3. PICK L \in SUBSET lake : Taken(L)
      BY <2>2 DEF Complete, Summed, Judged
  <2>4. /\ lake \in SUBSET LakeRow /\ IsFiniteSet(lake)
        /\ before \in SUBSET LakeRow /\ IsFiniteSet(before)
      BY DEF TypeInv, TypeOK, Complete, Summed
  <2>5. x \in LakeRow /\ x.seq = r.seq /\ x.copy = r.copy
      BY <2>4 DEF LakeRow
  <2>6. M \in SUBSET LakeRow /\ IsFiniteSet(M) /\ Keyed(M)
    <3>1. IsFiniteSet(before \ {r})
        BY <2>4, FS_Subset
    <3> HIDE DEF x
    <3>2. IsFiniteSet(M) /\ M \in SUBSET LakeRow
        BY <2>4, <2>5, <3>1, FS_AddElement
    <3> QED
        BY <2>5, <3>2, KeyedInstead DEF Keys
  <2>7. SumsOf(lake) = SumsOf(M) /\ SeqsOf(lake) = SeqsOf(M)
    <3> HIDE DEF M
    <3> QED
        BY <2>4, <2>6, ComparedTellsAll DEF Keys, M
  <2>8. SeqsOf(M) = SeqsOf(before)
      BY <2>5 DEF SeqsOf
  <2>9. SeqsOf(L) = SeqsOf(before)
    <3>1. L \in SUBSET LakeRow /\ IsFiniteSet(L)
        BY <2>4, FS_Subset
    <3> QED
        BY <2>2, <2>3, <2>4, <3>1, SumsTellSeqs DEF Taken
  <2>10. Landed = SeqsOf(lake)
      BY DEF Landed, SeqsOf
  <2>11. L = lake
      BY <2>3, <2>7, <2>8, <2>9, <2>10 DEF Taken
  <2>12. SumsOf(M) = SumsOf(before)
      BY <2>2, <2>3, <2>7, <2>11 DEF Taken
  <2> QED
      BY <2>4, <2>12, OneChangeShows
<1> QED
    BY <1>1, KeysAlways, PTL

=============================================================================
