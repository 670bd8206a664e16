------------------------ MODULE CustomerReportProofs ------------------------
(***************************************************************************)
(* What is proved of the customer's report, for any number of runs, any    *)
(* fates and any length of the drill's loops: the outage it quotes covers  *)
(* the time the service was down, it claims survival of the kill only of a *)
(* drill that was checked and earned it, its headline hides no more than   *)
(* it says, and its best rate is that of a run that earned it.             *)
(***************************************************************************)
EXTENDS CustomerReport, Sums

Steps(r) == LateLanding(r) \/ Validate(r) \/ \E f \in Fates : EndRun(r, f)
ServiceMoves == ServiceFails \/ ServiceReturns
DrillSteps == \E b \in BOOLEAN : Inject(b) \/ Detect(b) \/ Recover(b)

LEMMA Moves ==
  [Next]_vars => \/ \E r \in Runs : Steps(r)
                 \/ DrillSteps \/ ServiceMoves \/ Build \/ UNCHANGED vars
  BY DEF Next, Steps, DrillSteps, ServiceMoves

-----------------------------------------------------------------------------
(* The clock of the drill                                                  *)

Times == Nat \cup {None}

DrillTypes ==
  /\ clock \in Nat /\ outage \in Nat
  /\ fault \in [inj : Times, det : Times, rec : Times, healed : BOOLEAN \cup {None}]

\* Before the kill nothing is down; until the drill is over there is no
\* recovery time, and the clock has counted every probe's worth of outage
\* since the kill; the recovery is as late as that.
DrillInv ==
  /\ DrillTypes
  /\ injector = "idle" =>
       service = "up" /\ outage = 0 /\ fault.inj = None /\ fault.rec = None
  /\ injector # "idle" => fault.inj \in Nat
  /\ injector \in {"detect", "recover"} =>
       fault.rec = None /\ outage <= clock - fault.inj
  /\ fault.rec # None =>
       /\ fault.rec \in Nat /\ injector = "over"
       /\ outage <= fault.rec - fault.inj

\* The outage in the document is the one on record, which no longer changes.
QuoteInv ==
  doc # None => (doc.recovery # None => (doc.recovery.outage # None =>
    fault.rec # None /\ doc.recovery.outage = fault.rec - fault.inj))

LEMMA DrillStart == Init => DrillInv /\ QuoteInv
  BY FatesAssumption DEF Init, DrillInv, DrillTypes, Times, QuoteInv

\* The kill: the fault is stamped with the clock, before anything is down.
LEMMA DrillInject ==
  ASSUME DrillInv, QuoteInv, NEW b \in BOOLEAN, Inject(b)
  PROVE  DrillInv' /\ QuoteInv'
<1>1. /\ injector = "idle" /\ injector' = "detect" /\ fault' = [fault EXCEPT !.inj = clock]
      /\ UNCHANGED <<outage, clock, doc>>
  BY DEF Inject
<1>2. fault'.inj = clock /\ fault'.rec = None /\ fault.rec = None
  BY <1>1 DEF DrillInv, DrillTypes
<1>3. DrillTypes'
  BY <1>1 DEF DrillInv, DrillTypes, Times
<1>4. DrillInv'
  BY <1>1, <1>2, <1>3 DEF DrillInv, DrillTypes
<1>5. QuoteInv'
  BY <1>1, <1>2 DEF QuoteInv
<1> QED
  BY <1>4, <1>5

\* A probe of the detection loop takes its time, down or not.
LEMMA DrillDetect ==
  ASSUME DrillInv, QuoteInv, NEW b \in BOOLEAN, Detect(b)
  PROVE  DrillInv' /\ QuoteInv'
<1>1. /\ injector = "detect" /\ injector' \in {"detect", "recover"} /\ clock' = clock + 1
      /\ outage' \in {outage, outage + 1} /\ UNCHANGED <<service, doc>>
  BY DEF Detect, Probe
<1>2. fault' = fault \/ \E t \in Times : fault' = [fault EXCEPT !.det = t]
  <2>1. clock \in Nat
    BY DEF DrillInv, DrillTypes
  <2> QED
    BY <2>1 DEF Detect, Times
<1>3. DrillTypes' /\ fault'.inj = fault.inj /\ fault'.rec = fault.rec
  BY <1>1, <1>2 DEF DrillInv, DrillTypes
<1>4. DrillInv'
  BY <1>1, <1>3 DEF DrillInv, DrillTypes
<1>5. QuoteInv'
  BY <1>1, <1>3 DEF QuoteInv
<1> QED
  BY <1>4, <1>5

\* A probe that is answered finds the service up: what it adds to the clock
\* is no outage, and the recovery is the time before it.
LEMMA DrillRecover ==
  ASSUME DrillInv, QuoteInv, NEW b \in BOOLEAN, Recover(b)
  PROVE  DrillInv' /\ QuoteInv'
<1>1. /\ injector = "recover" /\ clock' = clock + 1 /\ UNCHANGED <<service, doc>>
      /\ outage' = IF service = "down" THEN outage + 1 ELSE outage
      /\ b => service = "up"
  BY DEF Recover, Probe
<1>2. clock \in Nat /\ outage \in Nat /\ fault.inj \in Nat /\ fault.rec = None
      /\ outage <= clock - fault.inj
  BY <1>1 DEF DrillInv, DrillTypes
<1>3. QuoteInv'
  <2>1. doc = None \/ doc.recovery = None \/ doc.recovery.outage = None
    BY <1>2 DEF QuoteInv
  <2> QED
    BY <1>1, <2>1 DEF QuoteInv
<1>4. CASE injector' = injector /\ fault' = fault
  <2>1. DrillTypes'
    BY <1>1, <1>2, <1>4 DEF DrillInv, DrillTypes
  <2> QED
    BY <1>1, <1>2, <1>3, <1>4, <2>1 DEF DrillInv
<1>5. ASSUME NEW h \in BOOLEAN, injector' = "over",
             fault' = [fault EXCEPT !.rec = IF b THEN clock ELSE None, !.healed = h]
      PROVE  DrillInv'
  <2> DEFINE t == IF b THEN clock ELSE None
  <2>0. t \in Times /\ fault' = [fault EXCEPT !.rec = t, !.healed = h]
    BY <1>2, <1>5 DEF Times
  <2>1. DrillTypes'
    <3>1. fault \in [inj : Times, det : Times, rec : Times, healed : BOOLEAN \cup {None}]
      BY DEF DrillInv, DrillTypes
    <3> HIDE DEF t
    <3>2. fault' \in [inj : Times, det : Times, rec : Times, healed : BOOLEAN \cup {None}]
      BY <2>0, <3>1
    <3> QED
      BY <1>1, <1>2, <3>2 DEF DrillTypes
  <2>2. fault'.inj = fault.inj /\ fault'.rec = IF b THEN clock ELSE None
    BY <1>5 DEF DrillInv, DrillTypes
  <2>3. b => outage' = outage
    BY <1>1
  <2> QED
    BY <1>2, <1>5, <2>1, <2>2, <2>3 DEF DrillInv
<1>6. \/ injector' = injector /\ fault' = fault
      \/ \E h \in BOOLEAN :
           /\ injector' = "over"
           /\ fault' = [fault EXCEPT !.rec = IF b THEN clock ELSE None, !.healed = h]
  BY DEF Recover
<1> QED
  BY <1>3, <1>4, <1>5, <1>6

\* A document quotes the fault as it is on record.
LEMMA DrillBuild ==
  ASSUME DrillInv, QuoteInv, Build
  PROVE  DrillInv' /\ QuoteInv'
<1>1. UNCHANGED drillVars /\ (doc' = doc \/ doc' = Document)
  BY DEF Build
<1>2. DrillInv'
  BY <1>1 DEF drillVars, DrillInv, DrillTypes
<1>3. QuoteInv'
  <2>1. CASE doc' = doc
    BY <1>1, <2>1 DEF drillVars, QuoteInv
  <2>2. CASE doc' = Document
    <3>1. doc'.recovery = Recovery
      BY <2>2 DEF Document
    <3>2. Recovery # None =>
            Recovery.outage = IF fault.rec = None THEN None ELSE fault.rec - fault.inj
      BY DEF Recovery
    <3> QED
      BY <1>1, <3>1, <3>2 DEF drillVars, QuoteInv
  <2> QED
    BY <1>1, <2>1, <2>2
<1> QED
  BY <1>2, <1>3

LEMMA DrillStep ==
  ASSUME DrillInv, QuoteInv, [Next]_vars
  PROVE  DrillInv' /\ QuoteInv'
<1>1. CASE (\E r \in Runs : Steps(r)) \/ UNCHANGED vars
  <2>1. UNCHANGED <<drillVars, doc>>
    BY <1>1 DEF Steps, LateLanding, Validate, EndRun, vars
  <2> QED
    BY <2>1 DEF drillVars, DrillInv, DrillTypes, QuoteInv
<1>2. CASE ServiceMoves
  <2>1. /\ service' = "up" \/ injector # "idle"
        /\ UNCHANGED <<injector, outage, clock, fault, doc>>
    BY <1>2 DEF ServiceMoves, ServiceFails, ServiceReturns
  <2> QED
    BY <2>1 DEF DrillInv, DrillTypes, QuoteInv
<1> QED
  BY <1>1, <1>2, Moves, DrillInject, DrillDetect, DrillRecover, DrillBuild DEF DrillSteps

\* The outage that inject.py measures, and the one the customer reads, cover
\* the time the service was down, whatever the probes saw of it.
THEOREM OutagesAreCovered == Spec => []OutageCoversDowntime
<1>1. DrillInv /\ QuoteInv => OutageCoversDowntime
  <2> SUFFICES ASSUME DrillInv, QuoteInv PROVE OutageCoversDowntime
    OBVIOUS
  <2>1. ASSUME fault.rec # None
        PROVE  fault.rec - fault.inj >= outage
    <3>1. fault.rec \in Nat /\ fault.inj \in Nat /\ outage \in Nat
      BY <2>1 DEF DrillInv, DrillTypes
    <3> QED
      BY <2>1, <3>1 DEF DrillInv
  <2>2. ASSUME doc # None, doc.recovery # None, doc.recovery.outage # None
        PROVE  doc.recovery.outage >= outage
    BY <2>1, <2>2 DEF QuoteInv
  <2> QED
    BY <2>1, <2>2 DEF OutageCoversDowntime
<1> QED
  BY <1>1, DrillStart, DrillStep, PTL DEF Spec

-----------------------------------------------------------------------------
(* The claim of survival                                                   *)

\* What a PASS on file is worth now: rows only land.
VerdictInv ==
  /\ DOMAIN fate = Runs /\ DOMAIN corr = Runs /\ ghosts \in [Runs -> Nat]
  /\ \A r \in Runs : fate[r] # None => fate[r] \in Fates
  /\ \A r \in Runs : corr[r] # None =>
       /\ fate[r] # None
       /\ corr[r].verdict = "PASS" => fate[r].dup = 0 /\ fate[r].lost <= ghosts[r]

\* What a document that claims survival is worth now.
ClaimInv ==
  doc # None => (doc.survived =>
    /\ fate[Drill] # None
    /\ doc.appendix[Drill] = "PASS" /\ doc.recovery.outage # None
    /\ fate[Drill].dup = 0 /\ fate[Drill].lost <= ghosts[Drill])

LEMMA FateTypes ==
  ASSUME NEW f \in Fates
  PROVE  /\ f.offered \in Nat /\ f.acked \in Nat /\ f.lost \in Nat /\ f.dup \in Nat
         /\ f.ghost \in Nat /\ f.levels \in Nat /\ f.rate \in Nat /\ 0 < f.offered
  BY FatesAssumption

LEMMA ClaimStart == Init => VerdictInv /\ ClaimInv
  BY DEF Init, VerdictInv, ClaimInv

\* A verdict of PASS needs no extra copy and a landed row for each lost one.
LEMMA PassIsEarned ==
  ASSUME NEW f \in Fates, NEW n \in Nat, Validation(f, n).verdict = "PASS"
  PROVE  f.dup = 0 /\ f.lost <= n
<1>1. Validation(f, n).verdict =
        IF Validation(f, n).delta = 0 /\ f.dup = 0 /\ NoGaps(f, n) THEN "PASS" ELSE "FAIL"
  BY DEF Validation
<1> QED
  BY <1>1 DEF NoGaps

\* A run ends once: the fate a verdict rests on is never replaced.
LEMMA ClaimEndRun ==
  ASSUME VerdictInv, ClaimInv, NEW r \in Runs, NEW f \in Fates, EndRun(r, f)
  PROVE  VerdictInv' /\ ClaimInv'
<1>1. fate[r] = None /\ fate' = [fate EXCEPT ![r] = f] /\ UNCHANGED <<ghosts, corr, doc>>
  BY DEF EndRun
<1>2. corr[r] = None
  BY <1>1 DEF VerdictInv
<1>3. \A q \in Runs \ {r} : fate'[q] = fate[q]
  BY <1>1 DEF VerdictInv
<1>4. fate'[r] = f /\ DOMAIN fate' = Runs
  BY <1>1 DEF VerdictInv
<1>5. VerdictInv'
  BY <1>1, <1>2, <1>3, <1>4 DEF VerdictInv
<1>6. ClaimInv'
  <2>1. fate[Drill] # None => fate'[Drill] = fate[Drill]
    BY <1>1, <1>3, FatesAssumption
  <2> QED
    BY <1>1, <2>1 DEF ClaimInv
<1> QED
  BY <1>5, <1>6

LEMMA ClaimLateLanding ==
  ASSUME VerdictInv, ClaimInv, NEW r \in Runs, LateLanding(r)
  PROVE  VerdictInv' /\ ClaimInv'
<1>1. ghosts' = [ghosts EXCEPT ![r] = @ + 1] /\ UNCHANGED <<fate, corr, doc>>
  BY DEF LateLanding
<1>2. ghosts' \in [Runs -> Nat] /\ \A q \in Runs : ghosts[q] <= ghosts'[q]
  BY <1>1 DEF VerdictInv
<1>3. \A q \in Runs : fate[q] # None => fate[q].lost \in Nat
  BY FateTypes DEF VerdictInv
<1>4. \A q \in Runs : fate[q] # None /\ fate[q].lost <= ghosts[q] => fate[q].lost <= ghosts'[q]
  BY <1>2, <1>3 DEF VerdictInv
<1>5. VerdictInv'
  BY <1>1, <1>2, <1>4 DEF VerdictInv
<1>6. ClaimInv'
  BY <1>1, <1>4, FatesAssumption DEF ClaimInv
<1> QED
  BY <1>5, <1>6

\* correctness.json is overwritten by a check of the table as it is.
LEMMA ClaimValidate ==
  ASSUME VerdictInv, ClaimInv, NEW r \in Runs, Validate(r)
  PROVE  VerdictInv' /\ ClaimInv'
<1>1. fate[r] # None /\ corr' = [corr EXCEPT ![r] = Validation(fate[r], ghosts[r])]
      /\ UNCHANGED <<fate, ghosts, doc>>
  BY DEF Validate, Ended
<1>2. fate[r] \in Fates /\ ghosts[r] \in Nat
  BY <1>1 DEF VerdictInv
<1>3. corr'[r] = Validation(fate[r], ghosts[r]) /\ \A q \in Runs \ {r} : corr'[q] = corr[q]
  BY <1>1 DEF VerdictInv
<1>4. DOMAIN corr' = Runs
  BY <1>1 DEF VerdictInv
<1>5. corr'[r].verdict = "PASS" => fate[r].dup = 0 /\ fate[r].lost <= ghosts[r]
  BY <1>2, <1>3, PassIsEarned
<1>6. VerdictInv'
  BY <1>1, <1>3, <1>4, <1>5 DEF VerdictInv
<1>7. ClaimInv'
  BY <1>1 DEF ClaimInv
<1> QED
  BY <1>6, <1>7

\* The claim is made of a PASS on file and with an outage to quote, or the
\* report is not written.
LEMMA ClaimBuild ==
  ASSUME VerdictInv, ClaimInv, Build
  PROVE  VerdictInv' /\ ClaimInv'
<1>1. UNCHANGED <<fate, ghosts, corr>>
  BY DEF Build
<1>2. VerdictInv'
  BY <1>1 DEF VerdictInv
<1>3. CASE doc' = doc
  BY <1>1, <1>2, <1>3 DEF ClaimInv
<1>4. CASE doc' = Document /\ ~Raises(Recovery)
  <2>1. doc'.survived = KillClaim(Recovery) /\ doc'.recovery = Recovery /\ doc'.appendix = Appendix
    BY <1>4 DEF Document
  <2> SUFFICES ASSUME KillClaim(Recovery)
               PROVE  /\ fate[Drill] # None
                      /\ Appendix[Drill] = "PASS" /\ Recovery.outage # None
                      /\ fate[Drill].dup = 0 /\ fate[Drill].lost <= ghosts[Drill]
    <3>1. CASE KillClaim(Recovery)
      BY <1>1, <1>2, <2>1, <3>1 DEF ClaimInv
    <3>2. CASE ~KillClaim(Recovery)
      <4>1. ~doc'.survived
        BY <2>1, <3>2, Zenon
      <4> QED
        BY <1>2, <4>1, Zenon DEF ClaimInv
    <3> QED
      BY <3>1, <3>2
  <2>2. Recovery # None /\ Recovery.verdict = "PASS" /\ Recovery.outage # None
    BY <1>4 DEF KillClaim, Raises
  <2>3. fate[Drill] # None
    BY <2>2 DEF Recovery
  <2>4. Recovery.verdict = IF corr[Drill] = None THEN None ELSE corr[Drill].verdict
    BY <2>2 DEF Recovery
  <2>5. corr[Drill] # None /\ corr[Drill].verdict = "PASS"
    BY <2>2, <2>4, FatesAssumption
  <2>6. fate[Drill].dup = 0 /\ fate[Drill].lost <= ghosts[Drill] /\ fate[Drill] \in Fates
    BY <2>3, <2>5, FatesAssumption DEF VerdictInv
  <2>7. Drill \in {q \in Ended : fate[q].offered > 0}
    BY <2>3, <2>6, FateTypes, FatesAssumption DEF Ended
  <2>8. Appendix[Drill] = "PASS"
    BY <2>5, <2>7 DEF Appendix
  <2> QED
    BY <2>2, <2>3, <2>6, <2>8
<1> QED
  BY <1>2, <1>3, <1>4 DEF Build

LEMMA ClaimStep ==
  ASSUME VerdictInv, ClaimInv, [Next]_vars
  PROVE  VerdictInv' /\ ClaimInv'
<1>1. CASE DrillSteps \/ ServiceMoves \/ UNCHANGED vars
  <2>1. UNCHANGED <<fate, ghosts, corr, doc>>
    BY <1>1 DEF DrillSteps, Inject, Detect, Recover, Probe, ServiceMoves,
              ServiceFails, ServiceReturns, vars
  <2> QED
    BY <2>1 DEF VerdictInv, ClaimInv
<1> QED
  BY <1>1, Moves, ClaimEndRun, ClaimLateLanding, ClaimValidate, ClaimBuild DEF Steps

\* "Zero data loss through a hard process kill" is written only of a drill
\* that was checked, doubled nothing and lost no more than landed late, with
\* an outage to quote.
THEOREM SurvivalMustBeEarned == Spec => []SurvivalIsEarned
<1>1. ClaimInv => SurvivalIsEarned
  BY DEF ClaimInv, SurvivalIsEarned
<1> QED
  BY <1>1, ClaimStart, ClaimStep, PTL DEF Spec

-----------------------------------------------------------------------------
(* The headline                                                            *)

\* Every correctness.json is a check of the run's fate as it is, against some
\* number of the rows that have landed by now.
CheckInv ==
  /\ DOMAIN fate = Runs /\ DOMAIN corr = Runs /\ ghosts \in [Runs -> Nat]
  /\ \A r \in Runs : fate[r] # None => fate[r] \in Fates
  /\ \A r \in Runs : corr[r] # None =>
       fate[r] # None /\ \E n \in 0..ghosts[r] : corr[r] = Validation(fate[r], n)

\* What a document says of loss is worth that much now, and the runs it has a
\* verdict of have ended.
HeadlineInv ==
  /\ HeadlineIsBounded
  /\ doc # None => /\ doc.lost \in Int /\ doc.dup \in Int
                    /\ \A r \in Judged(doc) : r \in Runs /\ fate[r] # None

\* A check accuses a run of no more than it lost, counts its copies exactly,
\* and what it hides of the loss is made up for by late rows and copies.
LEMMA ValidationBounds ==
  ASSUME NEW f \in Fates, NEW n \in Nat, NEW c, c = Validation(f, n)
  PROVE  /\ c.delta \in Int /\ c.excess = f.dup /\ -c.delta <= f.lost
         /\ f.lost - n <= f.dup - c.delta
         /\ c.verdict \in {"PASS", "FAIL"}
<1>1. c.delta = (f.acked - f.lost + f.dup + n) - f.acked /\ c.excess = f.dup
  BY DEF Validation
<1>2. c.verdict \in {"PASS", "FAIL"}
  BY DEF Validation
<1> QED
  BY <1>1, <1>2, FateTypes

LEMMA HeadlineStart == Init => CheckInv /\ HeadlineInv
  BY DEF Init, CheckInv, HeadlineInv, HeadlineIsBounded

\* More rows that land only lower what a document may have hidden, and the
\* fates it speaks of are final.
LEMMA HeadlineKept ==
  ASSUME CheckInv, CheckInv', HeadlineInv, doc' = doc,
         \A r \in Runs : fate[r] # None => fate'[r] = fate[r],
         \A r \in Runs : ghosts[r] <= ghosts'[r]
  PROVE  HeadlineInv'
<1>1. CASE doc = None
  BY <1>1 DEF HeadlineInv, HeadlineIsBounded
<1>2. CASE doc # None
  <2> DEFINE J  == Judged(doc)
             m  == [r \in J |-> Missing(r)]
             m2 == [r \in J |-> Missing(r)']
  <2>1. \A r \in J : r \in Runs /\ fate[r] # None /\ fate'[r] = fate[r]
    BY <1>2 DEF HeadlineInv
  <2>2. Judged(doc') = J /\ Judged(doc)' = J
    BY DEF Judged
  <2>3. /\ [r \in Judged(doc') |-> fate'[r].lost] = [r \in J |-> fate[r].lost]
        /\ [r \in Judged(doc') |-> fate'[r].dup] = [r \in J |-> fate[r].dup]
    BY <2>1, <2>2
  <2>4. [r \in Judged(doc') |-> Missing(r)'] = m2
    BY <2>2
  <2>5. ASSUME NEW r \in J
        PROVE  m[r] \in Int /\ m2[r] \in Int /\ m2[r] <= m[r]
    <3>1. /\ m[r] = IF fate[r].lost > ghosts[r] THEN fate[r].lost - ghosts[r] ELSE 0
          /\ m2[r] = IF fate'[r].lost > ghosts'[r] THEN fate'[r].lost - ghosts'[r] ELSE 0
      BY DEF Missing
    <3>2. fate[r].lost \in Nat /\ fate'[r] = fate[r]
      BY <2>1, FateTypes DEF CheckInv
    <3>3. ghosts[r] \in Nat /\ ghosts'[r] \in Nat /\ ghosts[r] <= ghosts'[r]
      BY <2>1 DEF CheckInv
    <3> HIDE DEF m, m2
    <3> QED
      BY <3>1, <3>2, <3>3
  <2>6. DOMAIN m = J /\ DOMAIN m2 = J
    OBVIOUS
  <2>7. J \subseteq Runs /\ IsFiniteSet(J)
    BY <2>1, FatesAssumption, FS_Subset
  <2>8. SumFunction(m) = SumFunctionOnSet(m, J) /\ SumFunction(m2) = SumFunctionOnSet(m2, J)
    BY <2>6 DEF SumFunction
  <2>9. /\ doc.lost <= SumFunction([r \in J |-> fate[r].lost])
        /\ doc.dup = SumFunction([r \in J |-> fate[r].dup])
        /\ SumFunction(m) <= doc.lost + doc.dup
        /\ doc.lost \in Int /\ doc.dup \in Int
    BY <1>2 DEF HeadlineInv, HeadlineIsBounded
  <2>10. SumFunction(m2) <= doc.lost + doc.dup
    <3> HIDE DEF J, m, m2
    <3>1. SumFunctionOnSet(m2, J) <= SumFunctionOnSet(m, J)
      BY <2>5, <2>7, SumMonotonic
    <3>2. SumFunctionOnSet(m, J) \in Int /\ SumFunctionOnSet(m2, J) \in Int
      BY <2>5, <2>7, SumType
    <3> QED
      BY <2>8, <2>9, <3>1, <3>2
  <2>11. HeadlineIsBounded'
    <3>1. /\ doc'.lost <= SumFunction([r \in Judged(doc') |-> fate'[r].lost])
          /\ doc'.dup = SumFunction([r \in Judged(doc') |-> fate'[r].dup])
      BY <2>3, <2>9
    <3>2. SumFunction([r \in Judged(doc') |-> Missing(r)']) <= doc'.lost + doc'.dup
      <4> HIDE DEF m2, J
      <4> QED
        BY <2>4, <2>10
    <3> QED
      BY <3>1, <3>2 DEF HeadlineIsBounded
  <2> QED
    BY <2>1, <2>2, <2>9, <2>11 DEF HeadlineInv
<1> QED
  BY <1>1, <1>2

LEMMA CheckEndRun ==
  ASSUME CheckInv, NEW r \in Runs, NEW f \in Fates, EndRun(r, f)
  PROVE  CheckInv' /\ \A q \in Runs : fate[q] # None => fate'[q] = fate[q]
<1>1. fate[r] = None /\ fate' = [fate EXCEPT ![r] = f] /\ UNCHANGED <<ghosts, corr, doc>>
  BY DEF EndRun
<1>2. corr[r] = None
  BY <1>1 DEF CheckInv
<1>3. \A q \in Runs \ {r} : fate'[q] = fate[q]
  BY <1>1 DEF CheckInv
<1>4. fate'[r] = f /\ DOMAIN fate' = Runs
  BY <1>1 DEF CheckInv
<1>5. ASSUME NEW q \in Runs, corr[q] # None
      PROVE  fate'[q] # None /\ \E n \in 0..ghosts[q] : corr[q] = Validation(fate'[q], n)
  BY <1>2, <1>3, <1>5 DEF CheckInv
<1>6. \A q \in Runs : fate'[q] # None => fate'[q] \in Fates
  BY <1>3, <1>4 DEF CheckInv
<1>7. CheckInv'
  BY <1>1, <1>4, <1>5, <1>6 DEF CheckInv
<1> QED
  BY <1>1, <1>3, <1>7

LEMMA CheckLateLanding ==
  ASSUME CheckInv, NEW r \in Runs, LateLanding(r)
  PROVE  CheckInv' /\ \A q \in Runs : ghosts[q] <= ghosts'[q]
<1>1. ghosts' = [ghosts EXCEPT ![r] = @ + 1] /\ UNCHANGED <<fate, corr, doc>>
  BY DEF LateLanding
<1>2. ghosts' \in [Runs -> Nat] /\ \A q \in Runs : ghosts[q] <= ghosts'[q]
  BY <1>1 DEF CheckInv
<1>3. \A q \in Runs : ghosts[q] \in Nat /\ ghosts'[q] \in Nat
  BY <1>2 DEF CheckInv
<1>4. \A q \in Runs : \A n \in 0..ghosts[q] : n \in 0..ghosts'[q]
  BY <1>2, <1>3
<1>5. CheckInv'
  BY <1>1, <1>2, <1>4 DEF CheckInv
<1> QED
  BY <1>2, <1>5

LEMMA CheckValidate ==
  ASSUME CheckInv, NEW r \in Runs, Validate(r)
  PROVE  CheckInv'
<1>1. fate[r] # None /\ corr' = [corr EXCEPT ![r] = Validation(fate[r], ghosts[r])]
      /\ UNCHANGED <<fate, ghosts, doc>>
  BY DEF Validate, Ended
<1>2. DOMAIN corr' = Runs /\ corr'[r] = Validation(fate[r], ghosts[r])
      /\ \A q \in Runs \ {r} : corr'[q] = corr[q]
  BY <1>1 DEF CheckInv
<1>3. ghosts[r] \in 0..ghosts[r]
  BY DEF CheckInv
<1> QED
  BY <1>1, <1>2, <1>3 DEF CheckInv

\* The document that is built now: losses and copies are summed over the
\* checked runs, which are the ones it has a verdict of.
LEMMA HeadlineBuilt ==
  ASSUME CheckInv
  PROVE  /\ Document.lost \in Int /\ Document.dup \in Int
         /\ \A r \in Judged(Document) : r \in Runs /\ fate[r] # None
         /\ Document.lost <= SumFunction([r \in Judged(Document) |-> fate[r].lost])
         /\ Document.dup = SumFunction([r \in Judged(Document) |-> fate[r].dup])
         /\ SumFunction([r \in Judged(Document) |-> Missing(r)]) <= Document.lost + Document.dup
<1> DEFINE loss == [r \in Checked |-> LossOf(r)]
           excess == [r \in Checked |-> corr[r].excess]
           both == [r \in Checked |-> LossOf(r) + corr[r].excess]
           l == [r \in Checked |-> fate[r].lost]
           d == [r \in Checked |-> fate[r].dup]
           m == [r \in Checked |-> Missing(r)]
<1>1. /\ Document.lost = SumFunction(loss) /\ Document.dup = SumFunction(excess)
      /\ Document.appendix = Appendix
  BY DEF Document, LossRuns
<1>2. \A r \in Checked : r \in Runs /\ corr[r] # None /\ fate[r] # None /\ fate[r] \in Fates
  BY DEF Checked, Ended, CheckInv
<1>3. Judged(Document) = Checked
  <2>1. DOMAIN Appendix = {q \in Ended : fate[q].offered > 0}
    BY DEF Appendix
  <2>2. \A r \in DOMAIN Appendix :
          Appendix[r] = IF corr[r] = None THEN "pending" ELSE corr[r].verdict
    BY DEF Appendix
  <2>3. \A r \in Checked : r \in DOMAIN Appendix /\ corr[r].verdict \in {"PASS", "FAIL"}
    <3> SUFFICES ASSUME NEW r \in Checked
                 PROVE  r \in DOMAIN Appendix /\ corr[r].verdict \in {"PASS", "FAIL"}
      OBVIOUS
    <3>1. r \in Ended /\ fate[r].offered > 0
      BY <1>2, FateTypes DEF Checked
    <3>2. PICK n \in 0..ghosts[r] : corr[r] = Validation(fate[r], n)
      BY <1>2 DEF CheckInv
    <3>3. n \in Nat
      BY <1>2, <3>2 DEF CheckInv
    <3> QED
      BY <1>2, <2>1, <3>1, <3>2, <3>3, ValidationBounds
  <2>4. \A r \in DOMAIN Appendix : Appendix[r] # "pending" => r \in Checked
    BY <2>1, <2>2 DEF Checked
  <2>5. \A r \in Checked : Appendix[r] # "pending"
    BY <1>2, <2>2, <2>3
  <2> HIDE DEF Document
  <2> QED
    BY <1>1, <2>3, <2>4, <2>5 DEF Judged
<1>4. /\ DOMAIN loss = Checked /\ DOMAIN excess = Checked /\ DOMAIN both = Checked
      /\ DOMAIN l = Checked /\ DOMAIN d = Checked /\ DOMAIN m = Checked
      /\ \A r \in Checked : /\ loss[r] = LossOf(r) /\ excess[r] = corr[r].excess
                             /\ both[r] = LossOf(r) + corr[r].excess
                             /\ l[r] = fate[r].lost /\ d[r] = fate[r].dup /\ m[r] = Missing(r)
  OBVIOUS
<1> HIDE DEF loss, excess, both, l, d, m
<1>5. Checked \in SUBSET Runs /\ IsFiniteSet(Checked)
  BY <1>2, FatesAssumption, FS_Subset
<1>6. ASSUME NEW r \in Checked
      PROVE  /\ loss[r] \in Int /\ excess[r] \in Int /\ both[r] \in Int
             /\ l[r] \in Int /\ m[r] \in Int
             /\ loss[r] <= l[r] /\ excess[r] = d[r] /\ both[r] = loss[r] + excess[r]
             /\ m[r] <= both[r]
  <2>1. PICK n \in 0..ghosts[r] : corr[r] = Validation(fate[r], n)
    BY <1>2 DEF CheckInv
  <2>2. ghosts[r] \in Nat /\ n \in Nat /\ n <= ghosts[r]
    BY <1>2, <2>1 DEF CheckInv
  <2>3. /\ corr[r].delta \in Int /\ corr[r].excess = fate[r].dup /\ -corr[r].delta <= fate[r].lost
        /\ fate[r].lost - n <= fate[r].dup - corr[r].delta
    BY <1>2, <2>1, <2>2, ValidationBounds
  <2>4. fate[r].lost \in Nat /\ fate[r].dup \in Nat
    BY <1>2, FateTypes
  <2>5. loss[r] = IF corr[r].delta < 0 THEN -corr[r].delta ELSE 0
    BY <1>4 DEF LossOf
  <2>6. m[r] = IF fate[r].lost > ghosts[r] THEN fate[r].lost - ghosts[r] ELSE 0
    BY <1>4 DEF Missing
  <2>7. l[r] = fate[r].lost /\ d[r] = fate[r].dup /\ excess[r] = fate[r].dup
        /\ both[r] = loss[r] + excess[r]
    BY <1>4, <2>3
  <2> QED
    BY <2>2, <2>3, <2>4, <2>5, <2>6, <2>7
<1>7. /\ SumFunction(loss) = SumFunctionOnSet(loss, Checked)
      /\ SumFunction(excess) = SumFunctionOnSet(excess, Checked)
      /\ SumFunction(l) = SumFunctionOnSet(l, Checked)
      /\ SumFunction(d) = SumFunctionOnSet(d, Checked)
      /\ SumFunction(m) = SumFunctionOnSet(m, Checked)
  BY <1>4 DEF SumFunction
<1>8. /\ SumFunctionOnSet(loss, Checked) \in Int /\ SumFunctionOnSet(excess, Checked) \in Int
      /\ SumFunctionOnSet(both, Checked) \in Int /\ SumFunctionOnSet(l, Checked) \in Int
      /\ SumFunctionOnSet(m, Checked) \in Int
  BY <1>5, <1>6, SumType
<1>9. SumFunctionOnSet(loss, Checked) <= SumFunctionOnSet(l, Checked)
  BY <1>5, <1>6, SumMonotonic
<1>10. SumFunctionOnSet(excess, Checked) = SumFunctionOnSet(d, Checked)
  BY <1>5, <1>6, SumSame
<1>11. SumFunctionOnSet(m, Checked) <= SumFunctionOnSet(both, Checked)
  BY <1>5, <1>6, SumMonotonic
<1>12. SumFunctionOnSet(both, Checked)
         = SumFunctionOnSet(loss, Checked) + SumFunctionOnSet(excess, Checked)
  BY <1>5, <1>6, SumPlus
<1>13. /\ Document.lost \in Int /\ Document.dup \in Int
       /\ Document.lost <= SumFunction(l) /\ Document.dup = SumFunction(d)
       /\ SumFunction(m) <= Document.lost + Document.dup
  BY <1>1, <1>7, <1>8, <1>9, <1>10, <1>11, <1>12
<1> QED
  BY <1>2, <1>3, <1>13 DEF l, d, m

LEMMA HeadlineBuild ==
  ASSUME CheckInv, HeadlineInv, Build
  PROVE  CheckInv' /\ HeadlineInv'
<1>1. UNCHANGED <<fate, ghosts, corr>> /\ (doc' = doc \/ doc' = Document)
  BY DEF Build
<1>2. CheckInv'
  BY <1>1 DEF CheckInv
<1>3. CASE doc' = doc
  BY <1>1, <1>2, <1>3, HeadlineKept DEF CheckInv
<1>4. CASE doc' = Document
  <2>1. /\ \A r : Missing(r)' = Missing(r)
        /\ fate' = fate
    BY <1>1 DEF Missing
  <2>2. /\ doc'.lost \in Int /\ doc'.dup \in Int
        /\ \A r \in Judged(doc') : r \in Runs /\ fate[r] # None
        /\ doc'.lost <= SumFunction([r \in Judged(doc') |-> fate[r].lost])
        /\ doc'.dup = SumFunction([r \in Judged(doc') |-> fate[r].dup])
        /\ SumFunction([r \in Judged(doc') |-> Missing(r)]) <= doc'.lost + doc'.dup
    BY <1>4, HeadlineBuilt
  <2>3. [r \in Judged(doc') |-> Missing(r)'] = [r \in Judged(doc') |-> Missing(r)]
    BY <2>1
  <2>4. HeadlineIsBounded'
    BY <2>1, <2>2, <2>3 DEF HeadlineIsBounded
  <2>5. Judged(doc)' = Judged(doc')
    BY DEF Judged
  <2> QED
    BY <1>2, <2>1, <2>2, <2>4, <2>5 DEF HeadlineInv
<1> QED
  BY <1>1, <1>2, <1>3, <1>4

LEMMA HeadlineStep ==
  ASSUME CheckInv, HeadlineInv, [Next]_vars
  PROVE  CheckInv' /\ HeadlineInv'
<1>0. \A q \in Runs : ghosts[q] <= ghosts[q]
  BY DEF CheckInv
<1>1. CASE DrillSteps \/ ServiceMoves \/ UNCHANGED vars
  <2>1. UNCHANGED <<fate, ghosts, corr, doc>>
    BY <1>1 DEF DrillSteps, Inject, Detect, Recover, Probe, ServiceMoves,
              ServiceFails, ServiceReturns, vars
  <2>2. CheckInv'
    BY <2>1 DEF CheckInv
  <2> QED
    BY <1>0, <2>1, <2>2, HeadlineKept
<1>2. ASSUME NEW r \in Runs, NEW f \in Fates, EndRun(r, f)
      PROVE  CheckInv' /\ HeadlineInv'
  <2>1. UNCHANGED <<ghosts, doc>>
    BY <1>2 DEF EndRun
  <2> QED
    BY <1>0, <1>2, <2>1, CheckEndRun, HeadlineKept
<1>3. ASSUME NEW r \in Runs, LateLanding(r)
      PROVE  CheckInv' /\ HeadlineInv'
  <2>1. UNCHANGED <<fate, doc>>
    BY <1>3 DEF LateLanding
  <2> QED
    BY <1>3, <2>1, CheckLateLanding, HeadlineKept
<1>4. ASSUME NEW r \in Runs, Validate(r)
      PROVE  CheckInv' /\ HeadlineInv'
  <2>1. UNCHANGED <<fate, ghosts, doc>>
    BY <1>4 DEF Validate
  <2> QED
    BY <1>0, <1>4, <2>1, CheckValidate, HeadlineKept
<1>5. CASE Build
  BY <1>5, HeadlineBuild
<1> QED
  BY <1>1, <1>2, <1>3, <1>4, <1>5, Moves DEF Steps

\* The numbers of the headline are about the runs the evidence table has a
\* verdict of: the copies are exact, the loss is invented by none, and what it
\* hides of the loss is no more than the copies it admits to.
THEOREM HeadlineStaysBounded == Spec => []HeadlineIsBounded
<1>1. HeadlineInv => HeadlineIsBounded
  BY DEF HeadlineInv
<1> QED
  BY <1>1, HeadlineStart, HeadlineStep, PTL DEF Spec

-----------------------------------------------------------------------------
(* The best rate                                                           *)

\* The run the rate is of has ended, so that its fate is final.
BestInv ==
  doc # None => (doc.best # None =>
    /\ doc.best \in Runs /\ fate[doc.best] # None
    /\ fate[doc.best].levels <= 1 /\ fate[doc.best].dup = 0
    /\ fate[doc.best].lost <= ghosts[doc.best]
    /\ 100 * fate[doc.best].acked >= 99 * fate[doc.best].offered)

NoWorse(r, q) == \/ fate[q].rate < fate[r].rate
                 \/ fate[q].rate = fate[r].rate /\ r <= q

\* Among the candidates one is the fastest, and the first of equals.
LEMMA BestExists ==
  ASSUME CheckInv, Candidates # {}
  PROVE  Best \in Candidates /\ \A q \in Candidates : fate[q].rate <= fate[Best].rate
<1> DEFINE P == {T \in SUBSET Candidates : T = {} \/ \E r \in T : \A q \in T : NoWorse(r, q)}
<1>1. Candidates \in SUBSET Runs /\ \A r \in Candidates : fate[r] # None
  BY DEF Candidates, Passed, Checked, Ended
<1>2. IsFiniteSet(Candidates)
  BY <1>1, FatesAssumption, FS_Subset
<1>3. \A r \in Candidates : fate[r].rate \in Nat /\ r \in Nat
  BY <1>1, FateTypes, FatesAssumption DEF CheckInv
<1>4. {} \in P
  OBVIOUS
<1>5. ASSUME NEW T \in SUBSET Candidates, T # {}, \A x \in T : T \ {x} \in P
      PROVE  T \in P
  <2>1. PICK x \in T : TRUE
    BY <1>5
  <2>2. x \in Candidates /\ NoWorse(x, x)
    BY <1>3, <2>1 DEF NoWorse
  <2>3. CASE T \ {x} = {}
    <3>1. \A q \in T : NoWorse(x, q)
      BY <2>2, <2>3
    <3> QED
      BY <2>1, <3>1
  <2>4. CASE T \ {x} # {}
    <3>1. PICK r \in T \ {x} : \A q \in T \ {x} : NoWorse(r, q)
      BY <1>5, <2>1, <2>4
    <3>2. NoWorse(r, x) \/ NoWorse(x, r)
      BY <1>3, <2>2, <3>1 DEF NoWorse
    <3>3. CASE NoWorse(r, x)
      <4>1. \A q \in T : NoWorse(r, q)
        BY <3>1, <3>3
      <4> QED
        BY <3>1, <4>1
    <3>4. CASE NoWorse(x, r)
      <4>1. ASSUME NEW q \in T \ {x} PROVE NoWorse(x, q)
        <5>1. NoWorse(r, q) /\ {x, r, q} \subseteq Candidates
          BY <2>2, <3>1
        <5> QED
          BY <1>3, <3>4, <5>1 DEF NoWorse
      <4>2. \A q \in T : NoWorse(x, q)
        BY <2>2, <4>1
      <4> QED
        BY <2>1, <4>2
    <3> QED
      BY <3>2, <3>3, <3>4
  <2> QED
    BY <2>3, <2>4
<1> HIDE DEF P
<1>6. Candidates \in P
  BY <1>2, <1>4, <1>5, SetInduction
<1>7. \E r \in Candidates : \A q \in Candidates : NoWorse(r, q)
  BY <1>6 DEF P
<1>8. Best \in Candidates /\ \A q \in Candidates : NoWorse(Best, q)
  BY <1>7 DEF Best, NoWorse
<1>9. \A q \in Candidates : fate[q].rate <= fate[Best].rate
  BY <1>3, <1>8 DEF NoWorse
<1> QED
  BY <1>8, <1>9

LEMMA BestStart == Init => BestInv
  BY DEF Init, BestInv

\* What is chosen now has a PASS on file, which is worth what VerdictInv says.
LEMMA BestBuild ==
  ASSUME VerdictInv, CheckInv, BestInv, Build
  PROVE  BestInv'
<1>1. UNCHANGED <<fate, ghosts>> /\ (doc' = doc \/ doc' = Document)
  BY DEF Build
<1>2. CASE doc' = doc
  BY <1>1, <1>2 DEF BestInv
<1>3. CASE doc' = Document
  <2>1. doc'.best = Best
    BY <1>3 DEF Document
  <2> SUFFICES ASSUME Best # None
               PROVE  /\ Best \in Runs /\ fate[Best] # None
                      /\ fate[Best].levels <= 1 /\ fate[Best].dup = 0
                      /\ fate[Best].lost <= ghosts[Best]
                      /\ 100 * fate[Best].acked >= 99 * fate[Best].offered
    <3> HIDE DEF Best
    <3> QED
      BY <1>1, <2>1 DEF BestInv
  <2>2. Candidates # {}
    BY DEF Best
  <2>3. Best \in Candidates
    BY <2>2, BestExists
  <2> HIDE DEF Best
  <2>4. Best \in Passed /\ fate[Best].levels <= 1 /\ Delivered(Best)
    BY <2>3 DEF Candidates
  <2>5. Best \in Runs /\ fate[Best] # None /\ corr[Best] # None /\ corr[Best].verdict = "PASS"
    BY <2>4 DEF Passed, Checked, Ended
  <2> QED
    BY <2>4, <2>5 DEF VerdictInv, Delivered
<1> QED
  BY <1>1, <1>2, <1>3

LEMMA BestStep ==
  ASSUME VerdictInv, CheckInv, CheckInv', BestInv, [Next]_vars
  PROVE  BestInv'
<1>1. ASSUME doc' = doc, \A r \in Runs : fate[r] # None => fate'[r] = fate[r],
             \A r \in Runs : ghosts[r] <= ghosts'[r]
      PROVE  BestInv'
  <2> SUFFICES ASSUME doc # None, doc.best # None
               PROVE  /\ doc.best \in Runs /\ fate'[doc.best] # None
                      /\ fate'[doc.best].levels <= 1 /\ fate'[doc.best].dup = 0
                      /\ fate'[doc.best].lost <= ghosts'[doc.best]
                      /\ 100 * fate'[doc.best].acked >= 99 * fate'[doc.best].offered
    BY <1>1 DEF BestInv
  <2>1. doc.best \in Runs /\ fate[doc.best] # None /\ fate'[doc.best] = fate[doc.best]
    BY <1>1 DEF BestInv
  <2>2. /\ fate[doc.best].lost \in Nat
        /\ ghosts[doc.best] \in Nat /\ ghosts'[doc.best] \in Nat
        /\ ghosts[doc.best] <= ghosts'[doc.best]
    BY <1>1, <2>1, FateTypes DEF CheckInv
  <2> QED
    BY <2>1, <2>2 DEF BestInv
<1>2. \A r \in Runs : ghosts[r] <= ghosts[r]
  BY DEF CheckInv
<1>3. CASE DrillSteps \/ ServiceMoves \/ UNCHANGED vars
  <2>1. UNCHANGED <<fate, ghosts, doc>>
    BY <1>3 DEF DrillSteps, Inject, Detect, Recover, Probe, ServiceMoves,
              ServiceFails, ServiceReturns, vars
  <2> QED
    BY <1>1, <1>2, <2>1
<1>4. ASSUME NEW r \in Runs, NEW f \in Fates, EndRun(r, f)
      PROVE  BestInv'
  <2>1. doc' = doc /\ ghosts' = ghosts
    BY <1>4 DEF EndRun
  <2> QED
    BY <1>1, <1>2, <1>4, <2>1, CheckEndRun
<1>5. ASSUME NEW r \in Runs, LateLanding(r)
      PROVE  BestInv'
  <2>1. UNCHANGED <<fate, doc>>
    BY <1>5 DEF LateLanding
  <2> QED
    BY <1>1, <1>5, <2>1, CheckLateLanding
<1>6. ASSUME NEW r \in Runs, Validate(r)
      PROVE  BestInv'
  <2>1. UNCHANGED <<fate, ghosts, doc>>
    BY <1>6 DEF Validate
  <2> QED
    BY <1>1, <1>2, <2>1
<1>7. CASE Build
  BY <1>7, BestBuild
<1> QED
  BY <1>3, <1>4, <1>5, <1>6, <1>7, Moves DEF Steps

\* The rate in the headline is that of a run that doubled nothing, lost no more
\* than late rows made up for and acked 99 % of what it offered.
THEOREM BestAlwaysEarned == Spec => []BestIsEarned
<1> DEFINE Inv == VerdictInv /\ ClaimInv /\ CheckInv /\ HeadlineInv /\ BestInv
<1>1. Inv => BestIsEarned
  <2> SUFFICES ASSUME Inv, doc # None, doc.best # None
               PROVE  /\ fate[doc.best].levels <= 1 /\ fate[doc.best].dup = 0
                      /\ Missing(doc.best) = 0
                      /\ 100 * fate[doc.best].acked >= 99 * fate[doc.best].offered
    BY DEF BestIsEarned
  <2>1. /\ doc.best \in Runs /\ fate[doc.best] # None
        /\ fate[doc.best].levels <= 1 /\ fate[doc.best].dup = 0
        /\ fate[doc.best].lost <= ghosts[doc.best]
        /\ 100 * fate[doc.best].acked >= 99 * fate[doc.best].offered
    BY DEF BestInv
  <2>2. fate[doc.best].lost \in Nat /\ ghosts[doc.best] \in Nat
    BY <2>1, FateTypes DEF CheckInv
  <2> QED
    BY <2>1, <2>2 DEF Missing
<1>2. Init => Inv
  BY ClaimStart, HeadlineStart, BestStart
<1>3. Inv /\ [Next]_vars => Inv'
  BY ClaimStep, HeadlineStep, BestStep
<1> QED
  <2> HIDE DEF Inv
  <2> QED
    BY <1>1, <1>2, <1>3, PTL DEF Spec
=============================================================================
