-------------------------- MODULE CustomerReport --------------------------
(***************************************************************************)
(* The customer's report, bench/customer_report.py: it is rebuilt at any   *)
(* moment from whatever runs exist, finished or not, validated or not.     *)
(*                                                                         *)
(* Around it, what it reads: runs end with a manifest, the correctness     *)
(* check (bench/validate_correctness.py; Reconcile models its statements)  *)
(* counts what landed so far, and one run is the drill of                  *)
(* tests/recovery/run.sh, whose injector kills the collector and probes it *)
(* over ssh.  The drill's clock ticks once per probe.                      *)
(***************************************************************************)
EXTENDS Integers, FiniteSets, Functions

CONSTANTS
  None,         \* missing, or null in a JSON file
  Runs,         \* result directories; the order of the numbers is glob order
  Drill,        \* the run whose test id holds "recovery"
  Fates,        \* what a run can come to
  DetectProbes, \* probes of the detection loop: 300
  RecoverProbes,\* probes of the recovery loop: 240
  HelpAt        \* the probe at which the drill starts the service: 60

\* A fate: rows offered and acked; acked rows that are lost; extra copies;
\* rows that land although their call failed; steps; mean accepted rate.  A
\* run that offered nothing is not in the evidence table and is left out.
ASSUME FatesAssumption ==
  /\ Runs \subseteq Nat /\ IsFiniteSet(Runs) /\ Drill \in Runs /\ None \notin Nat \cup {"PASS"}
  /\ {DetectProbes, RecoverProbes, HelpAt} \subseteq Nat
  /\ \A f \in Fates : /\ DOMAIN f = {"offered", "acked", "lost", "dup", "ghost", "levels", "rate"}
                      /\ \A field \in DOMAIN f : f[field] \in Nat
                      /\ f.lost <= f.acked /\ f.acked + f.ghost <= f.offered /\ 0 < f.offered

VARIABLES
  fate,     \* run -> its fate once manifest.json is written, else None
  ghosts,   \* run -> how many of its ghost rows have landed so far
  corr,     \* run -> correctness.json, or None
  injector, \* the drill's injector: "idle", "detect", "recover" or "over"
  probes,   \* probes of the current loop so far
  service,  \* is the collector up?
  outage,   \* history: probes' worth of time it was down
  clock,    \* time since the start of the drill
  fault,    \* fault.jsonl: [inj, det, rec, healed]; None: not written or null
  doc       \* PERFORMANCE_REPORT.md, or None

drillVars == <<injector, probes, service, outage, clock, fault>>
vars == <<fate, ghosts, corr, drillVars, doc>>

Ended   == {r \in Runs : fate[r] # None}
Checked == {r \in Ended : corr[r] # None}
Passed  == {r \in Checked : corr[r].verdict = "PASS"}

-----------------------------------------------------------------------------
(* validate_correctness.py, as far as these counts decide it. *)

NoGaps(f, landedGhosts) == f.lost <= landedGhosts

\* What validate() finds on the table as it is now.
Validation(f, landedGhosts) ==
  LET landed == f.acked - f.lost + f.dup + landedGhosts
      delta == landed - f.acked
  IN [landed |-> landed, delta |-> delta, excess |-> f.dup,
      verdict |-> IF delta = 0 /\ f.dup = 0 /\ NoGaps(f, landedGhosts) THEN "PASS" ELSE "FAIL"]

-----------------------------------------------------------------------------
(* customer_report.py: build(). *)

\* max(0, -delta)
LossOf(r) == IF corr[r].delta < 0 THEN -corr[r].delta ELSE 0

LossRuns_Passed == Passed    \* mutant: failed runs are left out

\* The runs whose correctness.json the headline adds up.
LossRuns == Checked

Delivered(r) == fate[r].offered > 0 /\ 100 * fate[r].acked >= 99 * fate[r].offered

Candidates_Unverified ==    \* mutant: the verdict is not asked for
  {r \in Ended : fate[r].levels <= 1 /\ Delivered(r)}

\* The runs "best" is chosen from, in glob order, the first of equals.
Candidates == {r \in Passed : fate[r].levels <= 1 /\ Delivered(r)}

Best ==
  IF Candidates = {} THEN None
  ELSE CHOOSE r \in Candidates :
         \A q \in Candidates : \/ fate[q].rate < fate[r].rate
                               \/ fate[q].rate = fate[r].rate /\ r <= q

\* The recovery section: only when the drill has a manifest and a fault.
Recovery ==
  IF fate[Drill] = None \/ fault.inj = None THEN None
  ELSE [outage  |-> IF fault.rec = None THEN None ELSE fault.rec - fault.inj,
        detect  |-> IF fault.det = None THEN None ELSE fault.det - fault.inj,
        healed  |-> fault.healed,
        verdict |-> IF corr[Drill] = None THEN None ELSE corr[Drill].verdict]

KillClaim_NotFailed(rec) == rec # None /\ rec.verdict # "FAIL"   \* mutant: pending counts

\* "Zero data loss through a hard process kill"
KillClaim(rec) == rec # None /\ rec.verdict = "PASS"

\* The evidence table: every run that offered something.
Appendix ==
  [r \in {q \in Ended : fate[q].offered > 0} |->
     IF corr[r] = None THEN "pending" ELSE corr[r].verdict]

Document ==
  [offered  |-> SumFunction([r \in Ended |-> fate[r].offered]),
   acked    |-> SumFunction([r \in Ended |-> fate[r].acked]),
   landed   |-> SumFunction([r \in Checked |-> corr[r].landed]),
   lost     |-> SumFunction([r \in LossRuns |-> LossOf(r)]),
   dup      |-> SumFunction([r \in Checked |-> corr[r].excess]),
   best     |-> Best,
   recovery |-> Recovery,
   survived |-> KillClaim(Recovery),
   appendix |-> Appendix]

-----------------------------------------------------------------------------
(* Runs, checks and the drill. *)

Init ==
  /\ fate = [r \in Runs |-> None] /\ ghosts = [r \in Runs |-> 0]
  /\ corr = [r \in Runs |-> None]
  /\ injector = "idle" /\ probes = 0 /\ service = "up" /\ outage = 0 /\ clock = 0
  /\ fault = [inj |-> None, det |-> None, rec |-> None, healed |-> None]
  /\ doc = None

\* manifest.json and generator.json are written; runs follow one another.
EndRun(r, f) ==
  /\ fate[r] = None /\ \A q \in Runs : q < r => fate[q] # None
  /\ fate' = [fate EXCEPT ![r] = f]
  /\ UNCHANGED <<ghosts, corr, drillVars, doc>>

\* The collector commits a batch whose call the generator had given up on.
LateLanding(r) ==
  /\ r \in Ended /\ ghosts[r] < fate[r].ghost
  /\ ghosts' = [ghosts EXCEPT ![r] = @ + 1]
  /\ UNCHANGED <<fate, corr, drillVars, doc>>

\* validate-correctness.sh, also repeatedly; the file is overwritten.
Validate(r) ==
  /\ r \in Ended
  /\ corr' = [corr EXCEPT ![r] = Validation(fate[r], ghosts[r])]
  /\ UNCHANGED <<fate, ghosts, drillVars, doc>>

\* The fault is on record before the kill, which may fail: "|| true".
Inject(killed) ==
  /\ injector = "idle" /\ injector' = "detect"
  /\ \A q \in Runs : q < Drill => fate[q] # None
  /\ fault' = [fault EXCEPT !.inj = clock]
  /\ service' = IF killed THEN "down" ELSE "up"
  /\ UNCHANGED <<fate, ghosts, corr, probes, outage, clock, doc>>

Probe ==
  /\ clock' = clock + 1
  /\ outage' = IF service = "down" THEN outage + 1 ELSE outage
  /\ UNCHANGED <<fate, ghosts, corr, doc>>

\* The first probe without an answer, be it the service or ssh; or none.
Detect(answered) ==
  /\ injector = "detect" /\ Probe
  /\ answered => service = "up"
  /\ IF answered /\ probes + 1 < DetectProbes
     THEN probes' = probes + 1 /\ UNCHANGED <<injector, fault>>
     ELSE /\ injector' = "recover" /\ probes' = 0
          /\ fault' = [fault EXCEPT !.det = IF answered THEN None ELSE clock]
  /\ UNCHANGED service

Recover_Assumed(answered) ==    \* mutant: the end of the loop counts as recovery
  /\ injector = "recover" /\ Probe
  /\ answered => service = "up"
  /\ LET last == probes + 1 = RecoverProbes
     IN IF answered \/ last
        THEN /\ injector' = "over" /\ UNCHANGED probes
             /\ fault' = [fault EXCEPT !.rec = clock, !.healed = TRUE]
        ELSE probes' = probes + 1 /\ UNCHANGED <<injector, fault>>
  /\ UNCHANGED service

\* The first probe with an answer, or none; at HelpAt the drill starts the
\* service itself, and whatever comes back after that was not self-healed.
Recover(answered) ==
  /\ injector = "recover" /\ Probe
  /\ answered => service = "up"
  /\ LET last == probes + 1 = RecoverProbes
         helped == probes >= HelpAt \/ (probes + 1 = HelpAt /\ ~answered)
     IN IF answered \/ last
        THEN /\ injector' = "over" /\ UNCHANGED probes
             /\ fault' = [fault EXCEPT !.rec = IF answered THEN clock ELSE None,
                                       !.healed = ~helped]
        ELSE probes' = probes + 1 /\ UNCHANGED <<injector, fault>>
  /\ UNCHANGED service

\* The collector goes down again, or only now, of a signal sent before.
ServiceFails ==
  /\ injector # "idle" /\ service = "up" /\ service' = "down"
  /\ UNCHANGED <<fate, ghosts, corr, injector, probes, outage, clock, fault, doc>>

\* systemd, or the drill's own "systemctl start"; it may never come.
ServiceReturns ==
  /\ service = "down" /\ service' = "up"
  /\ UNCHANGED <<fate, ghosts, corr, injector, probes, outage, clock, fault, doc>>

Raises(rec) == KillClaim(rec) /\ rec.outage = None

\* The report is rebuilt.  It cannot format the outage of a drill that passed
\* and saw no recovery: build() raises and the old document stays.
Build ==
  /\ doc' = IF Raises(Recovery) THEN doc ELSE Document
  /\ UNCHANGED <<fate, ghosts, corr, drillVars>>

Next ==
  \/ \E r \in Runs : LateLanding(r) \/ Validate(r) \/ \E f \in Fates : EndRun(r, f)
  \/ \E b \in BOOLEAN : Inject(b) \/ Detect(b) \/ Recover(b)
  \/ ServiceFails \/ ServiceReturns \/ Build

Spec == Init /\ [][Next]_vars

-----------------------------------------------------------------------------
(* Properties. *)

\* The runs whose verdict the evidence table of document d gives.
Judged(d) == {r \in DOMAIN d.appendix : d.appendix[r] # "pending"}

\* Acked rows of a run that are lost and that no late row makes up for.
Missing(r) == IF fate[r].lost > ghosts[r] THEN fate[r].lost - ghosts[r] ELSE 0

\* What "with N records lost and M duplicated" (customer_report.py:171) is
\* worth at any later time, however many checks were repeated and whatever
\* landed late: it is about the runs the evidence table has a verdict of, it
\* invents no loss, M is exact, and it hides at most M rows that were lost and
\* have not been made up for.  It is no more than that: of pending runs it
\* says nothing, and a lost row that another late row makes up for is in
\* neither number, although the sentence goes on that every acknowledged
\* record was verified present after every run.
HeadlineIsBounded ==
  doc # None =>
    /\ doc.lost <= SumFunction([r \in Judged(doc) |-> fate[r].lost])
    /\ doc.dup = SumFunction([r \in Judged(doc) |-> fate[r].dup])
    /\ SumFunction([r \in Judged(doc) |-> Missing(r)]) <= doc.lost + doc.dup

\* "Sustained ingestion verified at N records/second with 100% delivery"
\* (customer_report.py:182): the run N is of was one level, lost no row but
\* those that late rows make up for, doubled none, and acked 99 % of what it
\* offered, also after the lake has moved on.  "100 %" is not what is asked.
BestIsEarned ==
  doc # None /\ doc.best # None =>
    LET f == fate[doc.best]
    IN f.levels <= 1 /\ f.dup = 0 /\ Missing(doc.best) = 0 /\ 100 * f.acked >= 99 * f.offered

\* "Zero data loss through a hard process kill" (customer_report.py:176) is
\* said only of a drill that was validated, lost no more than landed late and
\* doubled nothing, and with an outage to quote.
SurvivalIsEarned ==
  doc # None /\ doc.survived =>
    /\ doc.appendix[Drill] = "PASS" /\ doc.recovery.outage # None
    /\ fate[Drill].dup = 0 /\ fate[Drill].lost <= ghosts[Drill]

\* The outage the drill measures covers all the time the service was down by
\* then, also when it came and went, when ssh fails, when the fault was over
\* before a probe saw it, and when the drill had to start the service.
OutageCoversDowntime ==
  /\ fault.rec # None => fault.rec - fault.inj >= outage
  /\ doc # None /\ doc.recovery # None /\ doc.recovery.outage # None => doc.recovery.outage >= outage
=============================================================================
