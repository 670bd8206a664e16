----------------------- MODULE PipelineExporterProofs -----------------------
(***************************************************************************)
(* What is proved of the central exporter, for every set of modes and      *)
(* formats, every clock skew, age limit, interval and bound.               *)
(***************************************************************************)
EXTENDS PipelineExporter, TLAPS

LEMMA OlderIsAge == ASSUME NEW a \in Ages PROVE Older(a) \in Ages
  BY ExporterAssumption DEF Older, Ages

Program == epc \in Sources \cup {"sleep", "write"}
Samples == sample \in [Sources -> {"missing", "ok", "failed", "cached"}]
Flags   == scrapeOk \in [Sources -> {None, 0, 1}]
Gauges  ==
  /\ up \in [Roles -> {0, 1}] /\ tierUp \in [Tiers -> {None, 0, 1}]
  /\ major \in Cycles \cup {None} /\ majorSeen \in Cycles \cup {None}
Clocks  ==
  /\ due \in [Slow -> BOOLEAN]
  /\ pollAge \in Ages /\ tryAge \in [Slow -> Ages] /\ cacheAge \in [Slow -> Ages]
Held    == held \in Snapshots \cup {None}

LEMMA TypeParts ==
  /\ TypeOK <=> mode \in Modes /\ Program /\ Samples /\ Flags /\ Gauges /\ Clocks /\ Held
  /\ TypeOK' <=> /\ mode' \in Modes /\ Program' /\ Samples' /\ Flags'
                 /\ Gauges' /\ Clocks' /\ Held'
  BY DEF TypeOK, Program, Samples, Flags, Gauges, Clocks, Held

\* A recorded scrape moves on to another source or to the end of the poll.
LEMMA RecordTypes ==
  ASSUME NEW src \in Sources, NEW ok, Program, Samples, Flags, Record(src, ok)
  PROVE  Program' /\ Samples' /\ Flags'
<1>1. epc' = After(src)
  BY DEF Record, RecordAs
<1>2. Program'
  BY <1>1 DEF Program, After, Sources, Roles, Slow
<1>3. Samples'
  BY DEF Samples, Record, RecordAs
<1>4. Flags'
  BY DEF Flags, Record, RecordAs
<1> QED
  BY <1>2, <1>3, <1>4

LEMMA SourceNames ==
  /\ Roles \subseteq Sources /\ Slow \subseteq Sources
  /\ "compactor_major" \in Sources /\ "catalog" \in Sources
  BY DEF Sources, Roles, Slow

LEMMA MinorDownTypes ==
  ASSUME NEW r, Gauges PROVE MinorDown(r) \in [Tiers -> {None, 0, 1}]
  BY DEF Gauges, MinorDown, Tiers

\* However far a scrape gets, what it sets has the gauge's type.
LEMMA AfterTypes ==
  ASSUME NEW r \in Roles, NEW b \in Bodies \cup {None}, NEW n, NEW u, Gauges
  PROVE  /\ UpAfter(r, u, n) \in [Roles -> {0, 1}]
         /\ MajorAfter(r, b, n) \in Cycles \cup {None}
         /\ TierAfter(r, b, n) \in [Tiers -> {None, 0, 1}]
<1>1. b # None => b.major \in Cycles
  BY DEF Bodies
<1>2. UpAfter(r, u, n) \in [Roles -> {0, 1}]
  BY DEF Gauges, UpAfter
<1>3. MajorAfter(r, b, n) \in Cycles \cup {None}
  BY <1>1 DEF Gauges, MajorAfter
<1>4. TierAfter(r, b, n) \in [Tiers -> {None, 0, 1}]
  BY DEF Gauges, TierAfter, SetTier, Tiers
<1> QED
  BY <1>2, <1>3, <1>4

\* Every action keeps the types.
LEMMA TypeStep ==
  ASSUME TypeOK, [Next]_vars
  PROVE  TypeOK'
<1>0. /\ mode \in Modes /\ Program /\ Samples /\ Flags /\ Gauges /\ Clocks /\ Held
  BY TypeParts
<1>s. SUFFICES ASSUME Poll, UNCHANGED mode
               PROVE  Program' /\ Samples' /\ Flags' /\ Gauges' /\ Clocks' /\ Held'
  <2>1. CASE UNCHANGED vars
    BY <2>1 DEF TypeOK, vars, slowVars, gauges
  <2> QED
    BY <1>0, <2>1, TypeParts DEF Next
<1>1. CASE BeginPoll
  <2>1. Clocks'
    BY <1>0, <1>1, ExporterAssumption DEF BeginPoll, Clocks, Ages, Slow
  <2>2. Program' /\ Samples' /\ Flags' /\ Gauges' /\ Held'
    BY <1>0, <1>1 DEF BeginPoll, Program, Samples, Flags, Gauges, Held, Sources, Roles, gauges
  <2> QED
    BY <2>1, <2>2
<1>2. CASE ScrapeCatalog
  <2>1. PICK ok \in BOOLEAN : Record("catalog", ok)
    BY <1>2 DEF ScrapeCatalog
  <2>2. Program' /\ Samples' /\ Flags'
    BY <1>0, <2>1, RecordTypes, SourceNames
  <2>3. Gauges' /\ Clocks' /\ Held'
    BY <1>0, <1>2 DEF ScrapeCatalog, Gauges, Clocks, Held, slowVars
  <2> QED
    BY <2>2, <2>3
<1>3. CASE WriteSample
  <2>1. Clocks'
    BY <1>0, <1>3, ExporterAssumption DEF WriteSample, Clocks, Ages
  <2>2. Program' /\ Samples' /\ Flags' /\ Gauges' /\ Held'
    BY <1>0, <1>3 DEF WriteSample, Program, Samples, Flags, Gauges, Held, gauges
  <2> QED
    BY <2>1, <2>2
<1>4. CASE Tick
  <2>1. Clocks'
    BY <1>0, <1>4, OlderIsAge, ExporterAssumption DEF Tick, SlowOlder, Clocks, Ages
  <2>2. Held'
    <3>1. CASE held = None
      BY <1>4, <3>1 DEF Tick, HeldOlder, Held
    <3>2. CASE held # None
      <4>1. held' = [held EXCEPT !.age = Older(@)]
        BY <1>4, <3>2 DEF Tick, HeldOlder
      <4>2. held \in Snapshots /\ Older(held.age) \in Ages
        BY <1>0, <3>2, OlderIsAge DEF Held, Snapshots
      <4> QED
        BY <4>1, <4>2 DEF Held, Snapshots
    <3> QED
      BY <3>1, <3>2
  <2>3. Program' /\ Samples' /\ Flags' /\ Gauges'
    BY <1>0, <1>4 DEF Tick, Program, Samples, Flags, Gauges, gauges
  <2> QED
    BY <2>1, <2>2, <2>3
<1>5. ASSUME NEW b \in Bodies, NEW n \in Stages, ScrapeMajor(b, n)
      PROVE  Program' /\ Samples' /\ Flags' /\ Gauges' /\ Clocks' /\ Held'
  <2>1. Record("compactor_major", n = End)
    BY <1>5 DEF ScrapeMajor
  <2>2. Program' /\ Samples' /\ Flags'
    BY <1>0, <2>1, RecordTypes, SourceNames
  <2>3. b.major \in Cycles
    BY DEF Bodies
  <2>4. Gauges'
    BY <1>0, <1>5, <2>3 DEF ScrapeMajor, SetTier, Gauges, Tiers
  <2>5. Clocks' /\ Held'
    BY <1>0, <1>5 DEF ScrapeMajor, Clocks, Held, slowVars
  <2> QED
    BY <2>2, <2>4, <2>5
<1>6. ASSUME NEW s \in Slow, ScrapeSlow(s)
      PROVE  Program' /\ Samples' /\ Flags' /\ Gauges' /\ Clocks' /\ Held'
  <2>1. \E ok \in BOOLEAN : Record(s, ok)
    BY <1>6 DEF ScrapeSlow
  <2>2. Program' /\ Samples' /\ Flags'
    BY <1>0, <2>1, RecordTypes, SourceNames
  <2>3. Clocks'
    BY <1>0, <1>6, ExporterAssumption DEF ScrapeSlow, Clocks, Ages
  <2>4. Gauges' /\ Held'
    BY <1>0, <1>6 DEF ScrapeSlow, Gauges, Held
  <2> QED
    BY <2>2, <2>3, <2>4
<1>7. ASSUME NEW s \in Slow, ServeCached(s)
      PROVE  Program' /\ Samples' /\ Flags' /\ Gauges' /\ Clocks' /\ Held'
  <2>1. Program' /\ Samples'
    BY <1>0, <1>7 DEF ServeCached, Program, Samples, After, Sources, Roles, Slow
  <2>2. Flags' /\ Gauges' /\ Clocks' /\ Held'
    BY <1>0, <1>7 DEF ServeCached, Flags, Gauges, Clocks, Held, slowVars, gauges
  <2> QED
    BY <2>1, <2>2
<1>8. ASSUME NEW r \in Roles, NEW v \in Snapshots, ReadState(r, v)
      PROVE  Program' /\ Samples' /\ Flags' /\ Gauges' /\ Clocks' /\ Held'
  BY <1>0, <1>8 DEF ReadState, Program, Samples, Flags, Gauges, Clocks, Held, slowVars, gauges
<1>9. ASSUME NEW r \in Roles, NEW b \in Bodies \cup {None}, NEW n \in Stages,
             ScrapeHttp(r, b, n)
      PROVE  Program' /\ Samples' /\ Flags' /\ Gauges' /\ Clocks' /\ Held'
  <2>1. Record(r, n = End)
    BY <1>9 DEF ScrapeHttp
  <2>2. Program' /\ Samples' /\ Flags'
    BY <1>0, <2>1, RecordTypes, SourceNames
  <2>3. Gauges'
    BY <1>0, <1>9, AfterTypes DEF ScrapeHttp, Gauges
  <2>4. Clocks' /\ Held'
    BY <1>0, <1>9 DEF ScrapeHttp, Clocks, Held, slowVars
  <2> QED
    BY <2>2, <2>3, <2>4
<1>10. ASSUME NEW r \in Roles, ReadFails(r)
       PROVE  Program' /\ Samples' /\ Flags' /\ Gauges' /\ Clocks' /\ Held'
  <2>1. Program' /\ Samples' /\ Flags'
    BY <1>0, <1>10, RecordTypes, SourceNames DEF ReadFails
  <2>2. Gauges'
    BY <1>0, <1>10, MinorDownTypes DEF ReadFails, Gauges
  <2>3. Clocks' /\ Held'
    BY <1>0, <1>10 DEF ReadFails, Clocks, Held, slowVars
  <2> QED
    BY <2>1, <2>2, <2>3
<1>11. ASSUME NEW r \in Roles, Evaluate(r)
       PROVE  Program' /\ Samples' /\ Flags' /\ Gauges' /\ Clocks' /\ Held'
  <2>1. PICK n \in Stages : EvaluateWithin(r, MaxStateAge, n)
    BY <1>11 DEF Evaluate
  <2>2. Record(r, n = End)
    BY <2>1 DEF EvaluateWithin
  <2>3. Program' /\ Samples' /\ Flags'
    BY <1>0, <2>2, RecordTypes, SourceNames
  <2>4. held.body \in Bodies \cup {None}
    BY <1>0, <2>1 DEF EvaluateWithin, Held, Snapshots
  <2>5. Gauges'
    BY <1>0, <2>1, <2>4, AfterTypes, MinorDownTypes DEF EvaluateWithin, Gauges
  <2>6. Clocks' /\ Held'
    BY <1>0, <2>1 DEF EvaluateWithin, Clocks, Held, slowVars
  <2> QED
    BY <2>3, <2>5, <2>6
<1>12. CASE MajorFails
  <2>1. Program' /\ Samples' /\ Flags'
    BY <1>0, <1>12, RecordTypes, SourceNames DEF MajorFails
  <2>2. Gauges' /\ Clocks' /\ Held'
    BY <1>0, <1>12 DEF MajorFails, Gauges, Clocks, Held, Tiers, slowVars
  <2> QED
    BY <2>1, <2>2
<1> QED
  BY <1>s, <1>1, <1>2, <1>3, <1>4, <1>5, <1>6, <1>7, <1>8, <1>9, <1>10, <1>11, <1>12
  DEF Poll, PollRest

\* Every variable of the exporter keeps its type, whatever is scraped.
THEOREM ExporterTypeCorrect == Spec => []TypeOK
<1>1. Init => TypeOK
  BY ExporterAssumption DEF Init, TypeOK, Roles, Tiers, Slow, Sources, Ages
<1> QED
  BY <1>1, TypeStep, PTL DEF Spec

-----------------------------------------------------------------------------
(* The sample.  The sources before the one being polled have their entry.  *)

DoneBefore(e) ==
  {s \in Sources :
     \/ s = "collector" /\ e \notin {"sleep", "collector"}
     \/ s = "compactor" /\ e \notin {"sleep", "collector", "compactor"}
     \/ s = "compactor_major" /\ Split /\ e \in {"catalog", "watermark", "s3", "write"}
     \/ s = "catalog" /\ e \in {"watermark", "s3", "write"}
     \/ s = "watermark" /\ e \in {"s3", "write"}
     \/ s = "s3" /\ e = "write"}

Recorded(s) ==
  /\ sample[s] # "missing"
  /\ sample[s] = "ok" => scrapeOk[s] = 1
  /\ sample[s] = "failed" => scrapeOk[s] = 0

ProgressInv == \A s \in DoneBefore(epc) : Recorded(s)

\* A source's entry is written before the poll goes on to the next.
LEMMA ProgressStep ==
  ASSUME TypeOK, ProgressInv, [Next]_vars
  PROVE  ProgressInv'
<1>1. CASE BeginPoll /\ UNCHANGED mode
  BY <1>1 DEF TypeOK, ProgressInv, DoneBefore, Recorded, Roles, Slow, Sources, gauges, slowVars, BeginPoll
<1>2. CASE ScrapeCatalog /\ UNCHANGED mode
  BY <1>2 DEF TypeOK, ProgressInv, DoneBefore, Recorded, Roles, Slow, Sources, gauges, slowVars, ScrapeCatalog, Record, RecordAs, After
<1>3. CASE WriteSample /\ UNCHANGED mode
  BY <1>3 DEF TypeOK, ProgressInv, DoneBefore, Recorded, Roles, Slow, Sources, gauges, slowVars, WriteSample
<1>4. CASE Tick /\ UNCHANGED mode
  BY <1>4 DEF TypeOK, ProgressInv, DoneBefore, Recorded, Roles, Slow, Sources, gauges, slowVars, Tick, HeldOlder, SlowOlder
<1>5. ASSUME NEW b \in Bodies, NEW n \in Stages, ScrapeMajor(b, n), UNCHANGED mode
      PROVE  ProgressInv'
  BY <1>5 DEF TypeOK, ProgressInv, DoneBefore, Recorded, Roles, Slow, Sources, gauges, slowVars, ScrapeMajor, SetTier, Record, RecordAs, After
<1>6. ASSUME NEW s \in Slow, ScrapeSlow(s), UNCHANGED mode
      PROVE  ProgressInv'
  BY <1>6 DEF TypeOK, ProgressInv, DoneBefore, Recorded, Roles, Slow, Sources, gauges, slowVars, ScrapeSlow, Record, RecordAs, After
<1>7. ASSUME NEW s \in Slow, ServeCached(s), UNCHANGED mode
      PROVE  ProgressInv'
  BY <1>7 DEF TypeOK, ProgressInv, DoneBefore, Recorded, Roles, Slow, Sources, gauges, slowVars, ServeCached, After
<1>8. ASSUME NEW r \in Roles, NEW v \in Snapshots, ReadState(r, v), UNCHANGED mode
      PROVE  ProgressInv'
  BY <1>8 DEF TypeOK, ProgressInv, DoneBefore, Recorded, Roles, Slow, Sources, gauges, slowVars, ReadState, Record, RecordAs, After
<1>9. ASSUME NEW r \in Roles, NEW b \in Bodies \cup {None}, NEW n \in Stages,
             ScrapeHttp(r, b, n), UNCHANGED mode
      PROVE  ProgressInv'
  BY <1>9 DEF TypeOK, ProgressInv, DoneBefore, Recorded, Roles, Slow, Sources, gauges, slowVars, ScrapeHttp, UpAfter, MajorAfter, TierAfter, Owned, SetTier, Record, RecordAs, After
<1>10. ASSUME NEW r \in Roles, ReadFails(r), UNCHANGED mode
      PROVE  ProgressInv'
  BY <1>10 DEF TypeOK, ProgressInv, DoneBefore, Recorded, Roles, Slow, Sources, gauges, slowVars, ReadFails, MinorDown, Record, RecordAs, After
<1>11. ASSUME NEW r \in Roles, Evaluate(r), UNCHANGED mode
      PROVE  ProgressInv'
  BY <1>11 DEF TypeOK, ProgressInv, DoneBefore, Recorded, Roles, Slow, Sources, gauges, slowVars, Evaluate, EvaluateWithin, UpAfter, MajorAfter, TierAfter, Owned, SetTier, MinorDown, Record, RecordAs, After
<1>12. CASE MajorFails /\ UNCHANGED mode
  BY <1>12 DEF TypeOK, ProgressInv, DoneBefore, Recorded, Roles, Slow, Sources, gauges, slowVars, MajorFails, Record, RecordAs, After
<1>13. CASE UNCHANGED vars
  BY <1>13 DEF TypeOK, ProgressInv, DoneBefore, Recorded, Roles, Slow, Sources, gauges, slowVars, vars, slowVars, gauges
<1> QED
  BY <1>1, <1>2, <1>3, <1>4, <1>5, <1>6, <1>7, <1>8, <1>9, <1>10, <1>11, <1>12, <1>13
  DEF Next, Poll, PollRest

\* A failed scrape is a recorded failure: when the sample is written no source
\* is missing from it, and bench_scrape_ok tells the same.
THEOREM SamplesAreComplete == Spec => []SampleIsComplete
<1>1. Init => TypeOK /\ ProgressInv
  BY ExporterAssumption
  DEF Init, TypeOK, ProgressInv, DoneBefore, Roles, Tiers, Slow, Sources, Ages
<1>2. ProgressInv => SampleIsComplete
  BY DEF ProgressInv, DoneBefore, Recorded, SampleIsComplete, Sources, Roles, Slow
<1> QED
  BY <1>1, <1>2, TypeStep, ProgressStep, PTL DEF Spec

-----------------------------------------------------------------------------
(* The major counter and the tiers.                                        *)

\* Only the scrape of the major service moves the counter of split tiers.
LEMMA OwnerStep ==
  ASSUME TypeOK, MajorIsOwned, [Next]_vars
  PROVE  MajorIsOwned'
<1>1. CASE BeginPoll /\ UNCHANGED mode
  BY <1>1 DEF TypeOK, MajorIsOwned, Bodies, Snapshots, Roles, gauges, slowVars, BeginPoll
<1>2. CASE ScrapeCatalog /\ UNCHANGED mode
  BY <1>2 DEF TypeOK, MajorIsOwned, Bodies, Snapshots, Roles, gauges, slowVars, ScrapeCatalog, Record, RecordAs, After
<1>3. CASE WriteSample /\ UNCHANGED mode
  BY <1>3 DEF TypeOK, MajorIsOwned, Bodies, Snapshots, Roles, gauges, slowVars, WriteSample
<1>4. CASE Tick /\ UNCHANGED mode
  BY <1>4 DEF TypeOK, MajorIsOwned, Bodies, Snapshots, Roles, gauges, slowVars, Tick, HeldOlder, SlowOlder
<1>5. ASSUME NEW b \in Bodies, NEW n \in Stages, ScrapeMajor(b, n), UNCHANGED mode
      PROVE  MajorIsOwned'
  BY <1>5 DEF TypeOK, MajorIsOwned, Bodies, Snapshots, Roles, gauges, slowVars, ScrapeMajor, SetTier, Record, RecordAs, After
<1>6. ASSUME NEW s \in Slow, ScrapeSlow(s), UNCHANGED mode
      PROVE  MajorIsOwned'
  BY <1>6 DEF TypeOK, MajorIsOwned, Bodies, Snapshots, Roles, gauges, slowVars, ScrapeSlow, Record, RecordAs, After
<1>7. ASSUME NEW s \in Slow, ServeCached(s), UNCHANGED mode
      PROVE  MajorIsOwned'
  BY <1>7 DEF TypeOK, MajorIsOwned, Bodies, Snapshots, Roles, gauges, slowVars, ServeCached, After
<1>8. ASSUME NEW r \in Roles, NEW v \in Snapshots, ReadState(r, v), UNCHANGED mode
      PROVE  MajorIsOwned'
  BY <1>8 DEF TypeOK, MajorIsOwned, Bodies, Snapshots, Roles, gauges, slowVars, ReadState, Record, RecordAs, After
<1>9. ASSUME NEW r \in Roles, NEW b \in Bodies \cup {None}, NEW n \in Stages,
             ScrapeHttp(r, b, n), UNCHANGED mode
      PROVE  MajorIsOwned'
  BY <1>9 DEF TypeOK, MajorIsOwned, Bodies, Snapshots, Roles, gauges, slowVars, ScrapeHttp, UpAfter, MajorAfter, TierAfter, Owned, SetTier, Record, RecordAs, After
<1>10. ASSUME NEW r \in Roles, ReadFails(r), UNCHANGED mode
      PROVE  MajorIsOwned'
  BY <1>10 DEF TypeOK, MajorIsOwned, Bodies, Snapshots, Roles, gauges, slowVars, ReadFails, MinorDown, Record, RecordAs, After
<1>11. ASSUME NEW r \in Roles, Evaluate(r), UNCHANGED mode
      PROVE  MajorIsOwned'
  BY <1>11 DEF TypeOK, MajorIsOwned, Bodies, Snapshots, Roles, gauges, slowVars, Evaluate, EvaluateWithin, UpAfter, MajorAfter, TierAfter, Owned, SetTier, MinorDown, Record, RecordAs, After
<1>12. CASE MajorFails /\ UNCHANGED mode
  BY <1>12 DEF TypeOK, MajorIsOwned, Bodies, Snapshots, Roles, gauges, slowVars, MajorFails, Record, RecordAs, After
<1>13. CASE UNCHANGED vars
  BY <1>13 DEF TypeOK, MajorIsOwned, Bodies, Snapshots, Roles, gauges, slowVars, vars, slowVars, gauges
<1> QED
  BY <1>1, <1>2, <1>3, <1>4, <1>5, <1>6, <1>7, <1>8, <1>9, <1>10, <1>11, <1>12, <1>13
  DEF Next, Poll, PollRest

\* With split tiers the major compaction counter never flaps to what the
\* minor service says of it (_set_tier_metrics and the ownership of majors).
THEOREM MajorStaysOwned == Spec => []MajorIsOwned
<1>1. Init => TypeOK /\ MajorIsOwned
  BY ExporterAssumption
  DEF Init, TypeOK, MajorIsOwned, Roles, Tiers, Slow, Sources, Ages
<1> QED
  BY <1>1, TypeStep, OwnerStep, PTL DEF Spec

\* In ssh mode a scrape of the compactor that fails sets the tier down last.
LEMMA TierStep ==
  ASSUME TypeOK, FailedMinorReadsDown, [Next]_vars
  PROVE  FailedMinorReadsDown'
<1>1. CASE BeginPoll /\ UNCHANGED mode
  BY <1>1 DEF TypeOK, FailedMinorReadsDown, Roles, Tiers, Slow, Sources, gauges, slowVars, BeginPoll
<1>2. CASE ScrapeCatalog /\ UNCHANGED mode
  BY <1>2 DEF TypeOK, FailedMinorReadsDown, Roles, Tiers, Slow, Sources, gauges, slowVars, ScrapeCatalog, Record, RecordAs, After
<1>3. CASE WriteSample /\ UNCHANGED mode
  BY <1>3 DEF TypeOK, FailedMinorReadsDown, Roles, Tiers, Slow, Sources, gauges, slowVars, WriteSample
<1>4. CASE Tick /\ UNCHANGED mode
  BY <1>4 DEF TypeOK, FailedMinorReadsDown, Roles, Tiers, Slow, Sources, gauges, slowVars, Tick, HeldOlder, SlowOlder
<1>5. ASSUME NEW b \in Bodies, NEW n \in Stages, ScrapeMajor(b, n), UNCHANGED mode
      PROVE  FailedMinorReadsDown'
  BY <1>5 DEF TypeOK, FailedMinorReadsDown, Roles, Tiers, Slow, Sources, gauges, slowVars, ScrapeMajor, SetTier, Record, RecordAs, After
<1>6. ASSUME NEW s \in Slow, ScrapeSlow(s), UNCHANGED mode
      PROVE  FailedMinorReadsDown'
  BY <1>6 DEF TypeOK, FailedMinorReadsDown, Roles, Tiers, Slow, Sources, gauges, slowVars, ScrapeSlow, Record, RecordAs, After
<1>7. ASSUME NEW s \in Slow, ServeCached(s), UNCHANGED mode
      PROVE  FailedMinorReadsDown'
  BY <1>7 DEF TypeOK, FailedMinorReadsDown, Roles, Tiers, Slow, Sources, gauges, slowVars, ServeCached, After
<1>8. ASSUME NEW r \in Roles, NEW v \in Snapshots, ReadState(r, v), UNCHANGED mode
      PROVE  FailedMinorReadsDown'
  BY <1>8 DEF TypeOK, FailedMinorReadsDown, Roles, Tiers, Slow, Sources, gauges, slowVars, ReadState, Record, RecordAs, After
<1>9. ASSUME NEW r \in Roles, NEW b \in Bodies \cup {None}, NEW n \in Stages,
             ScrapeHttp(r, b, n), UNCHANGED mode
      PROVE  FailedMinorReadsDown'
  BY <1>9 DEF TypeOK, FailedMinorReadsDown, Roles, Tiers, Slow, Sources, gauges, slowVars, ScrapeHttp, UpAfter, MajorAfter, TierAfter, Owned, SetTier, Record, RecordAs, After
<1>10. ASSUME NEW r \in Roles, ReadFails(r), UNCHANGED mode
      PROVE  FailedMinorReadsDown'
  BY <1>10 DEF TypeOK, FailedMinorReadsDown, Roles, Tiers, Slow, Sources, gauges, slowVars, ReadFails, MinorDown, Record, RecordAs, After
<1>11. ASSUME NEW r \in Roles, Evaluate(r), UNCHANGED mode
      PROVE  FailedMinorReadsDown'
  BY <1>11 DEF TypeOK, FailedMinorReadsDown, Roles, Tiers, Slow, Sources, gauges, slowVars, Evaluate, EvaluateWithin, UpAfter, MajorAfter, TierAfter, Owned, SetTier, MinorDown, Record, RecordAs, After
<1>12. CASE MajorFails /\ UNCHANGED mode
  BY <1>12 DEF TypeOK, FailedMinorReadsDown, Roles, Tiers, Slow, Sources, gauges, slowVars, MajorFails, Record, RecordAs, After
<1>13. CASE UNCHANGED vars
  BY <1>13 DEF TypeOK, FailedMinorReadsDown, Roles, Tiers, Slow, Sources, gauges, slowVars, vars, slowVars, gauges
<1> QED
  BY <1>1, <1>2, <1>3, <1>4, <1>5, <1>6, <1>7, <1>8, <1>9, <1>10, <1>11, <1>12, <1>13
  DEF Next, Poll, PollRest

\* In ssh mode tier_up of the minor tier is 0 from a failed scrape of the
\* compactor until a good one, wherever the scrape failed.
THEOREM FailedMinorStaysDown == Spec => []FailedMinorReadsDown
<1>1. Init => TypeOK /\ FailedMinorReadsDown
  BY ExporterAssumption
  DEF Init, TypeOK, FailedMinorReadsDown, Roles, Tiers, Slow, Sources, Ages
<1> QED
  BY <1>1, TypeStep, TierStep, PTL DEF Spec

-----------------------------------------------------------------------------
(* The slow sources.  A try that fails leaves a cached value that is older *)
(* than the try, and bench_scrape_ok at 0 until one succeeds.              *)

CacheInv == \A s \in Slow : scrapeOk[s] = 0 \/ cacheAge[s] <= tryAge[s]

\* A value is read no earlier than its poll began, and a failure is flagged.
LEMMA CacheStep ==
  ASSUME TypeOK, CacheInv, [Next]_vars
  PROVE  CacheInv'
<1>1. CASE BeginPoll /\ UNCHANGED mode
  BY <1>1, ExporterAssumption DEF TypeOK, CacheInv, Roles, Slow, Sources, Ages, Older, gauges, slowVars, BeginPoll
<1>2. CASE ScrapeCatalog /\ UNCHANGED mode
  BY <1>2, ExporterAssumption DEF TypeOK, CacheInv, Roles, Slow, Sources, Ages, Older, gauges, slowVars, ScrapeCatalog, Record, RecordAs, After
<1>3. CASE WriteSample /\ UNCHANGED mode
  BY <1>3, ExporterAssumption DEF TypeOK, CacheInv, Roles, Slow, Sources, Ages, Older, gauges, slowVars, WriteSample
<1>4. CASE Tick /\ UNCHANGED mode
  BY <1>4, ExporterAssumption DEF TypeOK, CacheInv, Roles, Slow, Sources, Ages, Older, gauges, slowVars, Tick, HeldOlder, SlowOlder
<1>5. ASSUME NEW b \in Bodies, NEW n \in Stages, ScrapeMajor(b, n), UNCHANGED mode
      PROVE  CacheInv'
  BY <1>5, ExporterAssumption DEF TypeOK, CacheInv, Roles, Slow, Sources, Ages, Older, gauges, slowVars, ScrapeMajor, SetTier, Record, RecordAs, After
<1>6. ASSUME NEW s \in Slow, ScrapeSlow(s), UNCHANGED mode
      PROVE  CacheInv'
  BY <1>6, ExporterAssumption DEF TypeOK, CacheInv, Roles, Slow, Sources, Ages, Older, gauges, slowVars, ScrapeSlow, Record, RecordAs, After
<1>7. ASSUME NEW s \in Slow, ServeCached(s), UNCHANGED mode
      PROVE  CacheInv'
  BY <1>7, ExporterAssumption DEF TypeOK, CacheInv, Roles, Slow, Sources, Ages, Older, gauges, slowVars, ServeCached, After
<1>8. ASSUME NEW r \in Roles, NEW v \in Snapshots, ReadState(r, v), UNCHANGED mode
      PROVE  CacheInv'
  BY <1>8, ExporterAssumption DEF TypeOK, CacheInv, Roles, Slow, Sources, Ages, Older, gauges, slowVars, ReadState, Record, RecordAs, After
<1>9. ASSUME NEW r \in Roles, NEW b \in Bodies \cup {None}, NEW n \in Stages,
             ScrapeHttp(r, b, n), UNCHANGED mode
      PROVE  CacheInv'
  BY <1>9, ExporterAssumption DEF TypeOK, CacheInv, Roles, Slow, Sources, Ages, Older, gauges, slowVars, ScrapeHttp, UpAfter, MajorAfter, TierAfter, Owned, SetTier, Record, RecordAs, After
<1>10. ASSUME NEW r \in Roles, ReadFails(r), UNCHANGED mode
      PROVE  CacheInv'
  BY <1>10, ExporterAssumption DEF TypeOK, CacheInv, Roles, Slow, Sources, Ages, Older, gauges, slowVars, ReadFails, MinorDown, Record, RecordAs, After
<1>11. ASSUME NEW r \in Roles, Evaluate(r), UNCHANGED mode
      PROVE  CacheInv'
  BY <1>11, ExporterAssumption DEF TypeOK, CacheInv, Roles, Slow, Sources, Ages, Older, gauges, slowVars, Evaluate, EvaluateWithin, UpAfter, MajorAfter, TierAfter, Owned, SetTier, MinorDown, Record, RecordAs, After
<1>12. CASE MajorFails /\ UNCHANGED mode
  BY <1>12 DEF TypeOK, CacheInv, Roles, Slow, Sources, Ages, Older, gauges, slowVars, MajorFails, Record, RecordAs, After
<1>13. CASE UNCHANGED vars
  BY <1>13 DEF TypeOK, CacheInv, Roles, Slow, Sources, Ages, Older, gauges, slowVars, vars, slowVars, gauges
<1> QED
  BY <1>1, <1>2, <1>3, <1>4, <1>5, <1>6, <1>7, <1>8, <1>9, <1>10, <1>11, <1>12, <1>13
  DEF Next, Poll, PollRest

\* A poll that is going to serve a value older than its interval does so only
\* under bench_scrape_ok = 0.
THEOREM StaleValuesAreFlagged == Spec => StaleValueIsFlagged
<1> DEFINE Flagged == epc = "sleep" /\ epc' # "sleep" =>
                        \A s \in Slow : due'[s] \/ cacheAge[s] < Interval \/ scrapeOk[s] = 0
<1>1. Init => TypeOK /\ CacheInv
  BY ExporterAssumption
  DEF Init, TypeOK, CacheInv, Roles, Tiers, Slow, Sources, Ages
<1>2. ASSUME TypeOK, CacheInv, [Next]_vars
      PROVE  [Flagged]_vars
  <2>1. SUFFICES ASSUME epc = "sleep", epc' # "sleep", Next
                 PROVE  \A s \in Slow : due'[s] \/ cacheAge[s] < Interval \/ scrapeOk[s] = 0
    BY <1>2
  <2>2. BeginPoll
    <3>1. ~(ScrapeCatalog \/ MajorFails \/ WriteSample \/ Tick)
      BY <2>1 DEF ScrapeCatalog, MajorFails, WriteSample, Tick
    <3>2. \A b, n : ~ScrapeMajor(b, n)
      BY <2>1 DEF ScrapeMajor
    <3>3. \A s \in Slow : ~(ScrapeSlow(s) \/ ServeCached(s))
      BY <2>1 DEF ScrapeSlow, ServeCached, Slow
    <3>4. \A r \in Roles :
            /\ \A v : ~ReadState(r, v) /\ \A n : ~ScrapeHttp(r, v, n)
            /\ ~ReadFails(r) /\ ~Evaluate(r)
      BY <2>1 DEF ReadState, ScrapeHttp, ReadFails, Evaluate, EvaluateWithin, Roles
    <3> QED
      BY <2>1, <3>1, <3>2, <3>3, <3>4 DEF Next, Poll, PollRest
  <2>3. TAKE s \in Slow
  <2>4. due'[s] = (tryAge[s] >= Interval)
    BY <2>2, Zenon DEF BeginPoll
  <2>5. tryAge[s] \in Nat /\ cacheAge[s] \in Nat /\ Interval \in Nat
    BY <1>2, ExporterAssumption DEF TypeOK, Ages
  <2>6. scrapeOk[s] = 0 \/ cacheAge[s] <= tryAge[s]
    BY <1>2 DEF CacheInv
  <2>7. CASE tryAge[s] >= Interval
    BY <2>4, <2>7, Zenon
  <2>8. CASE ~(tryAge[s] >= Interval)
    <3>1. cacheAge[s] < Interval \/ scrapeOk[s] = 0
      BY <2>5, <2>6, <2>8
    <3> QED
      BY <3>1, Zenon
  <2> QED
    BY <2>7, <2>8, Zenon
<1> QED
  BY <1>1, <1>2, TypeStep, CacheStep, PTL DEF Spec, StaleValueIsFlagged

=============================================================================
