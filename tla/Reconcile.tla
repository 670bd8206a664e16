----------------------------- MODULE Reconcile -----------------------------
(***************************************************************************)
(* The correctness check of bench/validate_correctness.py, run against a   *)
(* lake that other actors keep writing.                                    *)
(*                                                                         *)
(* The collector, the lake and the compactor are not in the repository.    *)
(* They are modelled from what the repository relies on: a request is      *)
(* committed with its watermark in one transaction and acked after that.   *)
(* Faults names what may go wrong with them, which is what the check is    *)
(* there to find.  The generator appears as the fate of each row it sent   *)
(* and as the manifest it writes (module LoadGen has the detail).          *)
(*                                                                         *)
(* The check runs one query after another, each on the data of its own     *)
(* moment: one action per query.                                           *)
(***************************************************************************)
EXTENDS Integers, FiniteSets

CONSTANTS
  NumRows,      \* bound: rows the generator may offer
  MaxCopies,    \* bound: copies of one row in the table
  MaxForeign,   \* bound: rows of other generators in the time window
  MaxDamage,    \* bound: how often the compactor or the storage goes wrong
  Faults,       \* which faults of the collector and the compactor happen
  Corrupted,    \* a body that no row was sent with
  None          \* Python's None

FaultNames == {"ackLost", "late", "lose", "duplicate", "corrupt", "misalign",
               "queryFails"}

ASSUME BoundAssumption ==
  /\ NumRows \in Nat /\ MaxCopies \in Nat \ {0} /\ MaxForeign \in Nat
  /\ MaxDamage \in Nat /\ Faults \subseteq FaultNames
  /\ Corrupted \notin Int /\ None \notin Int /\ None # "pass"

Rows   == 0 .. NumRows - 1
Bodies == Rows \cup {Corrupted}

\* A row of the table that carries this run's gen_id: its bench.seq, which
\* copy of it this is, its body (row s was sent with body s; it stands for
\* severity_text too), and whether any column that the check does not sum,
\* the timestamp or another attribute, is still as it was sent.
LakeRow == [seq : Rows, copy : 1..MaxCopies, body : Bodies,
            other : {"sent", "changed"}]

VARIABLES
  phase,     \* "load", "settled", the query the check is at, or "report"
  offered,   \* rows offered so far: 0 .. offered-1
  client,    \* what the generator knows of each row
  server,    \* what the collector has done with each row
  lake,      \* the rows of this run in the table
  damage,    \* how often the table was damaged
  foreign,   \* how many other rows the time window holds
  wm,        \* the sum of row_count over the watermark table
  manifest,  \* manifest.json, or None while the generator runs
  lastEmpty, \* did the last step of the run offer nothing?
  result,    \* the result the check is filling in
  baseline,  \* the checksums of the first check once a second one runs
  before     \* history: the lake those checksums were taken of

vars == <<phase, offered, client, server, lake, damage, foreign, wm,
          manifest, lastEmpty, result, baseline, before>>

runVars   == <<offered, client, manifest, lastEmpty>>
lakeVars  == <<server, lake, damage, foreign, wm>>
checkVars == <<phase, result, baseline, before>>

NoResult ==
  [landed |-> 0, inWindow |-> 0, dups |-> 0, unaccounted |-> 0,
   watermark |-> None, sums |-> None, verdict |-> None]

Acked      == {s \in Rows : client[s] = "acked"}
Landed     == {r.seq : r \in lake}
Committed  == {s \in Rows : server[s] = "committed"}
Duplicated == {s \in Rows : \E q, r \in lake : q # r /\ q.seq = s /\ r.seq = s}

Init ==
  /\ phase = "load" /\ offered = 0
  /\ client = [s \in Rows |-> "unsent"] /\ server = [s \in Rows |-> "idle"]
  /\ lake = {} /\ damage = 0 /\ foreign = 0 /\ wm = 0
  /\ manifest = None /\ lastEmpty = FALSE
  /\ result = NoResult /\ baseline = None /\ before = {}

-----------------------------------------------------------------------------
(* The run: the generator, and the collector it talks to                   *)

Offer ==
  /\ phase = "load" /\ offered < NumRows
  /\ offered' = offered + 1
  /\ client' = [client EXCEPT ![offered] = "waiting"]
  /\ server' = [server EXCEPT ![offered] = "received"]
  /\ UNCHANGED <<manifest, lastEmpty, lake, damage, foreign, wm, checkVars>>

\* The rows and the watermark are committed in one transaction, whether or
\* not the client is still waiting.
Commit(s) ==
  /\ server[s] = "received"
  /\ server' = [server EXCEPT ![s] = "committed"]
  /\ lake' = lake \cup {[seq |-> s, copy |-> 1, body |-> s, other |-> "sent"]}
  /\ wm' = wm + 1
  /\ UNCHANGED <<runVars, damage, foreign, checkVars>>

\* The call for row s ends; the collector will do nothing more about it.
Reply(s, from, to, fate) ==
  /\ phase = "load" /\ client[s] = "waiting" /\ server[s] = from
  /\ client' = [client EXCEPT ![s] = fate]
  /\ server' = [server EXCEPT ![s] = to]
  /\ UNCHANGED <<offered, manifest, lastEmpty, lake, damage, foreign, wm,
                 checkVars>>

Ack(s)         == Reply(s, "committed", "committed", "acked")
Reject(s)      == Reply(s, "received", "dropped", "rejected")
Unavailable(s) == Reply(s, "received", "dropped", "failed")
AckLost(s)     == "ackLost" \in Faults /\ Reply(s, "received", "dropped", "acked")

\* DEADLINE_EXCEEDED, or a worker that stop() did not wait for: the client
\* no longer waits, the collector goes on.
Late(s) ==
  /\ "late" \in Faults
  /\ phase = "load" /\ client[s] = "waiting"
  /\ client' = [client EXCEPT ![s] = "failed"]
  /\ UNCHANGED <<offered, manifest, lastEmpty, lakeVars, checkVars>>

ForeignCommit ==
  /\ foreign < MaxForeign
  /\ foreign' = foreign + 1 /\ wm' = wm + 1
  /\ UNCHANGED <<runVars, server, lake, damage, checkVars>>

Total(fate) == Cardinality({s \in Rows : client[s] = fate})

\* main() writes the manifest.  The range ends at max(seq_start, next_seq-1)
\* of the last step, and an empty last step starts at next_seq.
WriteManifest ==
  /\ phase = "load" /\ \A s \in Rows : client[s] # "waiting"
  /\ phase' = "settled"
  /\ lastEmpty' \in {e \in BOOLEAN : offered = 0 => e}
  /\ manifest' = [accepted |-> Total("acked"), rejected |-> Total("rejected"),
                  offered |-> offered, seq_min |-> 0,
                  seq_max |-> IF lastEmpty' THEN offered ELSE offered - 1]
  /\ UNCHANGED <<offered, client, lakeVars, result, baseline, before>>

-----------------------------------------------------------------------------
(* The compactor and the storage, when they go wrong between two checks    *)

Damage(fault, newLake) ==
  /\ phase = "settled" /\ fault \in Faults /\ damage < MaxDamage
  /\ damage' = damage + 1
  /\ lake' = newLake
  /\ UNCHANGED <<runVars, server, foreign, wm, checkVars>>

Lose(r)      == Damage("lose", lake \ {r})
Duplicate(r) == /\ r.copy < MaxCopies
                /\ \A q \in lake : q.seq = r.seq => q.copy <= r.copy
                /\ Damage("duplicate", lake \cup {[r EXCEPT !.copy = @ + 1]})
Corrupt(r)   == \E x \in {[r EXCEPT !.body = Corrupted],
                          [r EXCEPT !.other = "changed"]} \ {r} :
                  Damage("corrupt", (lake \ {r}) \cup {x})

\* A merge that puts the values of one column back in another order.
Misalign(q, r) ==
  /\ q.body # r.body
  /\ Damage("misalign", (lake \ {q, r}) \cup {[q EXCEPT !.body = r.body],
                                              [r EXCEPT !.body = q.body]})

-----------------------------------------------------------------------------
(* validate(): one action per query                                        *)

Query(from, to, answer) ==
  /\ phase = from
  /\ phase' = to
  /\ result' = answer
  /\ UNCHANGED <<runVars, lakeVars, baseline, before>>

CountLanded_Window ==    \* mutant: everything in the time window is ours
  Query("settled", "window",
        [NoResult EXCEPT !.landed = Cardinality(lake) + foreign])

CountLanded ==
  Query("settled", "window", [NoResult EXCEPT !.landed = Cardinality(lake)])

CountWindow ==
  Query("window", "dups",
        [result EXCEPT !.inWindow = Cardinality(lake) + foreign])

CountDuplicates ==
  Query("dups", "distinct", [result EXCEPT !.dups = Cardinality(Duplicated)])

Excess(n) == IF n > 0 THEN n ELSE 0

\* Missing sequence numbers beyond the unacked budget, offered - accepted.
Unaccounted ==
  Excess(Excess(manifest.seq_max - manifest.seq_min + 1)
         - Cardinality(Landed) - Excess(manifest.offered - manifest.accepted))

CountDistinct ==
  Query("distinct", "watermark", [result EXCEPT !.unaccounted = Unaccounted])

WatermarkAgrees_AtLeast == wm >= result.inWindow    \* mutant

WatermarkAgrees == wm = result.inWindow

SumWatermark ==
  \/ Query("watermark", "sums",
           [result EXCEPT !.watermark = IF WatermarkAgrees THEN "pass"
                                        ELSE "fail"])
  \/ "queryFails" \in Faults /\ Query("watermark", "sums", result)

Checksums_NoBody ==    \* mutant: the body column is not summed
  [seq |-> [s \in Rows |-> Cardinality({r \in lake : r.seq = s})]]

\* The sum of the hashes of a column, taken to tell apart any two bags of
\* values; the sums over gen_id and the row count follow from it.  The first
\* and the last timestamp are reported with the sums and never compared.
Checksums ==
  [seq  |-> [s \in Rows |-> Cardinality({r \in lake : r.seq = s})],
   body |-> [b \in Bodies |-> Cardinality({r \in lake : r.body = b})]]

SumColumns ==
  /\ phase = "sums"
  /\ phase' = "verdict"
  /\ \/ result' = [result EXCEPT !.sums = Checksums]
     \/ "queryFails" \in Faults /\ UNCHANGED result
  /\ before' = IF baseline = None THEN lake ELSE before
  /\ UNCHANGED <<runVars, lakeVars, baseline>>

Hard_CountOnly ==    \* mutant: the other checks are informational
  result.landed - manifest.accepted # 0

\* The checks that decide; the watermark is not one of them.
Hard ==
  \/ result.landed - manifest.accepted # 0
  \/ result.dups # 0
  \/ result.unaccounted > 0

\* Checksums that could not be taken compare as None on both sides.
Differing == baseline # None /\ baseline.sums # result.sums

Verdict ==
  Query("verdict", "report",
        [result EXCEPT !.verdict = IF Hard \/ Differing THEN "FAIL"
                                   ELSE "PASS"])

\* A second check, after a merge, with the first one's result as --baseline.
CheckAgain ==
  /\ phase = "report" /\ baseline = None
  /\ phase' = "settled"
  /\ baseline' = [sums |-> result.sums]
  /\ UNCHANGED <<runVars, lakeVars, result, before>>

-----------------------------------------------------------------------------
Done == phase = "report" /\ baseline # None /\ UNCHANGED vars

Next ==
  \/ Offer \/ WriteManifest \/ ForeignCommit
  \/ \E s \in Rows : \/ Commit(s) \/ Ack(s) \/ Reject(s) \/ Unavailable(s)
                     \/ AckLost(s) \/ Late(s)
  \/ \E r \in lake : Lose(r) \/ Duplicate(r) \/ Corrupt(r)
  \/ \E q, r \in lake : Misalign(q, r)
  \/ CountLanded \/ CountWindow \/ CountDuplicates \/ CountDistinct
  \/ SumWatermark \/ SumColumns \/ Verdict \/ CheckAgain \/ Done

Spec == Init /\ [][Next]_vars

-----------------------------------------------------------------------------
(* Properties                                                              *)

Phases == {"load", "settled", "window", "dups", "distinct", "watermark",
           "sums", "verdict", "report"}

ManifestType ==
  [accepted : Nat, rejected : Nat, offered : Nat, seq_min : Int, seq_max : Int]

SumsType == [seq : [Rows -> Nat], body : [Bodies -> Nat]]

ResultType ==
  [landed : Nat, inWindow : Nat, dups : Nat, unaccounted : Nat,
   watermark : {"pass", "fail", None}, sums : SumsType \cup {None},
   verdict : {"PASS", "FAIL", None}]

\* Every variable keeps its type; the manifest exists once the run is over.
TypeOK ==
  /\ phase \in Phases /\ offered \in 0..NumRows
  /\ client \in [Rows -> {"unsent", "waiting", "acked", "rejected", "failed"}]
  /\ server \in [Rows -> {"idle", "received", "committed", "dropped"}]
  /\ lake \subseteq LakeRow /\ before \subseteq LakeRow
  /\ damage \in 0..MaxDamage /\ foreign \in 0..MaxForeign /\ wm \in Nat
  /\ lastEmpty \in BOOLEAN
  /\ manifest \in ManifestType \cup {None}
  /\ phase # "load" => manifest \in ManifestType
  /\ result \in ResultType
  /\ baseline \in [sums : SumsType \cup {None}] \cup {None}

\* Soundness of VERDICT PASS: if no row landed that was not acked, every
\* acked row is in the table exactly once, whatever the collector and the
\* compactor lost or duplicated before the check, and although the check
\* only compares counts, in which a loss and a duplicate can cancel out.
PassIsExact ==
  phase = "report" /\ result.verdict = "PASS" /\ Landed \subseteq Acked =>
    Landed = Acked /\ Duplicated = {}

\* Completeness: a run that lost and duplicated nothing passes, whatever was
\* rejected or failed and whatever other traffic shares the time window, if
\* its last step offered something and the merge kept the rows.
CleanRunPasses ==
  /\ phase = "report" /\ ~lastEmpty
  /\ Landed = Acked /\ Duplicated = {}
  /\ baseline # None => before = lake /\ None \notin {baseline.sums, result.sums}
  => result.verdict = "PASS"

\* The watermark is an independent witness: when it agrees with the window
\* and no key is duplicated, no committed row has disappeared from the
\* table, even when the verdict is fooled.
WatermarkWitness ==
  phase = "report" /\ result.watermark = "pass" /\ result.dups = 0 =>
    Committed \subseteq Landed

\* What the sums are taken over: each row without its other columns.
Compared(L) == {[seq |-> r.seq, copy |-> r.copy, body |-> r.body] : r \in L}

\* --baseline is there "to prove a compaction changed nothing".  What it does
\* prove: if a second check passes and not both queries for the checksums
\* failed (two failures compare as equal), then the rows of the first check
\* did not change in a single value of a summed column, whatever became of
\* their timestamps and other attributes, which no sum covers.
SummedChangeCaught ==
  phase = "report" /\ baseline # None /\ result.verdict = "PASS"
    /\ {baseline.sums, result.sums} # {None} =>
      \A r \in before : \A b \in Bodies \ {r.body} :
        Compared(lake) # Compared((before \ {r}) \cup {[r EXCEPT !.body = b]})

-----------------------------------------------------------------------------
(* What the repository says of the check and the code does not keep        *)

\* validate_correctness.py: "accepted - landed = LOSS.  A hard failure at any
\* throughput".  A check that passes has not missed an acked row.
LossNeverPasses ==
  phase = "report" /\ result.verdict = "PASS" => Acked \subseteq Landed

=============================================================================
