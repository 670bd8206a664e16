------------------------------ MODULE Metrics ------------------------------
(***************************************************************************)
(* The counters of generator/src/metrics.py: workers add to the totals and *)
(* to the current window under one lock, a sampler thread swaps the window *)
(* out once a second and writes it as a row of generator.jsonl and of      *)
(* generator.csv, and stop_sampler() stops the thread, waits at most five  *)
(* seconds for it, writes the last row itself and closes both files.       *)
(***************************************************************************)
EXTENDS Integers

VARIABLES
  totals,   \* self.totals
  window,   \* self._window
  spc,      \* where the sampler thread is
  mpc,      \* where the main thread is
  hand,     \* the row each of them has built and not yet written
  files,    \* each file: the sum of its rows, the last cumulative, open?
  lost,     \* history: what a thread failed to write to each file
  joined,   \* history: did the join end because the sampler had ended?
  snapshot  \* the totals that go to the manifest

metricsVars == <<totals, window, spc, hand, files, lost, joined, snapshot>>

Counters == {"offered", "accepted", "rejected", "requests"}
Files    == {"jsonl", "csv"}

Zero == [c \in Counters |-> 0]
Plus(a, b) == [c \in Counters |-> a[c] + b[c]]
NoRow == [rows |-> Zero, cum |-> Zero]
Bump(by) == [c \in Counters |-> IF c \in DOMAIN by THEN by[c] ELSE 0]

MetricsInit ==
  /\ totals = Zero /\ window = Zero /\ snapshot = Zero
  /\ joined = FALSE
  /\ hand = [t \in {"sampler", "main"} |-> NoRow]
  /\ files = [f \in Files |-> [rows |-> Zero, cum |-> Zero, open |-> TRUE]]
  /\ lost = [f \in Files |-> Zero]

\* The record_* methods: totals and window change in one critical section.
Record(by) ==
  /\ totals' = Plus(totals, Bump(by))
  /\ window' = Plus(window, Bump(by))
  /\ UNCHANGED <<spc, hand, files, lost, joined, snapshot>>

RecordOffered(n)  == Record([offered |-> n])
RecordAccepted(n) == Record([accepted |-> n, requests |-> 1])
RecordRejected(n) == Record([rejected |-> n, requests |-> 1])
RecordFailed      == Record([requests |-> 1])

\* Mutant: the window is emptied after the lock has been released.
Swap_KeepsWindow(t) ==
  /\ hand' = [hand EXCEPT ![t] = [rows |-> window, cum |-> totals]]
  /\ window' = window

\* The critical section of _flush_sample().
Swap(t) ==
  /\ hand' = [hand EXCEPT ![t] = [rows |-> window, cum |-> totals]]
  /\ window' = Zero

\* One write() of _flush_sample() into an open file.
WriteRow(t, f) ==
  files' = [files EXCEPT ![f].rows = Plus(@, hand[t].rows),
                         ![f].cum = hand[t].cum]

\* The row is a local variable: it is gone when _flush_sample() ends.
DropRow(t) == hand' = [hand EXCEPT ![t] = NoRow]

-----------------------------------------------------------------------------
(* The sampler thread                                                      *)

\* self._stop is set
Stopping == mpc \notin {"pace", "offer", "joinWorkers"}

\* The top of the loop of _sample_loop().
SamplerLooks ==
  /\ spc = "loop"
  /\ spc' = IF Stopping THEN "ended" ELSE "wait"
  /\ UNCHANGED <<mpc, totals, window, hand, files, lost, joined, snapshot>>

\* _stop.wait(delay) returns early.
SamplerStops ==
  /\ spc = "wait" /\ Stopping
  /\ spc' = "ended"
  /\ UNCHANGED <<mpc, totals, window, hand, files, lost, joined, snapshot>>

\* The tick is due, or overdue, which skips the wait.
SamplerSwaps ==
  /\ spc = "wait"
  /\ spc' = "jsonl"
  /\ Swap("sampler")
  /\ UNCHANGED <<mpc, totals, files, lost, joined, snapshot>>

SamplerWrites(f) ==
  /\ spc = f /\ files[f].open
  /\ spc' = IF f = "jsonl" THEN "csv" ELSE "loop"
  /\ WriteRow("sampler", f)
  /\ IF f = "csv" THEN DropRow("sampler") ELSE UNCHANGED hand
  /\ UNCHANGED <<mpc, totals, window, lost, joined, snapshot>>

\* The file was closed meanwhile: ValueError ends the thread, and the row is
\* missing from this file and from the one it would have written next.
SamplerFails(f) ==
  /\ spc = f /\ ~files[f].open
  /\ spc' = "ended"
  /\ lost' = [g \in Files |-> IF g = f \/ f = "jsonl"
                              THEN Plus(lost[g], hand["sampler"].rows)
                              ELSE lost[g]]
  /\ DropRow("sampler")
  /\ UNCHANGED <<mpc, totals, window, files, joined, snapshot>>

Sampler ==
  \/ SamplerLooks \/ SamplerStops \/ SamplerSwaps
  \/ \E f \in Files : SamplerWrites(f) \/ SamplerFails(f)

-----------------------------------------------------------------------------
(* The main thread, in stop_sampler() and snapshot()                       *)

\* engine.stop() has returned.
StopSampler ==
  /\ mpc = "joinWorkers"
  /\ mpc' = "join"
  /\ UNCHANGED metricsVars

\* join(timeout=5): the thread has ended, or five seconds have passed.
Join ==
  /\ mpc = "join"
  /\ mpc' = "swap"
  /\ joined' = (spc = "ended")
  /\ UNCHANGED <<totals, window, spc, hand, files, lost, snapshot>>

MainSwaps_NoLastRow ==    \* mutant: the partial last window is not written
  /\ mpc = "swap"
  /\ mpc' = "closeJsonl"
  /\ UNCHANGED metricsVars

\* The last _flush_sample(), for the partial final window.
MainSwaps ==
  /\ mpc = "swap"
  /\ mpc' = "jsonl"
  /\ Swap("main")
  /\ UNCHANGED <<totals, spc, files, lost, joined, snapshot>>

MainWrites(f) ==
  /\ mpc = f
  /\ mpc' = IF f = "jsonl" THEN "csv" ELSE "closeJsonl"
  /\ WriteRow("main", f)
  /\ IF f = "csv" THEN DropRow("main") ELSE UNCHANGED hand
  /\ UNCHANGED <<totals, window, spc, lost, joined, snapshot>>

MainCloses(f) ==
  /\ mpc = IF f = "jsonl" THEN "closeJsonl" ELSE "closeCsv"
  /\ mpc' = IF f = "jsonl" THEN "closeCsv" ELSE "snapshot"
  /\ files' = [files EXCEPT ![f].open = FALSE]
  /\ UNCHANGED <<totals, window, spc, hand, lost, joined, snapshot>>

Snapshot ==
  /\ mpc = "snapshot"
  /\ mpc' = "exit"
  /\ snapshot' = totals
  /\ UNCHANGED <<totals, window, spc, hand, files, lost, joined>>

Finish ==
  \/ Join \/ MainSwaps \/ Snapshot
  \/ \E f \in Files : MainWrites(f) \/ MainCloses(f)

-----------------------------------------------------------------------------
(* percentile()                                                            *)

\* int(round(x / 1000)) of Python: halves go to the even neighbour.
RoundThousandths(x) ==
  LET down == x \div 1000 IN
  IF x % 1000 < 500 \/ (x % 1000 = 500 /\ down % 2 = 0) THEN down ELSE down + 1

AtLeast1AtMost(n, r) == IF r < 1 THEN 1 ELSE IF r > n THEN n ELSE r

PercentileRank_Down(permille, n) ==    \* mutant: int() without the half
  AtLeast1AtMost(n, (permille * n) \div 1000)

\* The rank percentile() reads from n sorted values, n > 1.
PercentileRank(permille, n) ==
  AtLeast1AtMost(n, RoundThousandths(permille * n + 500))

-----------------------------------------------------------------------------
(* Properties                                                              *)

\* What thread t has swapped out and not yet written to file f.
InHand(pcv, t, f) ==
  IF pcv = "jsonl" \/ (pcv = "csv" /\ f = "csv") THEN hand[t].rows ELSE Zero

\* Every record counted in the totals is in exactly one place: the current
\* window, a row in the hands of a thread, a row of the file, or a row the
\* sampler failed to write (metrics.py:199-237).
EachCountOnce ==
  \A f \in Files :
    totals = Plus(Plus(files[f].rows, lost[f]),
                  Plus(window, Plus(InHand(spc, "sampler", f),
                                    InHand(mpc, "main", f))))

\* Unless stop_sampler() gave up on the join, rows are written in the order of
\* their windows: the cumulative columns of the last row are the sums of all
\* rows, in both files, and nothing was lost (metrics.py:182-188, 230-237).
CumulativeIsRunningSum ==
  joined \/ mpc \in {"pace", "offer", "joinWorkers", "join"} =>
    \A f \in Files : files[f].cum = files[f].rows /\ lost[f] = Zero

\* The percentiles of a row with n > 1 latencies are never below the nearest
\* rank and at most one rank above it: metrics.py:34-41 rounds halves to even,
\* which is one above when q*n is an odd integer.
NearRank(permille, n) ==
  LET nearest == (permille * n + 999) \div 1000 IN
  PercentileRank(permille, n) \in {nearest, nearest + 1}

PercentileIsNear ==
  \A t \in {"sampler", "main"}, permille \in {500, 950, 990} :
    hand[t].rows.requests > 1 => NearRank(permille, hand[t].rows.requests)

=============================================================================
