---------------------------- MODULE ReportProofs ----------------------------
(***************************************************************************)
(* What is proved of the engineering report and its publication, for any   *)
(* outcomes of the levels, any series of samples and any hosts: a trend    *)
(* that is named is in the samples, the constraint agrees with it, and the *)
(* sustainable rate and the summary say no more than the files do.         *)
(***************************************************************************)
EXTENDS Report, Sums

-----------------------------------------------------------------------------
(* The slope                                                               *)

\* The sign of the fitted slope is that of the samples: a series that never
\* falls has no negative slope, one that never rises no positive one, and the
\* denominator is positive.
LEMMA SlopeSign ==
  ASSUME NEW rows \in SUBSET Nat, IsFiniteSet(rows),
         NEW series, \A i \in rows : series[i] \in Nat
  PROVE  LET s == LinearSlope(rows, series)
         IN /\ s \in [num : Int, den : Int] /\ s.den > 0
            /\ (\A a, b \in rows : a < b => series[a] <= series[b]) => s.num >= 0
            /\ (\A a, b \in rows : a < b => series[a] >= series[b]) => s.num <= 0
<1> DEFINE n == Cardinality(rows)
           X == [i \in rows |-> i]
           Y == [i \in rows |-> series[i]]
           XY == [i \in rows |-> i * series[i]]
           XX == [i \in rows |-> i * i]
           s == LinearSlope(rows, series)
           sx == SumFunctionOnSet(X, rows)
           sy == SumFunctionOnSet(Y, rows)
           sxy == SumFunctionOnSet(XY, rows)
           sxx == SumFunctionOnSet(XX, rows)
           den == n * sxx - sx * sx
<1>1. /\ SumFunction(X) = sx /\ SumFunction(Y) = sy
      /\ SumFunction(XY) = sxy /\ SumFunction(XX) = sxx
  BY DEF SumFunction
<1>2. s = IF n < 3 \/ den = 0 THEN [num |-> 0, den |-> 1]
          ELSE [num |-> n * sxy - sx * sy, den |-> den]
  BY <1>1 DEF LinearSlope
<1>3. \A i \in rows : /\ X[i] = i /\ X[i] \in Int /\ Y[i] = series[i] /\ Y[i] \in Int
                      /\ XY[i] = X[i] * Y[i] /\ XX[i] = X[i] * X[i]
                      /\ XY[i] \in Int /\ XX[i] \in Int
  OBVIOUS
<1>4. n \in Nat /\ sx \in Int /\ sy \in Int /\ sxy \in Int /\ sxx \in Int
  <2> HIDE DEF X, Y, XY, XX
  <2> QED
    BY <1>3, SumType, FS_CardinalityType
<1>5. sx * sx <= n * sxx
  <2>1. \A i, j \in rows : (X[i] - X[j]) * (X[i] - X[j]) >= 0
    OBVIOUS
  <2> HIDE DEF X, XX
  <2> QED
    BY <1>3, <2>1, Chebyshev
<1>6. ASSUME \A a, b \in rows : a < b => series[a] <= series[b]
      PROVE  sx * sy <= n * sxy
  <2>1. \A i, j \in rows : (X[i] - X[j]) * (Y[i] - Y[j]) >= 0
    <3> SUFFICES ASSUME NEW i \in rows, NEW j \in rows
                 PROVE  (i - j) * (series[i] - series[j]) >= 0
      OBVIOUS
    <3>1. CASE i = j
      BY <3>1
    <3>2. CASE i < j
      BY <1>6, <3>2
    <3>3. CASE j < i
      BY <1>6, <3>3
    <3> QED
      BY <3>1, <3>2, <3>3
  <2> HIDE DEF X, Y, XY
  <2> QED
    BY <1>3, <2>1, Chebyshev
<1>7. ASSUME \A a, b \in rows : a < b => series[a] >= series[b]
      PROVE  n * sxy <= sx * sy
  <2> DEFINE Z == [i \in rows |-> -series[i]]
             XZ == [i \in rows |-> -(i * series[i])]
             sz == SumFunctionOnSet(Z, rows)
             sxz == SumFunctionOnSet(XZ, rows)
  <2>1. \A i, j \in rows : (X[i] - X[j]) * (Z[i] - Z[j]) >= 0
    <3> SUFFICES ASSUME NEW i \in rows, NEW j \in rows
                 PROVE  (i - j) * ((-series[i]) - (-series[j])) >= 0
      OBVIOUS
    <3>1. CASE i = j
      BY <3>1
    <3>2. CASE i < j
      BY <1>7, <3>2
    <3>3. CASE j < i
      BY <1>7, <3>3
    <3> QED
      BY <3>1, <3>2, <3>3
  <2>2. \A i \in rows : /\ Z[i] = -Y[i] /\ Z[i] \in Int
                        /\ XZ[i] = -XY[i] /\ XZ[i] = X[i] * Z[i] /\ XZ[i] \in Int
    OBVIOUS
  <2> HIDE DEF X, Y, XY, Z, XZ
  <2>3. sx * sz <= n * sxz
    BY <1>3, <2>1, <2>2, Chebyshev
  <2>4. sz = -sy /\ sxz = -sxy
    BY <1>3, <2>2, SumNegated
  <2>5. sx * (-sy) = -(sx * sy) /\ n * (-sxy) = -(n * sxy)
    BY <1>4
  <2>6. sx * sy \in Int /\ n * sxy \in Int
    BY <1>4
  <2> HIDE DEF sx, sy, sz, sxy, sxz, n
  <2> QED
    BY <2>3, <2>4, <2>5, <2>6
<1> HIDE DEF X, Y, XY, XX, sx, sy, sxy, sxx, n, s
<1>8. den \in Int /\ den >= 0 /\ n * sxy - sx * sy \in Int
  BY <1>4, <1>5
<1>9. s \in [num : Int, den : Int] /\ s.den > 0
  BY <1>2, <1>8
<1>10. ASSUME \A a, b \in rows : a < b => series[a] <= series[b]
       PROVE  s.num >= 0
  <2>1. n * sxy - sx * sy >= 0
    BY <1>4, <1>6, <1>10
  <2> QED
    BY <1>2, <2>1
<1>11. ASSUME \A a, b \in rows : a < b => series[a] >= series[b]
       PROVE  s.num <= 0
  <2>1. n * sxy - sx * sy <= 0
    BY <1>4, <1>7, <1>11
  <2> QED
    BY <1>2, <2>1
<1> QED
  BY <1>9, <1>10, <1>11 DEF s

-----------------------------------------------------------------------------
(* The trend                                                               *)

PipelineOK == pipeline \in Seq(Nat \cup {None})

Rising  == \E a, b \in Steady : a < b /\ pipeline[a] < pipeline[b]
Falling == \E a, b \in Steady : a < b /\ pipeline[a] > pipeline[b]

\* The samples a trend may rest on are the ones the line is fitted through.
LEMMA SteadyIsFitted ==
  ASSUME PipelineOK
  PROVE  /\ IsFiniteSet(Catalogued(pipeline))
         /\ Steady = SteadyWindow(Catalogued(pipeline))
         /\ Steady \in SUBSET Nat /\ IsFiniteSet(Steady)
         /\ Cardinality(Steady) <= Cardinality(Catalogued(pipeline))
         /\ \A i \in Steady : pipeline[i] \in Nat
<1> DEFINE rows == Catalogued(pipeline)
           rank(i) == Cardinality({j \in rows : j <= i})
<1>1. DOMAIN pipeline = 1..Len(pipeline) /\ Len(pipeline) \in Nat
  BY DEF PipelineOK
<1>2. rows \subseteq 1..Len(pipeline) /\ \A i \in rows : pipeline[i] \in Nat
  BY <1>1 DEF Catalogued, PipelineOK
<1>3. IsFiniteSet(rows) /\ Cardinality(rows) \in Nat
  <2> HIDE DEF rows
  <2>1. IsFiniteSet(1..Len(pipeline))
    BY <1>1, FS_Interval
  <2>2. IsFiniteSet(rows)
    BY <1>2, <2>1, FS_Subset
  <2> QED
    BY <2>2, FS_CardinalityType
<1>4. ASSUME NEW i \in rows PROVE rank(i) \in Nat
  <2>1. {j \in rows : j <= i} \in SUBSET rows
    OBVIOUS
  <2> QED
    BY <1>3, <2>1, FS_Subset, FS_CardinalityType
<1>5. \A i \in rows : 4 * rank(i) > Cardinality(rows) <=> rank(i) > Cardinality(rows) \div 4
  <2> SUFFICES ASSUME NEW i \in rows
               PROVE  4 * rank(i) > Cardinality(rows) <=> rank(i) > Cardinality(rows) \div 4
    OBVIOUS
  <2> HIDE DEF rank, rows
  <2> QED
    BY <1>3, <1>4
<1>6. Steady = {i \in rows : Cardinality(rows) < 8 \/ 4 * rank(i) > Cardinality(rows)}
  BY DEF Steady
<1>7. SteadyWindow(rows) = IF Cardinality(rows) < 8 THEN rows
                           ELSE {i \in rows : rank(i) > Cardinality(rows) \div 4}
  BY DEF SteadyWindow
<1> HIDE DEF rows, rank
<1>8. Steady = SteadyWindow(rows) /\ Steady \subseteq rows
  BY <1>5, <1>6, <1>7
<1>9. IsFiniteSet(Steady) /\ Cardinality(Steady) <= Cardinality(rows)
  BY <1>3, <1>8, FS_Subset
<1>10. \A i \in rows : i \in Nat /\ pipeline[i] \in Nat
  BY <1>1, <1>2
<1>11. Steady \in SUBSET Nat /\ \A i \in Steady : pipeline[i] \in Nat
  BY <1>8, <1>10
<1> QED
  BY <1>3, <1>8, <1>9, <1>11 DEF rows

\* The trend of a slope, by the sign of its numerator.
LEMMA TrendOfSlope ==
  ASSUME NEW s \in [num : Int, den : Int], s.den > 0
  PROVE  /\ s # None
         /\ Trend(s) = "GROWING" => s.num > 0
         /\ Trend(s) = "draining" => s.num < 0
         /\ s.num = 0 => Trend(s) = "flat"
         /\ AboveHalf(s) => Trend(s) = "GROWING"
  BY NoneAssumption DEF Trend, BelowHalf, AboveHalf

LEMMA TrendOfSteady ==
  ASSUME PipelineOK, NEW t, t = Trend(AnalyseBacklog(pipeline))
  PROVE  /\ t = "GROWING" => Rising
         /\ t = "draining" => Falling
         /\ Cardinality(Steady) >= 4 /\ ~Rising /\ ~Falling => t = "flat"
<1> DEFINE rows == Catalogued(pipeline)
           s == LinearSlope(Steady, pipeline)
<1>1. /\ IsFiniteSet(rows) /\ Steady = SteadyWindow(rows)
      /\ Steady \in SUBSET Nat /\ IsFiniteSet(Steady)
      /\ Cardinality(Steady) <= Cardinality(rows)
      /\ \A i \in Steady : pipeline[i] \in Nat
  BY SteadyIsFitted
<1>2. CASE Cardinality(rows) < 4
  <2>1. t = None
    BY <1>2 DEF AnalyseBacklog, Trend
  <2>2. Cardinality(rows) \in Nat /\ Cardinality(Steady) \in Nat
    BY <1>1, FS_CardinalityType
  <2>3. t # "GROWING" /\ t # "draining"
    BY <2>1, NoneAssumption DEF Trends
  <2>4. ~ (Cardinality(Steady) >= 4)
    BY <1>1, <1>2, <2>2
  <2> QED
    BY <2>3, <2>4
<1>3. CASE ~ (Cardinality(rows) < 4)
  <2>1. t = Trend(s)
    BY <1>1, <1>3 DEF AnalyseBacklog
  <2>2. /\ s \in [num : Int, den : Int] /\ s.den > 0
        /\ (\A a, b \in Steady : a < b => pipeline[a] <= pipeline[b]) => s.num >= 0
        /\ (\A a, b \in Steady : a < b => pipeline[a] >= pipeline[b]) => s.num <= 0
    BY <1>1, SlopeSign
  <2>3. ~Falling => s.num >= 0
    BY <1>1, <2>2 DEF Falling
  <2>4. ~Rising => s.num <= 0
    BY <1>1, <2>2 DEF Rising
  <2> HIDE DEF s
  <2>5. /\ t = "GROWING" => s.num > 0
        /\ t = "draining" => s.num < 0
        /\ s.num = 0 => t = "flat"
    BY <2>1, <2>2, TrendOfSlope
  <2>6. s.num \in Int
    BY <2>2
  <2> QED
    BY <2>3, <2>4, <2>5, <2>6
<1> QED
  BY <1>2, <1>3

-----------------------------------------------------------------------------
(* The loop over the levels                                                *)

\* One turn of the loop of Sustainable.
Judge(ss, before, i) ==
  IF before.open /\ Holds(ss[i]) THEN [level |-> i, open |-> TRUE]
  ELSE [before EXCEPT !.open = FALSE]

LoopTurn(ss, j, i) ==
  IF i = 0 THEN [level |-> 0, open |-> TRUE] ELSE Judge(ss, j[i - 1], i)

LEMMA LoopExists ==
  ASSUME NEW ss, NEW n \in Nat
  PROVE  \E j : j = [i \in 0..n |-> LoopTurn(ss, j, i)]
<1> DEFINE Good == {k \in Nat : \E j : j = [i \in 0..k |-> LoopTurn(ss, j, i)]}
<1>1. 0 \in Good
  <2> DEFINE j == [i \in 0..0 |-> [level |-> 0, open |-> TRUE]]
  <2>1. j = [i \in 0..0 |-> LoopTurn(ss, j, i)]
    BY DEF LoopTurn
  <2> QED
    BY <2>1
<1>2. ASSUME NEW k \in 0..n-1, k \in Good
      PROVE  k + 1 \in Good
  <2>1. PICK g : g = [i \in 0..k |-> LoopTurn(ss, g, i)]
    BY <1>2
  <2> DEFINE j == [i \in 0..k+1 |-> LoopTurn(ss, g, i)]
  <2>2. \A i \in 0..k : j[i] = g[i]
    BY <2>1
  <2>3. ASSUME NEW i \in 0..k+1 PROVE j[i] = LoopTurn(ss, j, i)
    <3>1. i # 0 => i - 1 \in 0..k /\ j[i - 1] = g[i - 1]
      BY <2>2
    <3> QED
      BY <3>1 DEF LoopTurn
  <2>4. \E h : h = [i \in 0..k+1 |-> LoopTurn(ss, h, i)]
    <3>1. j = [i \in 0..k+1 |-> LoopTurn(ss, j, i)]
      BY <2>3
    <3> QED
      BY <3>1
  <2> QED
    BY <2>4
<1> HIDE DEF Good
<1>3. n \in Good
  BY <1>1, <1>2, IntervalInduction
<1> QED
  BY <1>3 DEF Good

\* The level the loop ends with: every level up to it held, the next did not.
LEMMA SustainableIsLoop ==
  ASSUME NEW ss, Len(ss) \in Nat, NEW n, n = Sustainable(ss)
  PROVE  /\ n \in 0..Len(ss)
         /\ \A i \in 1..n : Holds(ss[i])
         /\ n < Len(ss) => ~Holds(ss[n + 1])
<1> DEFINE N == Len(ss)
           j == CHOOSE j : j = [i \in 0..N |-> LoopTurn(ss, j, i)]
           Right(k) == /\ j[k] \in [level : 0..k, open : BOOLEAN]
                       /\ \A i \in 1..j[k].level : Holds(ss[i])
                       /\ j[k].open => j[k].level = k
                       /\ ~j[k].open => j[k].level < k /\ ~Holds(ss[j[k].level + 1])
           P == {k \in 0..N : Right(k)}
<1>1. n = j[N].level
  BY DEF Sustainable, LoopTurn, Judge
<1>2. j = [i \in 0..N |-> LoopTurn(ss, j, i)]
  BY LoopExists
<1> HIDE DEF j
<1>3. \A i \in 0..N : j[i] = LoopTurn(ss, j, i)
  BY <1>2
<1>4. j[0] = [level |-> 0, open |-> TRUE]
  BY <1>3 DEF LoopTurn
<1>9. ASSUME NEW k \in 0..N-1 PROVE j[k + 1] = Judge(ss, j[k], k + 1)
  <2>1. k + 1 \in 0..N /\ k + 1 # 0 /\ (k + 1) - 1 = k
    OBVIOUS
  <2>2. j[k + 1] = LoopTurn(ss, j, k + 1)
    BY <1>3, <2>1
  <2> QED
    BY <2>1, <2>2 DEF LoopTurn
<1>5. 0 \in P
  <2>1. j[0].level = 0 /\ j[0].open = TRUE /\ j[0] \in [level : 0..0, open : BOOLEAN]
    BY <1>4
  <2>2. Right(0)
    BY <2>1
  <2> QED
    BY <2>2
<1>6. ASSUME NEW k \in 0..N-1, k \in P
      PROVE  k + 1 \in P
  <2>1. Right(k) /\ k \in Nat
    BY <1>6
  <2>2. CASE j[k].open /\ Holds(ss[k + 1])
    <3>1. j[k + 1] = [level |-> k + 1, open |-> TRUE]
      BY <1>9, <2>2 DEF Judge
    <3>2. \A i \in 1..k+1 : i \in 1..k \/ i = k + 1
      BY <2>1
    <3>3. \A i \in 1..k+1 : Holds(ss[i])
      BY <2>1, <2>2, <3>2
    <3>4. /\ j[k + 1] \in [level : 0..k+1, open : BOOLEAN]
          /\ j[k + 1].open /\ j[k + 1].level = k + 1
      BY <2>1, <3>1
    <3>5. Right(k + 1)
      BY <3>3, <3>4
    <3> QED
      BY <2>1, <3>5
  <2>3. CASE ~ (j[k].open /\ Holds(ss[k + 1]))
    <3>1. j[k + 1] = [level |-> j[k].level, open |-> FALSE]
      BY <1>9, <2>1, <2>3 DEF Judge
    <3>2. j[k].level \in 0..k /\ j[k].level < k + 1
      BY <2>1
    <3>3. ~Holds(ss[j[k].level + 1])
      BY <2>1, <2>3
    <3>4. /\ j[k + 1] \in [level : 0..k+1, open : BOOLEAN]
          /\ ~j[k + 1].open /\ j[k + 1].level = j[k].level
      BY <2>1, <3>1, <3>2
    <3>5. Right(k + 1)
      BY <2>1, <3>2, <3>3, <3>4
    <3> QED
      BY <2>1, <3>5
  <2> QED
    BY <2>2, <2>3
<1> HIDE DEF P
<1>7. N \in P
  BY <1>5, <1>6, IntervalInduction
<1>8. Right(N)
  BY <1>7 DEF P
<1> QED
  BY <1>1, <1>8

-----------------------------------------------------------------------------
(* The levels and their totals                                             *)

JudgedLevel == [offered : Nat, accepted : Nat, rejected : Nat, target : Nat]

OfferedOf(ss)  == [i \in DOMAIN ss |-> ss[i].offered]
AcceptedOf(ss) == [i \in DOMAIN ss |-> ss[i].accepted]
RejectedOf(ss) == [i \in DOMAIN ss |-> ss[i].rejected]

\* Up to every level the accepted records are no more than the offered ones,
\* the late acks in hand included: an ack is booked to its level or to a later
\* one, never to an earlier.
Covered(ss, after) ==
  /\ \A k \in 0..Len(ss) :
       SumFunctionOnSet(AcceptedOf(ss), 1..k) <= SumFunctionOnSet(OfferedOf(ss), 1..k)
  /\ SumFunction(AcceptedOf(ss)) + after <= SumFunction(OfferedOf(ss))

\* generator.json, once it is written, has the steps and their sums.
Books ==
  /\ steps \in Seq(JudgedLevel) /\ late \in Nat
  /\ Covered(steps, late)
  /\ pc = "run" => generator = None
  /\ generator # None =>
       generator = [steps  |-> steps,
                    totals |-> [offered  |-> SumFunction(OfferedOf(steps)),
                                accepted |-> SumFunction(AcceptedOf(steps)) + late,
                                rejected |-> SumFunction(RejectedOf(steps))]]

\* A level more leaves the sums of the levels before it as they were.
LEMMA SumsOfAppend ==
  ASSUME NEW ss \in Seq(JudgedLevel), NEW l \in JudgedLevel
  PROVE  LET tt == Append(ss, l)
         IN /\ \A k \in 0..Len(ss) :
                 /\ SumFunctionOnSet(AcceptedOf(tt), 1..k) = SumFunctionOnSet(AcceptedOf(ss), 1..k)
                 /\ SumFunctionOnSet(OfferedOf(tt), 1..k) = SumFunctionOnSet(OfferedOf(ss), 1..k)
            /\ SumFunction(AcceptedOf(tt)) = SumFunction(AcceptedOf(ss)) + l.accepted
            /\ SumFunction(OfferedOf(tt)) = SumFunction(OfferedOf(ss)) + l.offered
            /\ SumFunction(AcceptedOf(ss)) = SumFunctionOnSet(AcceptedOf(ss), 1..Len(ss))
            /\ SumFunction(OfferedOf(ss)) = SumFunctionOnSet(OfferedOf(ss), 1..Len(ss))
            /\ SumFunction(AcceptedOf(ss)) \in Int /\ SumFunction(OfferedOf(ss)) \in Int
<1> DEFINE tt == Append(ss, l)
           n == Len(ss)
<1>1. /\ n \in Nat /\ DOMAIN ss = 1..n /\ DOMAIN tt = 1..n+1
      /\ tt[n + 1] = l /\ \A i \in 1..n : tt[i] = ss[i]
      /\ \A i \in 1..n : ss[i] \in JudgedLevel
      /\ \A i \in 1..n+1 : tt[i] \in JudgedLevel
  OBVIOUS
<1>2. \A i \in 1..n : i \in 1..n+1
  BY <1>1
<1> HIDE DEF tt, n
<1> DEFINE as == AcceptedOf(ss)
           at == AcceptedOf(tt)
           os == OfferedOf(ss)
           ot == OfferedOf(tt)
<1>3. /\ \A i \in 1..n : as[i] \in Int /\ at[i] = as[i] /\ os[i] \in Int /\ ot[i] = os[i]
      /\ \A i \in 1..n+1 : at[i] \in Int /\ ot[i] \in Int
      /\ at[n + 1] = l.accepted /\ ot[n + 1] = l.offered
      /\ DOMAIN as = 1..n /\ DOMAIN at = 1..n+1 /\ DOMAIN os = 1..n /\ DOMAIN ot = 1..n+1
  <2>1. DOMAIN as = 1..n /\ DOMAIN at = 1..n+1 /\ DOMAIN os = 1..n /\ DOMAIN ot = 1..n+1
    BY <1>1 DEF AcceptedOf, OfferedOf
  <2>2. \A i \in 1..n : as[i] = ss[i].accepted /\ os[i] = ss[i].offered
    BY <1>1 DEF AcceptedOf, OfferedOf
  <2>3. \A i \in 1..n+1 : at[i] = tt[i].accepted /\ ot[i] = tt[i].offered
    BY <1>1 DEF AcceptedOf, OfferedOf
  <2>4. \A e \in JudgedLevel : e.accepted \in Int /\ e.offered \in Int
    BY DEF JudgedLevel
  <2>5. n + 1 \in 1..n+1
    BY <1>1
  <2> HIDE DEF as, at, os, ot
  <2>6. \A i \in 1..n : as[i] \in Int /\ at[i] = as[i] /\ os[i] \in Int /\ ot[i] = os[i]
    BY <1>1, <1>2, <2>2, <2>3, <2>4
  <2>7. \A i \in 1..n+1 : at[i] \in Int /\ ot[i] \in Int
    BY <1>1, <2>3, <2>4
  <2>8. at[n + 1] = l.accepted /\ ot[n + 1] = l.offered
    BY <1>1, <2>3, <2>5
  <2> QED
    BY <2>1, <2>6, <2>7, <2>8
<1> HIDE DEF as, at, os, ot
<1>4. ASSUME NEW k \in 0..n
      PROVE  /\ SumFunctionOnSet(at, 1..k) = SumFunctionOnSet(as, 1..k)
             /\ SumFunctionOnSet(ot, 1..k) = SumFunctionOnSet(os, 1..k)
  <2>1. k \in Int /\ 1 \in Int
    BY <1>1
  <2>2. IsFiniteSet(1..k)
    BY <2>1, FS_Interval
  <2>3. \A i \in 1..k : i \in 1..n
    BY <1>1
  <2> QED
    BY <1>3, <2>2, <2>3, SumSame
<1>10. n \in Int /\ 1 \in Int
  BY <1>1
<1>11. IsFiniteSet(1..n)
  BY <1>10, FS_Interval
<1>12. (1..n) \cup {n + 1} = 1..n+1 /\ n + 1 \notin 1..n /\ n \in 0..n
  BY <1>1
<1>5. /\ IsFiniteSet(1..n) /\ (1..n) \cup {n + 1} = 1..n+1 /\ n + 1 \notin 1..n
      /\ n \in 0..n
      /\ \A i \in (1..n) \cup {n + 1} : at[i] \in Int /\ ot[i] \in Int
  BY <1>3, <1>11, <1>12
<1>6. /\ SumFunctionOnSet(at, (1..n) \cup {n + 1}) = SumFunctionOnSet(at, 1..n) + l.accepted
      /\ SumFunctionOnSet(ot, (1..n) \cup {n + 1}) = SumFunctionOnSet(ot, 1..n) + l.offered
  <2> DEFINE S == 1..n
             x == n + 1
  <2>1. IsFiniteSet(S) /\ x \notin S
    BY <1>5
  <2>2. (\A i \in S \cup {x} : at[i] \in Int) /\ (\A i \in S \cup {x} : ot[i] \in Int)
    BY <1>5
  <2>3. at[x] = l.accepted /\ ot[x] = l.offered
    BY <1>3
  <2> HIDE DEF S, x
  <2>4. SumFunctionOnSet(at, S \cup {x}) = SumFunctionOnSet(at, S) + at[x]
    BY <2>1, <2>2, SumAdd
  <2>5. SumFunctionOnSet(ot, S \cup {x}) = SumFunctionOnSet(ot, S) + ot[x]
    BY <2>1, <2>2, SumAdd
  <2> QED
    BY <2>3, <2>4, <2>5 DEF S, x
<1>7. /\ SumFunctionOnSet(at, 1..n+1) = SumFunctionOnSet(at, 1..n) + l.accepted
      /\ SumFunctionOnSet(ot, 1..n+1) = SumFunctionOnSet(ot, 1..n) + l.offered
  BY <1>5, <1>6
<1>8. SumFunctionOnSet(as, 1..n) \in Int /\ SumFunctionOnSet(os, 1..n) \in Int
  BY <1>3, <1>5, SumType
<1>9. /\ SumFunction(as) = SumFunctionOnSet(as, 1..n) /\ SumFunction(os) = SumFunctionOnSet(os, 1..n)
      /\ SumFunction(at) = SumFunctionOnSet(at, 1..n+1) /\ SumFunction(ot) = SumFunctionOnSet(ot, 1..n+1)
  BY <1>3 DEF SumFunction
<1> QED
  BY <1>4, <1>5, <1>7, <1>8, <1>9 DEF as, at, os, ot, tt, n

LEMMA BooksInit == Init => Books
<1> SUFFICES ASSUME Init PROVE Books
  OBVIOUS
<1>1. steps = <<>> /\ late = 0 /\ generator = None /\ Len(steps) = 0 /\ DOMAIN steps = {}
  BY DEF Init
<1>2. 1..0 = {}
  OBVIOUS
<1>3. DOMAIN AcceptedOf(steps) = {} /\ DOMAIN OfferedOf(steps) = {}
  BY <1>1 DEF AcceptedOf, OfferedOf
<1>4. SumFunction(AcceptedOf(steps)) = 0 /\ SumFunction(OfferedOf(steps)) = 0
  BY <1>3, SumEmpty DEF SumFunction
<1>5. Covered(steps, late)
  BY <1>1, <1>2, <1>4, SumEmpty DEF Covered
<1> QED
  BY <1>1, <1>5 DEF Books

LEMMA BooksLevel ==
  ASSUME Books, NEW o \in Outcomes, LevelEnds(o)
  PROVE  Books'
<1> DEFINE l == [offered |-> o.offered, accepted |-> o.accepted + late,
                 rejected |-> o.rejected, target |-> TargetRates[Len(steps) + 1]]
           n == Len(steps)
<1>1. /\ pc = "run" /\ n < Len(TargetRates) /\ steps' = Append(steps, l) /\ late' = o.late
      /\ pc' = pc /\ generator' = generator
  BY DEF LevelEnds, files
<1>2. /\ steps \in Seq(JudgedLevel) /\ late \in Nat /\ n \in Nat /\ generator = None
      /\ Covered(steps, late)
  BY <1>1 DEF Books
<1>3. /\ o.offered \in Nat /\ o.accepted \in Nat /\ o.rejected \in Nat /\ o.late \in Nat
      /\ o.accepted + o.rejected + o.late <= o.offered
  BY FilesAssumption
<1>4. l \in JudgedLevel
  <2>1. TargetRates[n + 1] \in Nat
    BY <1>1, <1>2, FilesAssumption
  <2> QED
    BY <1>2, <1>3, <2>1 DEF JudgedLevel
<1>5. l.accepted = o.accepted + late /\ l.offered = o.offered
  OBVIOUS
<1> HIDE DEF l
<1> DEFINE A(ss) == SumFunction(AcceptedOf(ss))
           O(ss) == SumFunction(OfferedOf(ss))
           AU(ss, k) == SumFunctionOnSet(AcceptedOf(ss), 1..k)
           OU(ss, k) == SumFunctionOnSet(OfferedOf(ss), 1..k)
<1>6. /\ \A k \in 0..n : AU(steps', k) = AU(steps, k) /\ OU(steps', k) = OU(steps, k)
      /\ A(steps') = A(steps) + l.accepted /\ O(steps') = O(steps) + l.offered
      /\ A(steps) \in Int /\ O(steps) \in Int
  BY <1>1, <1>2, <1>4, SumsOfAppend
<1>7. steps' \in Seq(JudgedLevel) /\ Len(steps') = n + 1
  BY <1>1, <1>2, <1>4
<1>8. A(steps') = AU(steps', n + 1) /\ O(steps') = OU(steps', n + 1)
  BY <1>4, <1>7, SumsOfAppend
<1>9. (\A k \in 0..n : AU(steps, k) <= OU(steps, k)) /\ A(steps) + late <= O(steps)
  BY <1>2 DEF Covered
<1> HIDE DEF A, O
<1>15. \A a, b, c, d, was, now, in, out, no \in Int :
         /\ a + was <= b /\ c = a + (in + was) /\ d = b + out
         /\ now >= 0 /\ no >= 0 /\ (in + no) + now <= out
         => c + now <= d /\ c <= d
  OBVIOUS
<1>16. A(steps') \in Int /\ O(steps') \in Int
  <2>1. l.accepted \in Int /\ l.offered \in Int
    BY <1>2, <1>3, <1>5
  <2> QED
    BY <1>6, <2>1
<1>10. A(steps') + o.late <= O(steps') /\ A(steps') <= O(steps')
  <2>1. /\ o.late >= 0 /\ o.rejected >= 0 /\ o.accepted + o.rejected + o.late <= o.offered
        /\ {late, o.late, o.accepted, o.offered, o.rejected, A(steps), O(steps)} \subseteq Int
    BY <1>2, <1>3, <1>6
  <2>2. A(steps) + late <= O(steps)
    BY <1>9 DEF A, O
  <2>3. A(steps') = A(steps) + (o.accepted + late) /\ O(steps') = O(steps) + o.offered
    BY <1>5, <1>6
  <2> QED
    BY <1>15, <1>16, <2>1, <2>2, <2>3
<1>12. \A k \in 0..n+1 : AU(steps', k) <= OU(steps', k)
  <2> HIDE DEF A, O, AU, OU
  <2>1. \A k \in 0..n+1 : k \in 0..n \/ k = n + 1
    BY <1>2
  <2> QED
    BY <1>6, <1>8, <1>9, <1>10, <2>1
<1>13. Covered(steps', late')
  BY <1>1, <1>7, <1>10, <1>12 DEF Covered, A, O
<1>14. generator' = None
  BY <1>1, <1>2
<1> QED
  BY <1>1, <1>3, <1>7, <1>13, <1>14 DEF Books

-----------------------------------------------------------------------------
(* The inductive invariant                                                 *)

\* What render() concludes from hosts h and verdict v: these two may have been
\* collected again since; the levels and the pipeline are those of the run.
Rendered(h, v) ==
  LET slope == AnalyseBacklog(pipeline)
      ss == StepsOf(generator)
  IN [correctness |-> IF v = None THEN "not a result" ELSE v,
      notValid   |-> facts.transport # "direct",
      table      |-> IF Len(ss) > 1 THEN ss ELSE <<>>,
      trend      |-> Trend(slope),
      constraint |-> Bottleneck(generator, slope, h),
      sustainable |-> IF Len(ss) > 1 THEN Sustainable(ss) ELSE None,
      caveats    |-> Caveats(slope, h),
      unknowns   |-> Unknowns(ss, pipeline, slope, h, v)]

Reported == report # None => pc = "done" /\ \E h, v : report = Rendered(h, v)

Published ==
  published # None =>
    pc = "done" /\ \E h, v : published = [Publication EXCEPT !.detail = Rendered(h, v)]

IInv == PipelineOK /\ Books /\ Reported /\ Published

LEMMA RenderIsRendered == Render = Rendered(hosts, verdict)
  BY DEF Render, Rendered, CorrectnessSection

\* A step that is not a level: either the generator's exit, or one that leaves
\* the levels and generator.json alone.
LEMMA OtherSteps ==
  ASSUME Next
  PROVE  \/ \E o \in Outcomes : LevelEnds(o)
         \/ GeneratorExits
         \/ /\ UNCHANGED <<facts, steps, late, generator, report, published>>
            /\ pc # "done" /\ pc' # "run"
            /\ pipeline' = pipeline \/ pipeline' \in Series
         \/ /\ UNCHANGED <<facts, steps, late, generator, pipeline>>
            /\ pc' = "done" /\ UNCHANGED published
            /\ report' = report \/ report' = Render
         \/ /\ UNCHANGED <<facts, steps, late, generator, pipeline, report>>
            /\ pc = "done" /\ pc' = "done" /\ report # None
            /\ published' = Publication
<1>1. CASE \E o \in Outcomes : LevelEnds(o)
  BY <1>1
<1>2. CASE GeneratorExits
  BY <1>2
<1>3. CASE GeneratorDies
  BY <1>3 DEF GeneratorDies, files
<1>4. CASE \E series \in Series, cpuOf \in HostCases : Collect(series, cpuOf)
  BY <1>4 DEF Collect
<1>5. CASE \E v \in {"PASS", "FAIL", None} : Validate(v)
  BY <1>5 DEF Validate
<1>6. CASE GenerateReport
  BY <1>6 DEF GenerateReport, files
<1>7. CASE Skip
  BY <1>7 DEF Skip, files
<1>8. CASE Publish
  BY <1>8 DEF Publish, files
<1>9. CASE \E cpuOf \in HostCases, v \in {"PASS", "FAIL", None} : Repair(cpuOf, v)
  BY <1>9 DEF Repair
<1> QED
  BY <1>1, <1>2, <1>3, <1>4, <1>5, <1>6, <1>7, <1>8, <1>9 DEF Next

LEMMA InductiveInit == Init => IInv
<1> SUFFICES ASSUME Init PROVE IInv
  OBVIOUS
<1>1. PipelineOK
  BY DEF Init, PipelineOK
<1>2. Reported /\ Published
  BY DEF Init, Reported, Published
<1> QED
  BY <1>1, <1>2, BooksInit DEF IInv

\* The files of the run are not written again once it is reported.
LEMMA FrozenFiles ==
  ASSUME UNCHANGED <<facts, generator, pipeline>>
  PROVE  /\ \A h, v : Rendered(h, v)' = Rendered(h, v)
         /\ \A d : [Publication EXCEPT !.detail = d]' = [Publication EXCEPT !.detail = d]
<1>1. facts' = facts /\ generator' = generator /\ pipeline' = pipeline
  OBVIOUS
<1>2. ASSUME NEW h, NEW v PROVE Rendered(h, v)' = Rendered(h, v)
  <2>1. \A slope : Bottleneck(generator, slope, h)' = Bottleneck(generator, slope, h)
    BY <1>1 DEF Bottleneck
  <2>2. \A ss, slope : Unknowns(ss, pipeline, slope, h, v)' = Unknowns(ss, pipeline, slope, h, v)
    BY <1>1 DEF Unknowns, LagAvailable
  <2> QED
    BY <1>1, <2>1, <2>2 DEF Rendered
<1>3. ASSUME NEW d
      PROVE  [Publication EXCEPT !.detail = d]' = [Publication EXCEPT !.detail = d]
  BY <1>1 DEF Publication
<1> QED
  BY <1>2, <1>3

LEMMA InductiveStep == IInv /\ [Next]_vars => IInv'
<1> SUFFICES ASSUME IInv, [Next]_vars PROVE IInv'
  OBVIOUS
<1>1. PipelineOK /\ Books /\ Reported /\ Published
  BY DEF IInv
<1>2. CASE \E o \in Outcomes : LevelEnds(o)
  <2>1. PICK o \in Outcomes : LevelEnds(o)
    BY <1>2
  <2>2. Books'
    BY <1>1, <2>1, BooksLevel
  <2>3. /\ pc = "run" /\ pc' = "run" /\ pipeline' = pipeline
        /\ report' = report /\ published' = published
    BY <2>1 DEF LevelEnds, files
  <2>4. report' = None /\ published' = None
    BY <1>1, <2>3 DEF Reported, Published
  <2> QED
    BY <1>1, <2>2, <2>3, <2>4 DEF IInv, PipelineOK, Reported, Published
<1>3. CASE GeneratorExits
  <2>1. /\ pc = "run" /\ pc' = "collect" /\ pipeline' = pipeline
        /\ UNCHANGED <<steps, late, report, published>>
        /\ generator' = [steps  |-> steps,
                         totals |-> [offered  |-> SumFunction(OfferedOf(steps)),
                                     accepted |-> SumFunction(AcceptedOf(steps)) + late,
                                     rejected |-> SumFunction(RejectedOf(steps))]]
    BY <1>3 DEF GeneratorExits, OfferedOf, AcceptedOf, RejectedOf
  <2>2. report' = None /\ published' = None
    BY <1>1, <2>1 DEF Reported, Published
  <2>3. Books'
    BY <1>1, <2>1 DEF Books
  <2> QED
    BY <1>1, <2>1, <2>2, <2>3 DEF IInv, PipelineOK, Reported, Published
<1>4. CASE /\ UNCHANGED <<facts, steps, late, generator, report, published>>
           /\ pc # "done" /\ pc' # "run"
           /\ pipeline' = pipeline \/ pipeline' \in Series
  <2>1. report' = None /\ published' = None
    BY <1>1, <1>4 DEF Reported, Published
  <2>2. Books'
    BY <1>1, <1>4 DEF Books
  <2>3. PipelineOK'
    BY <1>1, <1>4, FilesAssumption DEF PipelineOK
  <2> QED
    BY <2>1, <2>2, <2>3 DEF IInv, Reported, Published
<1>5. ASSUME UNCHANGED <<facts, steps, late, generator, pipeline>>,
             pc' = pc \/ pc' = "done",
             \/ report' = report
             \/ pc' = "done" /\ report' = Render,
             \/ published' = published
             \/ pc' = "done" /\ report # None /\ published' = Publication
      PROVE  IInv'
  <2>1. PipelineOK' /\ Books'
    BY <1>1, <1>5 DEF PipelineOK, Books
  <2>2. \A h, v : Rendered(h, v)' = Rendered(h, v)
    BY <1>5, FrozenFiles
  <2>3. \A d : [Publication EXCEPT !.detail = d]' = [Publication EXCEPT !.detail = d]
    BY <1>5, FrozenFiles
  <2>4. Reported'
    <3>1. CASE report' = report
      BY <1>1, <1>5, <2>2, <3>1 DEF Reported
    <3>2. CASE pc' = "done" /\ report' = Render
      BY <2>2, <3>2, RenderIsRendered DEF Reported
    <3> QED
      BY <1>5, <3>1, <3>2
  <2>5. Published'
    <3>1. CASE published' = published
      BY <1>1, <1>5, <2>2, <2>3, <3>1 DEF Published
    <3>2. CASE pc' = "done" /\ report # None /\ published' = Publication
      <4>1. PICK h, v : report = Rendered(h, v)
        BY <1>1, <3>2 DEF Reported
      <4>2. Publication = [Publication EXCEPT !.detail = Rendered(h, v)]
        BY <4>1 DEF Publication
      <4> QED
        BY <2>2, <2>3, <3>2, <4>2 DEF Published
    <3> QED
      BY <1>5, <3>1, <3>2
  <2> QED
    BY <2>1, <2>4, <2>5 DEF IInv
<1>6. CASE UNCHANGED vars
  BY <1>5, <1>6 DEF vars, files
<1>7. CASE Next
  BY <1>2, <1>3, <1>4, <1>5, <1>7, OtherSteps
<1> QED
  BY <1>6, <1>7

\* However often files are collected, checked and reported again, a report is
\* what report.py renders from the files of its moment, and a summary is what
\* publish_report.py makes of a report (the steps of run-test.sh).
THEOREM Inductive == Spec => []IInv
<1> QED
  BY InductiveInit, InductiveStep, PTL DEF Spec

-----------------------------------------------------------------------------
(* What a report says                                                      *)

LEMMA SlopeType ==
  ASSUME PipelineOK, NEW slope, slope = AnalyseBacklog(pipeline), slope # None
  PROVE  slope \in [num : Int, den : Int] /\ slope.den > 0
<1>1. slope = LinearSlope(Steady, pipeline)
  BY SteadyIsFitted DEF AnalyseBacklog
<1> QED
  BY <1>1, SteadyIsFitted, SlopeSign

\* For every series of samples, a trend is only named when two samples
\* after the warm-up show it (report.py analyse_backlog, linear_slope).
THEOREM TrendAlwaysReal == Spec => []TrendIsReal
<1>1. IInv => TrendIsReal
  <2> SUFFICES ASSUME IInv, report # None PROVE TrendIsReal
    BY DEF TrendIsReal
  <2>1. PICK h, v : report = Rendered(h, v)
    BY DEF IInv, Reported
  <2>2. report.trend = Trend(AnalyseBacklog(pipeline))
    BY <2>1 DEF Rendered
  <2>3. /\ report.trend = "GROWING" => Rising
        /\ report.trend = "draining" => Falling
        /\ Cardinality(Steady) >= 4 /\ ~Rising /\ ~Falling => report.trend = "flat"
    BY <2>2, TrendOfSteady DEF IInv
  <2> QED
    BY <2>3 DEF TrendIsReal, Rising, Falling
<1> QED
  BY <1>1, Inductive, PTL

\* The branches of bottleneck() that look at the backlog, and those after it.
LEMMA ConstraintOfSlope ==
  ASSUME NEW file, NEW slope, NEW h, NEW c, c = Bottleneck(file, slope, h)
  PROVE  /\ c = "compaction" => slope # None /\ AboveHalf(slope)
         /\ slope # None /\ AboveHalf(slope)
              => c \notin {"not reached", "CPU", "in-flight bound", "generator"}
<1>1. None \notin Constraints
  BY NoneAssumption
<1>2. StallVerdict(h) \in {"generator", "in-flight bound"}
  BY DEF StallVerdict
<1>3. \/ c \in {None, "collector ingestion queue", "collector accept path"}
      \/ slope # None /\ AboveHalf(slope) /\ c = "compaction"
      \/ ~(slope # None /\ AboveHalf(slope))
           /\ c \in {StallVerdict(h), "CPU", "not reached"}
  BY DEF Bottleneck
<1> QED
  BY <1>1, <1>2, <1>3 DEF Constraints

\* The constraint and the backlog section never disagree, whatever the run.
THEOREM ConstraintAlwaysFollows == Spec => []ConstraintFollowsTrend
<1>1. IInv => ConstraintFollowsTrend
  <2> SUFFICES ASSUME IInv, report # None PROVE ConstraintFollowsTrend
    BY DEF ConstraintFollowsTrend
  <2> DEFINE slope == AnalyseBacklog(pipeline)
  <2>1. PICK h, v : report = Rendered(h, v)
    BY DEF IInv, Reported
  <2>2. report.trend = Trend(slope) /\ report.constraint = Bottleneck(generator, slope, h)
    BY <2>1 DEF Rendered
  <2>3. slope # None => slope \in [num : Int, den : Int] /\ slope.den > 0
    BY SlopeType DEF IInv
  <2>4. report.trend = "GROWING" => slope # None
    BY <2>2, NoneAssumption DEF Trend, Trends
  <2> HIDE DEF slope
  <2>5. slope # None /\ AboveHalf(slope) => report.trend = "GROWING"
    BY <2>2, <2>3, TrendOfSlope
  <2>6. /\ report.constraint = "compaction" => slope # None /\ AboveHalf(slope)
        /\ slope # None /\ AboveHalf(slope)
             => report.constraint \notin {"not reached", "CPU", "in-flight bound", "generator"}
    BY <2>2, ConstraintOfSlope
  <2> QED
    BY <2>4, <2>5, <2>6 DEF ConstraintFollowsTrend, slope
<1> QED
  BY <1>1, Inductive, PTL

\* The sustainable rate of every report is the end of the unbroken run of
\* levels that held (report.py:933).
THEOREM SustainableAlwaysPrefix == Spec => []SustainableIsPrefix
<1>1. IInv => SustainableIsPrefix
  <2> SUFFICES ASSUME IInv, report # None, report.table # <<>> PROVE SustainableIsPrefix
    BY DEF SustainableIsPrefix
  <2> DEFINE ss == StepsOf(generator)
  <2>1. PICK h, v : report = Rendered(h, v)
    BY DEF IInv, Reported
  <2>2. /\ report.table = IF Len(ss) > 1 THEN ss ELSE <<>>
        /\ report.sustainable = IF Len(ss) > 1 THEN Sustainable(ss) ELSE None
    BY <2>1 DEF Rendered
  <2>3. report.table = ss /\ report.sustainable = Sustainable(ss)
    BY <2>2
  <2>4. Len(ss) \in Nat
    BY DEF IInv, Books, StepsOf
  <2> HIDE DEF ss
  <2>5. /\ \A i \in 1..report.sustainable : Holds(ss[i])
        /\ report.sustainable < Len(ss) => ~Holds(ss[report.sustainable + 1])
    BY <2>3, <2>4, SustainableIsLoop
  <2> QED
    BY <2>3, <2>5 DEF SustainableIsPrefix
<1> QED
  BY <1>1, Inductive, PTL

-----------------------------------------------------------------------------
(* The summary next to the report                                          *)

\* A level that fell short while the totals agree is made up for by late acks,
\* in a level after it or in none.
LEMMA ShortIsMadeUp ==
  ASSUME Books, SumFunction(AcceptedOf(steps)) + late = SumFunction(OfferedOf(steps)),
         NEW i \in DOMAIN steps, steps[i].accepted < steps[i].offered
  PROVE  late > 0 \/ \E j \in DOMAIN steps : j > i /\ steps[j].accepted > steps[j].offered
<1> SUFFICES ASSUME ~ (late > 0),
                    \A j \in DOMAIN steps : j > i => ~ (steps[j].accepted > steps[j].offered)
             PROVE  FALSE
  OBVIOUS
<1> DEFINE n == Len(steps)
           a == AcceptedOf(steps)
           o == OfferedOf(steps)
           before == 1..i-1
           after == i+1..n
<1>1. /\ steps \in Seq(JudgedLevel) /\ late = 0 /\ DOMAIN steps = 1..n /\ n \in Nat
      /\ \A k \in 0..n : SumFunctionOnSet(a, 1..k) <= SumFunctionOnSet(o, 1..k)
  BY DEF Books, Covered
<1>2. \A j \in 1..n : steps[j] \in JudgedLevel
  BY <1>1
<1>3. /\ \A j \in 1..n : a[j] \in Int /\ o[j] \in Int
      /\ \A j \in 1..n : a[j] = steps[j].accepted /\ o[j] = steps[j].offered
      /\ SumFunction(a) = SumFunctionOnSet(a, 1..n)
      /\ SumFunction(o) = SumFunctionOnSet(o, 1..n)
  BY <1>1, <1>2 DEF AcceptedOf, OfferedOf, JudgedLevel, SumFunction
<1> HIDE DEF n, a, o
<1>4. i \in 1..n
  BY <1>1
<1>5. i \in Int /\ i - 1 \in 0..n /\ i - 1 \in Int /\ i + 1 \in Int /\ n \in Int /\ 1 \in Int
  BY <1>1, <1>4
<1>6. IsFiniteSet(before) /\ IsFiniteSet(after)
  BY <1>5, FS_Interval
<1>7. /\ before \subseteq 1..n /\ after \subseteq 1..n
      /\ i \notin before /\ i \notin after /\ before \cap after = {}
      /\ (before \cup {i}) \cap after = {} /\ (before \cup {i}) \cup after = 1..n
      /\ \A j \in after : j > i
  BY <1>1, <1>4
<1> HIDE DEF before, after
<1>8. SumFunctionOnSet(a, before) <= SumFunctionOnSet(o, before)
  BY <1>1, <1>5 DEF before
<1>9. IsFiniteSet(before \cup {i})
  BY <1>6, FS_AddElement
<1>10. ASSUME NEW f, \A j \in 1..n : f[j] \in Int
       PROVE  /\ SumFunctionOnSet(f, 1..n) = SumFunctionOnSet(f, before) + f[i]
                                              + SumFunctionOnSet(f, after)
              /\ {SumFunctionOnSet(f, before), SumFunctionOnSet(f, after), f[i]} \subseteq Int
  <2>1. \A j \in before \cup {i} : f[j] \in Int
    BY <1>4, <1>7, <1>10
  <2>2. \A j \in (before \cup {i}) \cup after : f[j] \in Int
    BY <1>7, <1>10
  <2>3. SumFunctionOnSet(f, before \cup {i}) = SumFunctionOnSet(f, before) + f[i]
    BY <1>6, <1>7, <2>1, SumAdd
  <2>4. SumFunctionOnSet(f, (before \cup {i}) \cup after)
          = SumFunctionOnSet(f, before \cup {i}) + SumFunctionOnSet(f, after)
    BY <1>6, <1>7, <1>9, <2>2, SumUnion
  <2>5. SumFunctionOnSet(f, before) \in Int /\ SumFunctionOnSet(f, after) \in Int
    BY <1>6, <2>1, <2>2, SumType
  <2>6. f[i] \in Int
    BY <1>4, <1>10
  <2>7. SumFunctionOnSet(f, 1..n) = SumFunctionOnSet(f, (before \cup {i}) \cup after)
    BY <1>7, Zenon
  <2> QED
    BY <2>3, <2>4, <2>5, <2>6, <2>7
<1>11. SumFunctionOnSet(a, after) <= SumFunctionOnSet(o, after)
  <2>1. \A j \in after : a[j] \in Int /\ o[j] \in Int /\ a[j] <= o[j]
    <3> SUFFICES ASSUME NEW j \in after PROVE a[j] \in Int /\ o[j] \in Int /\ a[j] <= o[j]
      OBVIOUS
    <3>1. j \in 1..n /\ j > i
      BY <1>7
    <3>2. ~ (steps[j].accepted > steps[j].offered)
      BY <1>1, <3>1
    <3> QED
      BY <1>3, <3>1, <3>2
  <2> QED
    BY <1>6, <2>1, SumMonotonic
<1>12. a[i] < o[i]
  BY <1>3, <1>4
<1>13. SumFunctionOnSet(a, 1..n) < SumFunctionOnSet(o, 1..n)
  BY <1>3, <1>8, <1>10, <1>11, <1>12
<1>14. SumFunction(a) + 0 = SumFunction(o)
  BY <1>1 DEF a, o
<1>15. SumFunctionOnSet(a, 1..n) \in Int /\ SumFunctionOnSet(o, 1..n) \in Int
  BY <1>3, <1>10
<1> QED
  BY <1>3, <1>13, <1>14, <1>15

\* What the totals of generator.json say of its levels.
LEMMA TotalsOfLevels ==
  ASSUME Books
  PROVE  LET O == SumFunction(OfferedOf(steps))
             A == SumFunction(AcceptedOf(steps))
             R == SumFunction(RejectedOf(steps))
         IN /\ O \in Nat /\ A \in Nat /\ R \in Nat
            /\ R = 0 <=> \A i \in DOMAIN steps : ~ (steps[i].rejected > 0)
            /\ (\A i \in DOMAIN steps : ~ (steps[i].accepted < steps[i].offered)) => A >= O
            /\ ~ (O > 0) => \A i \in DOMAIN steps : steps[i].offered = 0
<1> DEFINE n == Len(steps)
           a == AcceptedOf(steps)
           o == OfferedOf(steps)
           q == RejectedOf(steps)
           S == 1..n
<1>1. n \in Nat /\ DOMAIN steps = S /\ \A i \in S : steps[i] \in JudgedLevel
  BY DEF Books
<1>2. IsFiniteSet(S)
  <2>1. n \in Int /\ 1 \in Int
    BY <1>1
  <2> QED
    BY <2>1, FS_Interval
<1>3. DOMAIN a = S /\ DOMAIN o = S /\ DOMAIN q = S
  BY <1>1 DEF AcceptedOf, OfferedOf, RejectedOf
<1>4. \A i \in S : /\ a[i] = steps[i].accepted /\ o[i] = steps[i].offered
                   /\ q[i] = steps[i].rejected
  BY <1>1 DEF AcceptedOf, OfferedOf, RejectedOf
<1> HIDE DEF a, o, q, S
<1>5. \A i \in S : a[i] \in Nat /\ o[i] \in Nat /\ q[i] \in Nat
  BY <1>1, <1>4 DEF JudgedLevel
<1>6. /\ SumFunction(a) = SumFunctionOnSet(a, S) /\ SumFunction(o) = SumFunctionOnSet(o, S)
      /\ SumFunction(q) = SumFunctionOnSet(q, S)
  BY <1>3 DEF SumFunction
<1>7. SumFunction(a) \in Nat /\ SumFunction(o) \in Nat /\ SumFunction(q) \in Nat
  BY <1>2, <1>5, <1>6, SumNat
<1>8. ASSUME NEW f, \A i \in S : f[i] \in Nat, ~ (SumFunctionOnSet(f, S) > 0)
      PROVE  \A i \in S : f[i] = 0
  <2> SUFFICES ASSUME NEW i \in S PROVE f[i] = 0
    OBVIOUS
  <2>1. f[i] <= SumFunctionOnSet(f, S) /\ SumFunctionOnSet(f, S) \in Nat
    BY <1>2, <1>8, SumBoundsEach, SumNat
  <2>2. f[i] \in Nat
    BY <1>8
  <2> QED
    BY <1>8, <2>1, <2>2
<1>9. ~ (SumFunction(o) > 0) => \A i \in S : steps[i].offered = 0
  BY <1>4, <1>5, <1>6, <1>8
<1>10. SumFunction(q) = 0 => \A i \in S : ~ (steps[i].rejected > 0)
  <2> SUFFICES ASSUME SumFunction(q) = 0 PROVE \A i \in S : ~ (steps[i].rejected > 0)
    OBVIOUS
  <2>1. \A i \in S : q[i] = 0
    BY <1>5, <1>6, <1>8
  <2> QED
    BY <1>4, <2>1
<1>11. (\A i \in S : ~ (steps[i].rejected > 0)) => SumFunction(q) = 0
  <2> SUFFICES ASSUME \A i \in S : ~ (steps[i].rejected > 0) PROVE SumFunction(q) = 0
    OBVIOUS
  <2>1. \A i \in S : q[i] \in Int /\ q[i] = -q[i]
    BY <1>4, <1>5
  <2>2. SumFunctionOnSet(q, S) = -SumFunctionOnSet(q, S)
    BY <1>2, <2>1, SumNegated
  <2> QED
    BY <1>6, <1>7, <2>2
<1>12. (\A i \in S : ~ (steps[i].accepted < steps[i].offered))
         => SumFunction(a) >= SumFunction(o)
  <2> SUFFICES ASSUME \A i \in S : ~ (steps[i].accepted < steps[i].offered)
               PROVE  SumFunction(a) >= SumFunction(o)
    OBVIOUS
  <2>1. \A i \in S : o[i] \in Int /\ a[i] \in Int /\ o[i] <= a[i]
    BY <1>4, <1>5
  <2>2. SumFunctionOnSet(o, S) <= SumFunctionOnSet(a, S)
    BY <1>2, <2>1, SumMonotonic
  <2> QED
    BY <1>6, <1>7, <2>2
<1> QED
  BY <1>1, <1>7, <1>9, <1>10, <1>11, <1>12 DEF a, o, q

\* A summary that calls every step clean stands over levels without a
\* rejection, whose shortfalls were acked late, and next to a report that
\* blames neither; one that does not sends the reader to a level with a
\* rejection or a shortfall (publish_report.py main()).
THEOREM SummaryAlwaysFollows == Spec => []SummaryFollowsLevels
<1>1. IInv => SummaryFollowsLevels
  <2> SUFFICES ASSUME IInv, published # None PROVE SummaryFollowsLevels
    BY DEF SummaryFollowsLevels
  <2>1. PICK h, v : published = [Publication EXCEPT !.detail = Rendered(h, v)]
    BY DEF IInv, Published
  <2> DEFINE t == IF generator = None THEN [offered |-> 0, accepted |-> 0, rejected |-> 0]
                  ELSE generator.totals
             O == SumFunction(OfferedOf(steps))
             A == SumFunction(AcceptedOf(steps))
             R == SumFunction(RejectedOf(steps))
  <2>2. /\ published.clean = AllClean(t) /\ published.rows = StepsOf(generator)
        /\ published.detail = Rendered(h, v)
    BY <2>1 DEF Publication
  <2>3. Books /\ O \in Nat /\ A \in Nat /\ R \in Nat /\ late \in Nat /\ A + late <= O
    BY TotalsOfLevels DEF IInv, Books, Covered
  <2>4. CASE generator = None
    <3>1. published.rows = <<>>
      BY <2>2, <2>4 DEF StepsOf
    <3>2. t.offered = 0
      BY <2>4
    <3> HIDE DEF t, O, A, R
    <3>3. ~AllClean(t)
      BY <3>2 DEF AllClean
    <3>4. ~published.clean
      BY <2>2, <3>3, Zenon
    <3>5. \A i \in DOMAIN published.rows : published.rows[i].offered = 0
      BY <3>1
    <3> QED
      BY <3>4, <3>5, Zenon DEF SummaryFollowsLevels
  <2>5. CASE generator # None
    <3>1. /\ t.offered = O /\ t.accepted = A + late /\ t.rejected = R
          /\ published.rows = steps
      <4>1. generator = [steps  |-> steps,
                         totals |-> [offered |-> O, accepted |-> A + late, rejected |-> R]]
        BY <2>3, <2>5 DEF Books
      <4> HIDE DEF O, A, R
      <4> QED
        BY <2>2, <2>5, <4>1 DEF StepsOf
    <3>2. /\ R = 0 <=> \A i \in DOMAIN steps : ~ (steps[i].rejected > 0)
          /\ (\A i \in DOMAIN steps : ~ (steps[i].accepted < steps[i].offered)) => A >= O
          /\ ~ (O > 0) => \A i \in DOMAIN steps : steps[i].offered = 0
      BY <2>3, TotalsOfLevels
    <3>3. A + late = O =>
            \A i \in DOMAIN steps : steps[i].accepted < steps[i].offered =>
              late > 0 \/ \E j \in DOMAIN steps : j > i /\ steps[j].accepted > steps[j].offered
      BY <2>3, ShortIsMadeUp
    <3>4. published.detail.constraint = Bottleneck(generator, AnalyseBacklog(pipeline), h)
      <4>1. Rendered(h, v).constraint = Bottleneck(generator, AnalyseBacklog(pipeline), h)
        BY DEF Rendered
      <4> HIDE DEF t
      <4> QED
        BY <2>2, <4>1
    <3>5. t = generator.totals
      BY <2>5
    <3> HIDE DEF t, O, A, R
    <3>6. published.clean <=> R = 0 /\ O = A + late /\ O > 0
      BY <2>2, <3>1 DEF AllClean
    <3>7. CASE published.clean
      <4>1. /\ \A i \in DOMAIN steps : ~ (steps[i].rejected > 0)
            /\ \A i \in DOMAIN steps : steps[i].accepted < steps[i].offered =>
                 late > 0 \/ \E j \in DOMAIN steps : j > i /\ steps[j].accepted > steps[j].offered
        BY <3>2, <3>3, <3>6, <3>7
      <4>2. ~ (t.rejected > 0) /\ ~ (100 * t.accepted < 99 * t.offered)
        BY <2>3, <3>1, <3>6, <3>7
      <4>3. StallVerdict(h) \in {"generator", "in-flight bound"}
        BY DEF StallVerdict
      <4>4. published.detail.constraint
              \notin {"collector ingestion queue", "collector accept path"}
        BY <2>5, <3>4, <3>5, <4>2, <4>3, NoneAssumption DEF Bottleneck, Constraints
      <4> QED
        BY <3>1, <3>7, <4>1, <4>4 DEF SummaryFollowsLevels
    <3>8. CASE ~published.clean
      <4>1. \/ \E i \in DOMAIN steps : steps[i].rejected > 0
            \/ \E i \in DOMAIN steps : steps[i].accepted < steps[i].offered
            \/ \A i \in DOMAIN steps : steps[i].offered = 0
        <5>1. R # 0 \/ A < O \/ ~ (O > 0)
          BY <2>3, <3>6, <3>8
        <5> QED
          BY <2>3, <3>2, <5>1
      <4> QED
        BY <3>1, <3>8, <4>1 DEF SummaryFollowsLevels
    <3> QED
      BY <3>7, <3>8
  <2> QED
    BY <2>4, <2>5
<1> QED
  BY <1>1, Inductive, PTL
=============================================================================
