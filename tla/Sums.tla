-------------------------------- MODULE Sums --------------------------------
(***************************************************************************)
(* Sums of a function's values over a finite set, as the reports add up    *)
(* their levels, samples and runs: the facts the proofs about them need.   *)
(*                                                                         *)
(* A fold is a recursive function over the subsets of its set, so that     *)
(* each fact is an induction over a finite set.  The induction principles  *)
(* are stated for a set P of the cases that hold, not for a predicate:     *)
(* they follow from the well-foundedness of strict inclusion.              *)
(***************************************************************************)
EXTENDS Integers, FiniteSets, Functions, FiniteSetTheorems,
        WellFoundedInduction, TLAPS

\* What holds of a set as soon as it holds of the set with any one element
\* removed, and holds of the empty set, holds of every finite set.
LEMMA SetInduction ==
  ASSUME NEW S, IsFiniteSet(S), NEW P, {} \in P,
         \A T \in SUBSET S : T # {} /\ (\A x \in T : T \ {x} \in P) => T \in P
  PROVE  S \in P
<1> SUFFICES ASSUME S \notin P PROVE FALSE
  OBVIOUS
<1> DEFINE Bad == {T \in FiniteSubsetsOf(S) : T \notin P}
<1>1. Bad \subseteq FiniteSubsetsOf(S) /\ S \in Bad
  BY DEF FiniteSubsetsOf
<1>2. PICK T \in Bad : \A U \in Bad : <<U, T>> \notin StrictSubsetOrdering(S)
  <2> DEFINE R == StrictSubsetOrdering(S)
  <2>1. IsWellFoundedOn(R, FiniteSubsetsOf(S))
    BY FS_StrictSubsetOrderingWellFounded
  <2>2. Bad # {}
    BY <1>1
  <2> HIDE DEF R, Bad
  <2>3. \E T \in Bad : \A U \in Bad : ~ (<<U, T>> \in R)
    BY <1>1, <2>1, <2>2, WFMin
  <2> QED
    BY <2>3 DEF R
<1>3. T # {} /\ T \in SUBSET S /\ T \notin P
  BY <1>2 DEF FiniteSubsetsOf
<1>4. ASSUME NEW x \in T PROVE T \ {x} \in P
  <2>1. /\ T \ {x} \in FiniteSubsetsOf(S)
        /\ <<T \ {x}, T>> \in StrictSubsetOrdering(S)
    BY <1>2, FS_RemoveElement DEF FiniteSubsetsOf, StrictSubsetOrdering
  <2> QED
    BY <1>2, <2>1
<1> QED
  BY <1>3, <1>4

\* Induction along an interval.
LEMMA IntervalInduction ==
  ASSUME NEW n \in Nat, NEW P, 0 \in P, \A k \in 0..n-1 : k \in P => k + 1 \in P
  PROVE  n \in P
<1> DEFINE Q == {T \in SUBSET (1..n) : Cardinality(T) \in P}
<1>1. IsFiniteSet(1..n) /\ Cardinality(1..n) = n
  BY FS_Interval
<1>2. {} \in Q
  BY FS_EmptySet
<1>3. ASSUME NEW T \in SUBSET (1..n), T # {}, \A x \in T : T \ {x} \in Q
      PROVE  T \in Q
  <2>1. PICK x : x \in T
    BY <1>3
  <2>2. IsFiniteSet(T) /\ Cardinality(T) \in Nat /\ Cardinality(T) <= n
    BY <1>1, FS_Subset, FS_CardinalityType
  <2>3. Cardinality(T \ {x}) = Cardinality(T) - 1 /\ Cardinality(T \ {x}) \in P
    BY <1>3, <2>1, <2>2, FS_RemoveElement
  <2>4. Cardinality(T) # 0
    BY <2>1, <2>2, FS_EmptySet
  <2>5. Cardinality(T) - 1 \in 0..n-1
    BY <2>2, <2>4
  <2>6. (Cardinality(T) - 1) + 1 \in P
    BY <2>3, <2>5
  <2> QED
    BY <2>2, <2>6
<1> HIDE DEF Q
<1>4. 1..n \in Q
  BY <1>1, <1>2, <1>3, SetInduction
<1> QED
  BY <1>1, <1>4 DEF Q

-----------------------------------------------------------------------------
(* The fold behind SumFunctionOnSet                                        *)

First(s) == CHOOSE x \in s : TRUE

\* One turn of the fold: h has the sums of the smaller sets.
Turn(f, h, s) == IF s = {} THEN 0 ELSE f[First(s)] + h[s \ {First(s)}]

\* There is a function that satisfies the recursion of the fold: it is built
\* up by the size of the sets.
LEMMA FoldExists ==
  ASSUME NEW f, NEW S, IsFiniteSet(S)
  PROVE  \E h : h = [s \in SUBSET S |-> Turn(f, h, s)]
<1> DEFINE Sized(k) == {s \in SUBSET S : Cardinality(s) <= k}
           Good == {k \in Nat : \E h : h = [s \in Sized(k) |-> Turn(f, h, s)]}
           n == Cardinality(S)
<1>1. n \in Nat /\ Sized(n) = SUBSET S
  BY FS_CardinalityType, FS_Subset
<1>2. \A s \in SUBSET S : IsFiniteSet(s) /\ Cardinality(s) \in Nat
  BY FS_Subset, FS_CardinalityType
<1>3. \A s \in SUBSET S : s # {} =>
        /\ First(s) \in s /\ s \ {First(s)} \in SUBSET S
        /\ Cardinality(s \ {First(s)}) = Cardinality(s) - 1
  BY <1>2, FS_RemoveElement DEF First
<1>4. 0 \in Good
  <2> DEFINE h == [s \in Sized(0) |-> 0]
  <2>1. \A s \in Sized(0) : s = {}
    BY <1>2, FS_EmptySet
  <2>2. h = [s \in Sized(0) |-> Turn(f, h, s)]
    BY <2>1 DEF Turn
  <2> QED
    BY <2>2
<1>5. ASSUME NEW k \in 0..n-1, k \in Good
      PROVE  k + 1 \in Good
  <2>1. PICK g : g = [s \in Sized(k) |-> Turn(f, g, s)]
    BY <1>5
  <2> DEFINE h == [s \in Sized(k+1) |-> Turn(f, g, s)]
  <2>2. ASSUME NEW s \in Sized(k) PROVE s \in Sized(k+1) /\ h[s] = g[s]
    <3>1. s \in Sized(k+1)
      BY <1>2
    <3> QED
      BY <2>1, <3>1
  <2>3. ASSUME NEW s \in Sized(k+1) PROVE h[s] = Turn(f, h, s)
    <3>1. s # {} => s \ {First(s)} \in Sized(k)
      BY <1>2, <1>3
    <3>2. s # {} => h[s \ {First(s)}] = g[s \ {First(s)}]
      BY <2>2, <3>1
    <3> QED
      BY <3>2 DEF Turn
  <2>4. h = [s \in Sized(k+1) |-> Turn(f, h, s)]
    BY <2>3
  <2>5. \E g1 : g1 = [s \in Sized(k+1) |-> Turn(f, g1, s)]
    BY <2>4
  <2> HIDE DEF Sized
  <2> QED
    BY <1>1, <2>5
<1> HIDE DEF Good
<1>6. n \in Good
  BY <1>1, <1>4, <1>5, IntervalInduction
<1> QED
  BY <1>1, <1>6 DEF Good

LEMMA FoldDef ==
  ASSUME NEW f, NEW S, IsFiniteSet(S)
  PROVE  \E h : h = [s \in SUBSET S |-> Turn(f, h, s)] /\ SumFunctionOnSet(f, S) = h[S]
<1> DEFINE h == CHOOSE h : h = [s \in SUBSET S |-> Turn(f, h, s)]
<1>1. SumFunctionOnSet(f, S) = h[S]
  BY DEF SumFunctionOnSet, FoldFunctionOnSet, MapThenFoldSet, Turn, First
<1>2. h = [s \in SUBSET S |-> Turn(f, h, s)]
  BY FoldExists
<1> QED
  BY <1>1, <1>2

\* Two functions that satisfy the recursion on the subsets of A agree on A.
LEMMA FoldUnique ==
  ASSUME NEW f, NEW A, IsFiniteSet(A), NEW g, NEW h,
         \A s \in SUBSET A : g[s] = Turn(f, g, s) /\ h[s] = Turn(f, h, s)
  PROVE  g[A] = h[A]
<1> DEFINE P == {s \in SUBSET A : g[s] = h[s]}
<1>1. {} \in P
  BY DEF Turn
<1>2. ASSUME NEW T \in SUBSET A, T # {}, \A x \in T : T \ {x} \in P
      PROVE  T \in P
  <2>1. g[T \ {First(T)}] = h[T \ {First(T)}]
    BY <1>2 DEF First
  <2> QED
    BY <1>2, <2>1 DEF Turn
<1> HIDE DEF P
<1>3. A \in P
  BY <1>1, <1>2, SetInduction
<1> QED
  BY <1>3 DEF P

LEMMA SumEmpty ==
  ASSUME NEW f
  PROVE  SumFunctionOnSet(f, {}) = 0
<1>1. PICK h : h = [s \in SUBSET {} |-> Turn(f, h, s)] /\ SumFunctionOnSet(f, {}) = h[{}]
  BY FoldDef, FS_EmptySet
<1>2. h[{}] = Turn(f, h, {})
  BY <1>1
<1> QED
  BY <1>1, <1>2 DEF Turn

\* The sum as the fold takes it: the element it chooses, and the rest.
LEMMA SumFirst ==
  ASSUME NEW f, NEW S, IsFiniteSet(S), S # {}
  PROVE  /\ First(S) \in S
         /\ SumFunctionOnSet(f, S) = f[First(S)] + SumFunctionOnSet(f, S \ {First(S)})
<1> DEFINE R == S \ {First(S)}
<1>1. First(S) \in S /\ IsFiniteSet(R) /\ R \subseteq S
  BY FS_RemoveElement DEF First
<1>2. PICK h : h = [s \in SUBSET S |-> Turn(f, h, s)] /\ SumFunctionOnSet(f, S) = h[S]
  BY FoldDef
<1> HIDE DEF R
<1>3. PICK g : g = [s \in SUBSET R |-> Turn(f, g, s)] /\ SumFunctionOnSet(f, R) = g[R]
  BY <1>1, FoldDef
<1>4. \A s \in SUBSET R : g[s] = Turn(f, g, s) /\ h[s] = Turn(f, h, s)
  BY <1>1, <1>2, <1>3
<1>5. g[R] = h[R]
  BY <1>1, <1>4, FoldUnique
<1>6. h[S] = Turn(f, h, S)
  BY <1>2
<1>7. h[S] = f[First(S)] + h[R]
  BY <1>6 DEF Turn, R
<1> QED
  BY <1>1, <1>2, <1>3, <1>5, <1>7 DEF R

-----------------------------------------------------------------------------
(* Sums of integers                                                        *)

LEMMA SumType ==
  ASSUME NEW S, IsFiniteSet(S), NEW f, \A x \in S : f[x] \in Int
  PROVE  SumFunctionOnSet(f, S) \in Int
<1> DEFINE P == {T \in SUBSET S : SumFunctionOnSet(f, T) \in Int}
<1>1. {} \in P
  BY SumEmpty
<1>2. ASSUME NEW T \in SUBSET S, T # {}, \A x \in T : T \ {x} \in P
      PROVE  T \in P
  <2>1. IsFiniteSet(T)
    BY FS_Subset
  <2>2. /\ First(T) \in T
        /\ SumFunctionOnSet(f, T) = f[First(T)] + SumFunctionOnSet(f, T \ {First(T)})
    BY <1>2, <2>1, SumFirst
  <2>3. SumFunctionOnSet(f, T \ {First(T)}) \in Int
    BY <1>2, <2>2
  <2> QED
    BY <2>2, <2>3
<1> HIDE DEF P
<1>3. S \in P
  BY <1>1, <1>2, SetInduction
<1> QED
  BY <1>3 DEF P

\* The order in which the fold takes the elements does not matter.
LEMMA SumRemove ==
  ASSUME NEW S, IsFiniteSet(S), NEW f, \A x \in S : f[x] \in Int, NEW x \in S
  PROVE  SumFunctionOnSet(f, S) = f[x] + SumFunctionOnSet(f, S \ {x})
<1> DEFINE sum(T) == SumFunctionOnSet(f, T)
           P == {T \in SUBSET S : \A y \in T : sum(T) = f[y] + sum(T \ {y})}
<1>1. {} \in P
  OBVIOUS
<1>2. ASSUME NEW T \in SUBSET S, T # {}, \A y \in T : T \ {y} \in P
      PROVE  T \in P
  <2> SUFFICES ASSUME NEW y \in T PROVE sum(T) = f[y] + sum(T \ {y})
    OBVIOUS
  <2> DEFINE c == First(T)
             U == (T \ {c}) \ {y}
  <2>1. IsFiniteSet(T) /\ IsFiniteSet(T \ {c}) /\ IsFiniteSet(T \ {y}) /\ IsFiniteSet(U)
    BY FS_Subset
  <2>2. c \in T /\ sum(T) = f[c] + sum(T \ {c})
    BY <1>2, <2>1, SumFirst
  <2>3. CASE y = c
    BY <2>2, <2>3
  <2>4. CASE y # c
    <3>1. sum(T \ {c}) = f[y] + sum(U)
      BY <1>2, <2>2, <2>4
    <3>2. (T \ {y}) \ {c} = U
      OBVIOUS
    <3>3. sum(T \ {y}) = f[c] + sum((T \ {y}) \ {c})
      BY <1>2, <2>2, <2>4
    <3>4. \A z \in U : f[z] \in Int
      OBVIOUS
    <3>5. sum(U) \in Int
      BY <2>1, <3>4, SumType
    <3>6. f[c] \in Int /\ f[y] \in Int
      BY <2>2
    <3>7. sum((T \ {y}) \ {c}) = sum(U)
      BY <3>2, Zenon
    <3> HIDE DEF c, U, sum
    <3> QED
      BY <2>2, <3>1, <3>3, <3>5, <3>6, <3>7
  <2> QED
    BY <2>3, <2>4
<1> HIDE DEF P
<1>3. S \in P
  BY <1>1, <1>2, SetInduction
<1> QED
  BY <1>3 DEF P

\* An element more.
LEMMA SumAdd ==
  ASSUME NEW S, IsFiniteSet(S), NEW x, x \notin S,
         NEW f, \A y \in S \cup {x} : f[y] \in Int
  PROVE  SumFunctionOnSet(f, S \cup {x}) = SumFunctionOnSet(f, S) + f[x]
<1>1. IsFiniteSet(S \cup {x}) /\ (S \cup {x}) \ {x} = S
  BY FS_AddElement
<1>2. SumFunctionOnSet(f, S \cup {x}) = f[x] + SumFunctionOnSet(f, (S \cup {x}) \ {x})
  BY <1>1, SumRemove
<1>3. SumFunctionOnSet(f, S) \in Int
  BY SumType
<1>4. SumFunctionOnSet(f, (S \cup {x}) \ {x}) = SumFunctionOnSet(f, S)
  BY <1>1, Zenon
<1> QED
  BY <1>2, <1>3, <1>4

\* A larger summand everywhere, a larger sum.
LEMMA SumMonotonic ==
  ASSUME NEW S, IsFiniteSet(S), NEW f, NEW g,
         \A x \in S : f[x] \in Int /\ g[x] \in Int /\ f[x] <= g[x]
  PROVE  SumFunctionOnSet(f, S) <= SumFunctionOnSet(g, S)
<1> DEFINE P == {T \in SUBSET S : SumFunctionOnSet(f, T) <= SumFunctionOnSet(g, T)}
<1>1. {} \in P
  BY SumEmpty
<1>2. ASSUME NEW T \in SUBSET S, T # {}, \A x \in T : T \ {x} \in P
      PROVE  T \in P
  <2>1. IsFiniteSet(T)
    BY FS_Subset
  <2>2. PICK x : x \in T
    BY <1>2
  <2>3. IsFiniteSet(T \ {x})
    BY FS_Subset
  <2>4. /\ SumFunctionOnSet(f, T) = f[x] + SumFunctionOnSet(f, T \ {x})
        /\ SumFunctionOnSet(g, T) = g[x] + SumFunctionOnSet(g, T \ {x})
    BY <2>1, <2>2, SumRemove
  <2>5. SumFunctionOnSet(f, T \ {x}) \in Int /\ SumFunctionOnSet(g, T \ {x}) \in Int
    BY <2>3, SumType
  <2>6. SumFunctionOnSet(f, T \ {x}) <= SumFunctionOnSet(g, T \ {x})
    BY <1>2, <2>2
  <2>7. f[x] \in Int /\ g[x] \in Int /\ f[x] <= g[x]
    BY <2>2
  <2> QED
    BY <2>4, <2>5, <2>6, <2>7
<1> HIDE DEF P
<1>3. S \in P
  BY <1>1, <1>2, SetInduction
<1> QED
  BY <1>3 DEF P

LEMMA SumSame ==
  ASSUME NEW S, IsFiniteSet(S), NEW f, NEW g,
         \A x \in S : f[x] \in Int /\ f[x] = g[x]
  PROVE  SumFunctionOnSet(f, S) = SumFunctionOnSet(g, S)
<1>1. /\ SumFunctionOnSet(f, S) <= SumFunctionOnSet(g, S)
      /\ SumFunctionOnSet(g, S) <= SumFunctionOnSet(f, S)
  BY SumMonotonic
<1>2. SumFunctionOnSet(f, S) \in Int /\ SumFunctionOnSet(g, S) \in Int
  BY SumType
<1> QED
  BY <1>1, <1>2

\* One summand changes.
LEMMA SumChange ==
  ASSUME NEW S, IsFiniteSet(S), NEW f, NEW g, NEW x \in S,
         \A y \in S : f[y] \in Int /\ g[y] \in Int,
         \A y \in S \ {x} : g[y] = f[y]
  PROVE  SumFunctionOnSet(g, S) = SumFunctionOnSet(f, S) + (g[x] - f[x])
<1>1. IsFiniteSet(S \ {x})
  BY FS_Subset
<1>2. SumFunctionOnSet(g, S \ {x}) = SumFunctionOnSet(f, S \ {x})
  BY <1>1, SumSame
<1>3. /\ SumFunctionOnSet(f, S) = f[x] + SumFunctionOnSet(f, S \ {x})
      /\ SumFunctionOnSet(g, S) = g[x] + SumFunctionOnSet(g, S \ {x})
  BY SumRemove
<1>4. SumFunctionOnSet(f, S \ {x}) \in Int
  BY <1>1, SumType
<1>5. f[x] \in Int /\ g[x] \in Int
  OBVIOUS
<1> QED
  BY <1>2, <1>3, <1>4, <1>5

\* The sum over two disjoint sets.
LEMMA SumUnion ==
  ASSUME NEW A, IsFiniteSet(A), NEW B, IsFiniteSet(B), A \cap B = {},
         NEW f, \A x \in A \cup B : f[x] \in Int
  PROVE  SumFunctionOnSet(f, A \cup B) = SumFunctionOnSet(f, A) + SumFunctionOnSet(f, B)
<1> DEFINE sum(T) == SumFunctionOnSet(f, T)
           P == {T \in SUBSET B : sum(A \cup T) = sum(A) + sum(T)}
<1>0. sum(A) \in Int
  BY SumType
<1>1. {} \in P
  <2>1. A \cup {} = A
    OBVIOUS
  <2> QED
    BY <1>0, <2>1, SumEmpty
<1>2. ASSUME NEW T \in SUBSET B, T # {}, \A x \in T : T \ {x} \in P
      PROVE  T \in P
  <2>1. PICK x : x \in T
    BY <1>2
  <2> DEFINE U == T \ {x}
  <2>2. IsFiniteSet(T) /\ IsFiniteSet(U)
    BY FS_Subset
  <2>3. IsFiniteSet(A \cup T)
    BY <2>2, FS_Union
  <2>4. (A \cup T) \ {x} = A \cup U /\ x \in A \cup T
    BY <2>1
  <2>5. sum(T) = f[x] + sum(U)
    BY <2>1, <2>2, SumRemove
  <2>6. sum(A \cup T) = f[x] + sum((A \cup T) \ {x})
    BY <2>3, <2>4, SumRemove
  <2>7. sum(A \cup U) = sum(A) + sum(U)
    BY <1>2, <2>1
  <2>8. sum(U) \in Int /\ f[x] \in Int
    BY <2>1, <2>2, SumType
  <2>9. sum((A \cup T) \ {x}) = sum(A \cup U)
    BY <2>4, Zenon
  <2>10. sum(A \cup T) = sum(A) + sum(T)
    <3> HIDE DEF sum, U
    <3> QED
      BY <1>0, <2>5, <2>6, <2>7, <2>8, <2>9
  <2> QED
    BY <2>10
<1> HIDE DEF P
<1>3. B \in P
  BY <1>1, <1>2, SetInduction
<1> QED
  BY <1>3 DEF P

LEMMA SumNat ==
  ASSUME NEW S, IsFiniteSet(S), NEW f, \A x \in S : f[x] \in Nat
  PROVE  SumFunctionOnSet(f, S) \in Nat
<1> DEFINE P == {T \in SUBSET S : SumFunctionOnSet(f, T) \in Nat}
<1>1. {} \in P
  BY SumEmpty
<1>2. ASSUME NEW T \in SUBSET S, T # {}, \A x \in T : T \ {x} \in P
      PROVE  T \in P
  <2>1. IsFiniteSet(T)
    BY FS_Subset
  <2>2. /\ First(T) \in T
        /\ SumFunctionOnSet(f, T) = f[First(T)] + SumFunctionOnSet(f, T \ {First(T)})
    BY <1>2, <2>1, SumFirst
  <2> QED
    BY <1>2, <2>2
<1> HIDE DEF P
<1>3. S \in P
  BY <1>1, <1>2, SetInduction
<1> QED
  BY <1>3 DEF P

\* No summand exceeds a sum of naturals; over a smaller set it is no larger.
LEMMA SumSubset ==
  ASSUME NEW S, IsFiniteSet(S), NEW f, \A x \in S : f[x] \in Nat, NEW T \in SUBSET S
  PROVE  SumFunctionOnSet(f, T) <= SumFunctionOnSet(f, S)
<1>1. IsFiniteSet(T) /\ IsFiniteSet(S \ T) /\ T \cup (S \ T) = S
  BY FS_Subset
<1>2. SumFunctionOnSet(f, T) \in Nat /\ SumFunctionOnSet(f, S \ T) \in Nat
  BY <1>1, SumNat
<1>3. SumFunctionOnSet(f, T \cup (S \ T)) = SumFunctionOnSet(f, T) + SumFunctionOnSet(f, S \ T)
  BY <1>1, SumUnion
<1>4. SumFunctionOnSet(f, T \cup (S \ T)) = SumFunctionOnSet(f, S)
  BY <1>1, Zenon
<1> QED
  BY <1>2, <1>3, <1>4

LEMMA SumBoundsEach ==
  ASSUME NEW S, IsFiniteSet(S), NEW f, \A x \in S : f[x] \in Nat, NEW x \in S
  PROVE  f[x] <= SumFunctionOnSet(f, S)
<1>1. IsFiniteSet(S \ {x})
  BY FS_Subset
<1>2. SumFunctionOnSet(f, S \ {x}) \in Nat
  BY <1>1, SumNat
<1>3. SumFunctionOnSet(f, S) = f[x] + SumFunctionOnSet(f, S \ {x})
  BY SumRemove
<1> QED
  BY <1>2, <1>3

LEMMA SumNegated ==
  ASSUME NEW S, IsFiniteSet(S), NEW f, NEW g,
         \A x \in S : f[x] \in Int /\ g[x] = -f[x]
  PROVE  SumFunctionOnSet(g, S) = -SumFunctionOnSet(f, S)
<1> DEFINE P == {T \in SUBSET S : SumFunctionOnSet(g, T) = -SumFunctionOnSet(f, T)}
<1>1. {} \in P
  BY SumEmpty
<1>2. ASSUME NEW T \in SUBSET S, T # {}, \A x \in T : T \ {x} \in P
      PROVE  T \in P
  <2>1. PICK x : x \in T
    BY <1>2
  <2>2. IsFiniteSet(T) /\ IsFiniteSet(T \ {x})
    BY FS_Subset
  <2>3. f[x] \in Int /\ g[x] = -f[x] /\ SumFunctionOnSet(f, T \ {x}) \in Int
    BY <2>1, <2>2, SumType
  <2>4. SumFunctionOnSet(f, T) = f[x] + SumFunctionOnSet(f, T \ {x})
    BY <2>1, <2>2, SumRemove
  <2>5. \A y \in T : g[y] \in Int
    OBVIOUS
  <2>6. SumFunctionOnSet(g, T) = g[x] + SumFunctionOnSet(g, T \ {x})
    BY <2>1, <2>2, <2>5, SumRemove
  <2>7. SumFunctionOnSet(g, T \ {x}) = -SumFunctionOnSet(f, T \ {x})
    BY <1>2, <2>1
  <2> QED
    BY <2>3, <2>4, <2>6, <2>7
<1> HIDE DEF P
<1>3. S \in P
  BY <1>1, <1>2, SetInduction
<1> QED
  BY <1>3 DEF P

LEMMA SumPlus ==
  ASSUME NEW S, IsFiniteSet(S), NEW f, NEW g, NEW h,
         \A x \in S : f[x] \in Int /\ g[x] \in Int /\ h[x] = f[x] + g[x]
  PROVE  SumFunctionOnSet(h, S) = SumFunctionOnSet(f, S) + SumFunctionOnSet(g, S)
<1> DEFINE P == {T \in SUBSET S : SumFunctionOnSet(h, T)
                                    = SumFunctionOnSet(f, T) + SumFunctionOnSet(g, T)}
<1>1. {} \in P
  BY SumEmpty
<1>2. ASSUME NEW T \in SUBSET S, T # {}, \A x \in T : T \ {x} \in P
      PROVE  T \in P
  <2>1. PICK x : x \in T
    BY <1>2
  <2>2. IsFiniteSet(T) /\ IsFiniteSet(T \ {x})
    BY FS_Subset
  <2>3. /\ f[x] \in Int /\ g[x] \in Int /\ h[x] = f[x] + g[x]
        /\ SumFunctionOnSet(f, T \ {x}) \in Int /\ SumFunctionOnSet(g, T \ {x}) \in Int
    BY <2>1, <2>2, SumType
  <2>4. /\ SumFunctionOnSet(f, T) = f[x] + SumFunctionOnSet(f, T \ {x})
        /\ SumFunctionOnSet(g, T) = g[x] + SumFunctionOnSet(g, T \ {x})
    BY <2>1, <2>2, SumRemove
  <2>5. \A y \in T : h[y] \in Int
    OBVIOUS
  <2>6. SumFunctionOnSet(h, T) = h[x] + SumFunctionOnSet(h, T \ {x})
    BY <2>1, <2>2, <2>5, SumRemove
  <2>7. SumFunctionOnSet(h, T \ {x})
          = SumFunctionOnSet(f, T \ {x}) + SumFunctionOnSet(g, T \ {x})
    BY <1>2, <2>1
  <2> QED
    BY <2>3, <2>4, <2>6, <2>7
<1> HIDE DEF P
<1>3. S \in P
  BY <1>1, <1>2, SetInduction
<1> QED
  BY <1>3 DEF P

-----------------------------------------------------------------------------
(* Chebyshev's sum inequality: of two functions that rise together, the    *)
(* product of the sums is at most the number of points times the sum of    *)
(* the products.                                                           *)

\* What one point more adds to the difference of the two sides.
LEMMA Cross ==
  ASSUME NEW S, IsFiniteSet(S), NEW f, NEW g, NEW p, NEW a \in Int, NEW b \in Int,
         \A y \in S : /\ f[y] \in Int /\ g[y] \in Int /\ p[y] = f[y] * g[y]
                      /\ (a - f[y]) * (b - g[y]) >= 0
  PROVE  a * SumFunctionOnSet(g, S) + b * SumFunctionOnSet(f, S)
           <= SumFunctionOnSet(p, S) + Cardinality(S) * (a * b)
<1> DEFINE F(T) == SumFunctionOnSet(f, T)
           G(T) == SumFunctionOnSet(g, T)
           H(T) == SumFunctionOnSet(p, T)
           P == {T \in SUBSET S : a * G(T) + b * F(T) <= H(T) + Cardinality(T) * (a * b)}
<1>1. {} \in P
  BY SumEmpty, FS_EmptySet
<1>2. ASSUME NEW T \in SUBSET S, T # {}, \A x \in T : T \ {x} \in P
      PROVE  T \in P
  <2>1. PICK x : x \in T
    BY <1>2
  <2> DEFINE U == T \ {x}
             n == Cardinality(U)
  <2>2. /\ IsFiniteSet(T) /\ IsFiniteSet(U) /\ n \in Nat
        /\ Cardinality(T) = n + 1
    <3>1. IsFiniteSet(T) /\ IsFiniteSet(U) /\ n \in Nat /\ Cardinality(T) \in Nat
      BY FS_Subset, FS_CardinalityType
    <3> QED
      BY <2>1, <3>1, FS_RemoveElement
  <2>3. /\ f[x] \in Int /\ g[x] \in Int /\ p[x] = f[x] * g[x] /\ p[x] \in Int
        /\ (a - f[x]) * (b - g[x]) >= 0
    BY <2>1
  <2>4. \A y \in T : p[y] \in Int
    OBVIOUS
  <2>5. F(T) = f[x] + F(U) /\ G(T) = g[x] + G(U)
    BY <2>1, <2>2, SumRemove
  <2>6. H(T) = p[x] + H(U)
    BY <2>1, <2>2, <2>4, SumRemove
  <2>7. F(U) \in Int /\ G(U) \in Int
    BY <2>2, SumType
  <2>8. H(U) \in Int
    BY <2>2, <2>4, SumType
  <2>9. a * G(U) + b * F(U) <= H(U) + n * (a * b)
    BY <1>2, <2>1
  <2>10. a * g[x] + b * f[x] <= f[x] * g[x] + a * b
    BY <2>3
  <2>11. a * (g[x] + G(U)) = a * g[x] + a * G(U) /\ b * (f[x] + F(U)) = b * f[x] + b * F(U)
    BY <2>3, <2>7
  <2>12. (n + 1) * (a * b) = n * (a * b) + a * b
    BY <2>2
  <2>13. a * G(T) + b * F(T) <= H(T) + (n + 1) * (a * b)
    <3> HIDE DEF F, G, H, n, U
    <3>1. /\ a * g[x] \in Int /\ b * f[x] \in Int /\ a * G(U) \in Int /\ b * F(U) \in Int
          /\ a * b \in Int /\ n * (a * b) \in Int /\ f[x] * g[x] \in Int
      BY <2>2, <2>3, <2>7
    <3> QED
      BY <2>3, <2>5, <2>6, <2>8, <2>9, <2>10, <2>11, <2>12, <3>1
  <2> QED
    BY <2>2, <2>13
<1> HIDE DEF P
<1>3. S \in P
  BY <1>1, <1>2, SetInduction
<1> QED
  BY <1>3 DEF P

LEMMA Chebyshev ==
  ASSUME NEW S, IsFiniteSet(S), NEW f, NEW g, NEW p,
         \A x \in S : f[x] \in Int /\ g[x] \in Int /\ p[x] = f[x] * g[x],
         \A x, y \in S : (f[x] - f[y]) * (g[x] - g[y]) >= 0
  PROVE  SumFunctionOnSet(f, S) * SumFunctionOnSet(g, S)
           <= Cardinality(S) * SumFunctionOnSet(p, S)
<1> DEFINE F(T) == SumFunctionOnSet(f, T)
           G(T) == SumFunctionOnSet(g, T)
           H(T) == SumFunctionOnSet(p, T)
           P == {T \in SUBSET S : F(T) * G(T) <= Cardinality(T) * H(T)}
<1>1. {} \in P
  BY SumEmpty, FS_EmptySet
<1>2. ASSUME NEW T \in SUBSET S, T # {}, \A x \in T : T \ {x} \in P
      PROVE  T \in P
  <2>1. PICK x : x \in T
    BY <1>2
  <2> DEFINE U == T \ {x}
             n == Cardinality(U)
  <2>2. /\ IsFiniteSet(T) /\ IsFiniteSet(U) /\ n \in Nat
        /\ Cardinality(T) = n + 1
    <3>1. IsFiniteSet(T) /\ IsFiniteSet(U) /\ n \in Nat /\ Cardinality(T) \in Nat
      BY FS_Subset, FS_CardinalityType
    <3> QED
      BY <2>1, <3>1, FS_RemoveElement
  <2>3. f[x] \in Int /\ g[x] \in Int /\ p[x] = f[x] * g[x] /\ p[x] \in Int
    BY <2>1
  <2>4. \A y \in T : p[y] \in Int
    OBVIOUS
  <2>5. F(T) = f[x] + F(U) /\ G(T) = g[x] + G(U)
    BY <2>1, <2>2, SumRemove
  <2>6. H(T) = p[x] + H(U)
    BY <2>1, <2>2, <2>4, SumRemove
  <2>7. F(U) \in Int /\ G(U) \in Int
    BY <2>2, SumType
  <2>8. H(U) \in Int
    BY <2>2, <2>4, SumType
  <2>9. F(U) * G(U) <= n * H(U)
    BY <1>2, <2>1
  <2>10. f[x] * G(U) + g[x] * F(U) <= H(U) + n * (f[x] * g[x])
    <3>1. \A y \in U : /\ f[y] \in Int /\ g[y] \in Int /\ p[y] = f[y] * g[y]
                       /\ (f[x] - f[y]) * (g[x] - g[y]) >= 0
      BY <2>1
    <3> QED
      BY <2>2, <2>3, <3>1, Cross
  <2>11. (f[x] + F(U)) * (g[x] + G(U)) = f[x] * g[x] + f[x] * G(U) + g[x] * F(U) + F(U) * G(U)
    BY <2>3, <2>7
  <2>12. (n + 1) * (p[x] + H(U)) = n * H(U) + H(U) + n * (f[x] * g[x]) + f[x] * g[x]
    BY <2>2, <2>3, <2>8
  <2>13. F(T) * G(T) <= (n + 1) * H(T)
    <3> HIDE DEF F, G, H, n, U
    <3>1. /\ f[x] * g[x] \in Int /\ f[x] * G(U) \in Int /\ g[x] * F(U) \in Int
          /\ F(U) * G(U) \in Int /\ n * H(U) \in Int /\ n * (f[x] * g[x]) \in Int
      BY <2>2, <2>3, <2>7, <2>8
    <3> QED
      BY <2>5, <2>6, <2>8, <2>9, <2>10, <2>11, <2>12, <3>1
  <2> QED
    BY <2>2, <2>13
<1> HIDE DEF P
<1>3. S \in P
  BY <1>1, <1>2, SetInduction
<1> QED
  BY <1>3 DEF P
=============================================================================
