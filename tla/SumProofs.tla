------------------------------ MODULE SumProofs ------------------------------
(***************************************************************************)
(* Lemmas about the sum of a function over a finite set, the library's     *)
(* SumFunction: what its type is and how it changes with the function.     *)
(*                                                                         *)
(* The library takes one element after another out of the set.  What is    *)
(* left of it at each turn is a subset, so a sum is what a table of sums   *)
(* over all subsets has for the whole set; the lemmas find the smallest    *)
(* subset that a table would be wrong about.                               *)
(***************************************************************************)
EXTENDS Functions, FiniteSets, FiniteSetTheorems, WellFoundedInduction, TLAPS

\* The element taken out of s.
Taken(s) == CHOOSE x \in s : TRUE

\* Does the table hold the sum of f over each subset of S?
Adds(sum, f, S) ==
  \A s \in SUBSET S : sum[s] = IF s = {} THEN 0 ELSE f[Taken(s)] + sum[s \ {Taken(s)}]

-----------------------------------------------------------------------------
LEMMA SmallestNumber ==
  ASSUME NEW B, B \subseteq Nat, B # {}
  PROVE  \E n \in B : \A m \in B : n <= m
<1>1. PICK n \in B : \A m \in B : ~ (<<m, n>> \in OpToRel(<, Nat))
  BY NatLessThanWellFounded, WFMin
<1>2. \A m \in B : ~ (m < n)
  BY <1>1 DEF OpToRel
<1> QED BY <1>2

LEMMA SmallestSubset ==
  ASSUME NEW S, IsFiniteSet(S), NEW B, B \subseteq SUBSET S, B # {}
  PROVE  \E s \in B : \A t \in B : ~ (t \subseteq s /\ t # s)
<1>1. IsWellFoundedOn(StrictSubsetOrdering(S), SUBSET S)
  BY FS_StrictSubsetOrderingWellFounded, FS_FiniteSubsetsOfFinite
<1>2. PICK s \in B : \A t \in B : ~ (<<t, s>> \in StrictSubsetOrdering(S))
  BY <1>1, WFMin
<1>3. \A t \in B : t \subseteq s /\ t # s => <<t, s>> \in StrictSubsetOrdering(S)
  BY DEF StrictSubsetOrdering
<1>4. \A t \in B : ~ (t \subseteq s /\ t # s)
  BY <1>2, <1>3
<1> WITNESS s \in B
<1> QED BY <1>4

LEMMA TakenOut ==
  ASSUME NEW s, s # {}
  PROVE  /\ Taken(s) \in s
         /\ s \ {Taken(s)} \subseteq s
         /\ s \ {Taken(s)} # s
BY DEF Taken

\* There is such a table: filled in from the smaller subsets to the larger.
LEMMA TableExists ==
  ASSUME NEW S, IsFiniteSet(S), NEW f, \A x \in S : f[x] \in Int
  PROVE  \E sum \in [SUBSET S -> Int] : Adds(sum, f, S)
<1> DEFINE Right(sum, s) ==
             sum[s] = IF s = {} THEN 0 ELSE f[Taken(s)] + sum[s \ {Taken(s)}]
           UpTo(n) == \E sum \in [SUBSET S -> Int] :
                        \A s \in SUBSET S : Cardinality(s) <= n => Right(sum, s)
           Wrong == {n \in Nat : ~ UpTo(n)}
<1>1. \A s \in SUBSET S : IsFiniteSet(s) /\ Cardinality(s) \in Nat
  BY FS_Subset, FS_CardinalityType
<1>2. \A s \in SUBSET S : s # {} => /\ s \ {Taken(s)} \in SUBSET S
                                   /\ Cardinality(s \ {Taken(s)}) = Cardinality(s) - 1
                                   /\ f[Taken(s)] \in Int
  BY <1>1, TakenOut, FS_RemoveElement
<1>3. UpTo(0)
  <2> DEFINE sum == [s \in SUBSET S |-> 0]
  <2>1. \A s \in SUBSET S : Cardinality(s) <= 0 => s = {}
    BY <1>1, FS_EmptySet
  <2>2. sum \in [SUBSET S -> Int] /\ \A s \in SUBSET S : Cardinality(s) <= 0 => Right(sum, s)
    BY <2>1
  <2> HIDE DEF sum, Right
  <2> QED BY <2>2
<1>4. ASSUME NEW n \in Nat, UpTo(n) PROVE UpTo(n + 1)
  <2>1. PICK sum \in [SUBSET S -> Int] :
          \A s \in SUBSET S : Cardinality(s) <= n => Right(sum, s)
    BY <1>4
  <2> DEFINE more == [s \in SUBSET S |->
                        IF s = {} THEN 0 ELSE f[Taken(s)] + sum[s \ {Taken(s)}]]
  <2>2. more \in [SUBSET S -> Int]
    BY <1>2
  <2>3. \A s \in SUBSET S : Cardinality(s) <= n => more[s] = sum[s]
    BY <2>1
  <2>4. \A s \in SUBSET S : Cardinality(s) <= n + 1 => Right(more, s)
    <3> SUFFICES ASSUME NEW s \in SUBSET S, Cardinality(s) <= n + 1 PROVE Right(more, s)
      OBVIOUS
    <3>1. CASE s = {}
      BY <3>1
    <3>2. CASE s # {}
      <4>1. s \ {Taken(s)} \in SUBSET S /\ Cardinality(s \ {Taken(s)}) <= n
        BY <1>1, <1>2, <3>2
      <4>2. more[s \ {Taken(s)}] = sum[s \ {Taken(s)}]
        BY <2>3, <4>1
      <4> QED BY <3>2, <4>2
    <3> QED BY <3>1, <3>2
  <2> QED BY <2>2, <2>4
<1>5. Wrong = {}
  <2> SUFFICES ASSUME Wrong # {} PROVE FALSE
    OBVIOUS
  <2> HIDE DEF UpTo
  <2>1. PICK n \in Wrong : \A m \in Wrong : n <= m
    BY SmallestNumber
  <2>2. n \in Nat /\ ~ UpTo(n) /\ n # 0
    BY <1>3
  <2>3. n - 1 \in Nat /\ UpTo(n - 1)
    BY <2>1, <2>2
  <2>4. UpTo((n - 1) + 1)
    BY <1>4, <2>3
  <2> QED BY <2>2, <2>4
<1>6. UpTo(Cardinality(S))
  BY <1>1, <1>5
<1>7. \A s \in SUBSET S : Cardinality(s) <= Cardinality(S)
  BY FS_Subset
<1> QED BY <1>6, <1>7 DEF Adds

\* The library's sum is the entry of such a table for the whole set.
LEMMA SumIsTabled ==
  ASSUME NEW S, IsFiniteSet(S), NEW f, \A x \in S : f[x] \in Int
  PROVE  \E sum \in [SUBSET S -> Int] :
           Adds(sum, f, S) /\ SumFunctionOnSet(f, S) = sum[S]
<1> DEFINE Table(sum) ==
             sum = [s \in SUBSET S |-> IF s = {} THEN 0
                                       ELSE LET x == CHOOSE x \in s : TRUE
                                            IN  f[x] + sum[s \ {x}]]
           table == CHOOSE sum : Table(sum)
<1>1. SumFunctionOnSet(f, S) = table[S]
  BY DEF SumFunctionOnSet, FoldFunctionOnSet, MapThenFoldSet
<1>2. \E sum : Table(sum)
  <2>1. PICK sum \in [SUBSET S -> Int] : Adds(sum, f, S)
    BY TableExists
  <2>2. Table(sum)
    BY <2>1 DEF Adds, Taken
  <2> QED BY <2>2
<1>3. Table(table)
  BY <1>2
<1> HIDE DEF table
<1>4. Adds(table, f, S)
  BY <1>3 DEF Adds, Taken
<1>5. \A s \in SUBSET S : table[s] \in Int
  <2> DEFINE Wrong == {s \in SUBSET S : table[s] \notin Int}
  <2> SUFFICES ASSUME Wrong # {} PROVE FALSE
    OBVIOUS
  <2>0. Wrong \subseteq SUBSET S
    OBVIOUS
  <2> HIDE DEF Wrong
  <2>1. PICK s \in Wrong : \A t \in Wrong : ~ (t \subseteq s /\ t # s)
    BY <2>0, SmallestSubset
  <2> DEFINE rest == s \ {Taken(s)}
  <2>2. /\ s \in SUBSET S /\ table[s] \notin Int
        /\ table[s] = IF s = {} THEN 0 ELSE f[Taken(s)] + table[rest]
    BY <1>4, <2>0, <2>1 DEF Adds, Wrong
  <2>3. s # {}
    BY <2>2
  <2>4. f[Taken(s)] \in Int /\ rest \in SUBSET S /\ rest \notin Wrong
    BY <2>1, <2>2, <2>3, TakenOut
  <2>5. table[rest] \in Int
    BY <2>4 DEF Wrong
  <2> QED BY <2>2, <2>3, <2>4, <2>5
<1> QED BY <1>1, <1>3, <1>4, <1>5

-----------------------------------------------------------------------------
\* A sum of numbers without negative ones has none.
LEMMA SumType ==
  ASSUME NEW S, IsFiniteSet(S), NEW f \in [S -> Nat]
  PROVE  SumFunction(f) \in Nat
<1>0. \A x \in S : f[x] \in Int
  OBVIOUS
<1>1. PICK sum \in [SUBSET S -> Int] : Adds(sum, f, S) /\ SumFunctionOnSet(f, S) = sum[S]
  BY <1>0, SumIsTabled
<1> DEFINE Wrong == {s \in SUBSET S : sum[s] \notin Nat}
<1>2. Wrong = {}
  <2> SUFFICES ASSUME Wrong # {} PROVE FALSE
    OBVIOUS
  <2>0. Wrong \subseteq SUBSET S
    OBVIOUS
  <2> HIDE DEF Wrong
  <2>1. PICK s \in Wrong : \A t \in Wrong : ~ (t \subseteq s /\ t # s)
    BY <2>0, SmallestSubset
  <2> DEFINE rest == s \ {Taken(s)}
  <2>2. /\ s \in SUBSET S /\ sum[s] \notin Nat
        /\ sum[s] = IF s = {} THEN 0 ELSE f[Taken(s)] + sum[rest]
    BY <1>1, <2>0, <2>1 DEF Adds, Wrong
  <2>3. s # {}
    BY <2>2
  <2>4. f[Taken(s)] \in Nat /\ rest \in SUBSET S /\ rest \notin Wrong
    BY <2>1, <2>2, <2>3, TakenOut
  <2>5. sum[rest] \in Nat
    BY <2>4 DEF Wrong
  <2> QED BY <2>2, <2>3, <2>4, <2>5
<1>3. sum[S] \in Nat
  BY <1>2
<1> QED BY <1>1, <1>3 DEF SumFunction

\* Where a function changes at one place, the sum changes as much.
LEMMA SumChange ==
  ASSUME NEW S, IsFiniteSet(S), NEW f \in [S -> Int], NEW g \in [S -> Int],
         NEW c \in S, \A x \in S \ {c} : g[x] = f[x]
  PROVE  /\ SumFunction(f) \in Int
         /\ SumFunction(g) = SumFunction(f) + (g[c] - f[c])
<1>1. PICK sum \in [SUBSET S -> Int] : Adds(sum, f, S) /\ SumFunctionOnSet(f, S) = sum[S]
  BY SumIsTabled
<1>2. PICK new \in [SUBSET S -> Int] : Adds(new, g, S) /\ SumFunctionOnSet(g, S) = new[S]
  BY SumIsTabled
<1> DEFINE change(s) == IF c \in s THEN g[c] - f[c] ELSE 0
           Wrong == {s \in SUBSET S : new[s] # sum[s] + change(s)}
<1>3. Wrong = {}
  <2> SUFFICES ASSUME Wrong # {} PROVE FALSE
    OBVIOUS
  <2>0. Wrong \subseteq SUBSET S
    OBVIOUS
  <2> HIDE DEF Wrong
  <2>1. PICK s \in Wrong : \A t \in Wrong : ~ (t \subseteq s /\ t # s)
    BY <2>0, SmallestSubset
  <2> DEFINE x == Taken(s)
             rest == s \ {x}
  <2>2. /\ s \in SUBSET S /\ new[s] # sum[s] + change(s)
        /\ sum[s] = IF s = {} THEN 0 ELSE f[x] + sum[rest]
        /\ new[s] = IF s = {} THEN 0 ELSE g[x] + new[rest]
    BY <1>1, <1>2, <2>0, <2>1 DEF Adds, Wrong
  <2>3. s # {}
    BY <2>2
  <2>4. x \in s /\ x \in S /\ rest \in SUBSET S /\ rest \notin Wrong
    BY <2>1, <2>2, <2>3, TakenOut
  <2>5. new[rest] = sum[rest] + change(rest)
    BY <2>4 DEF Wrong
  <2>6. sum[rest] \in Int /\ f[x] \in Int /\ g[x] \in Int /\ f[c] \in Int /\ g[c] \in Int
    BY <2>4
  <2>7. CASE x = c
    <3>1. change(s) = g[c] - f[c] /\ change(rest) = 0
      BY <2>4, <2>7
    <3> QED BY <2>2, <2>3, <2>5, <2>6, <2>7, <3>1
  <2>8. CASE x # c
    <3>1. change(s) = change(rest) /\ change(s) \in Int
      BY <2>4, <2>6, <2>8
    <3>2. g[x] = f[x]
      BY <2>4, <2>8
    <3> HIDE DEF change, rest, x
    <3> QED BY <2>2, <2>3, <2>5, <2>6, <3>1, <3>2
  <2> QED BY <2>7, <2>8
<1>4. new[S] = sum[S] + (g[c] - f[c])
  BY <1>3
<1>5. sum[S] \in Int /\ DOMAIN f = S /\ DOMAIN g = S
  OBVIOUS
<1> QED BY <1>1, <1>2, <1>4, <1>5 DEF SumFunction

\* Nothing and nothing more make nothing.
LEMMA SumZero ==
  ASSUME NEW S, IsFiniteSet(S), NEW f, f = [x \in S |-> 0]
  PROVE  SumFunction(f) = 0
<1>0. \A x \in S : f[x] \in Int
  OBVIOUS
<1>1. PICK sum \in [SUBSET S -> Int] : Adds(sum, f, S) /\ SumFunctionOnSet(f, S) = sum[S]
  BY <1>0, SumIsTabled
<1> DEFINE Wrong == {s \in SUBSET S : sum[s] # 0}
<1>2. Wrong = {}
  <2> SUFFICES ASSUME Wrong # {} PROVE FALSE
    OBVIOUS
  <2>0. Wrong \subseteq SUBSET S
    OBVIOUS
  <2> HIDE DEF Wrong
  <2>1. PICK s \in Wrong : \A t \in Wrong : ~ (t \subseteq s /\ t # s)
    BY <2>0, SmallestSubset
  <2> DEFINE rest == s \ {Taken(s)}
  <2>2. /\ s \in SUBSET S /\ sum[s] # 0
        /\ sum[s] = IF s = {} THEN 0 ELSE f[Taken(s)] + sum[rest]
    BY <1>1, <2>0, <2>1 DEF Adds, Wrong
  <2>3. s # {}
    BY <2>2
  <2>4. f[Taken(s)] = 0 /\ rest \in SUBSET S /\ rest \notin Wrong
    BY <2>1, <2>2, <2>3, TakenOut
  <2>5. sum[rest] = 0
    BY <2>4 DEF Wrong
  <2> QED BY <2>2, <2>3, <2>4, <2>5
<1>3. sum[S] = 0 /\ DOMAIN f = S
  BY <1>2
<1> QED BY <1>1, <1>3 DEF SumFunction

\* With terms that are at least k on T, a sum is at least k times the size of T.
LEMMA SumAtLeast ==
  ASSUME NEW S, IsFiniteSet(S), NEW f \in [S -> Nat],
         NEW T \in SUBSET S, NEW k \in Nat, \A x \in T : f[x] >= k
  PROVE  SumFunction(f) >= k * Cardinality(T)
<1>0. \A x \in S : f[x] \in Int
  OBVIOUS
<1>1. PICK sum \in [SUBSET S -> Int] : Adds(sum, f, S) /\ SumFunctionOnSet(f, S) = sum[S]
  BY <1>0, SumIsTabled
<1> DEFINE least(s) == k * Cardinality(s \cap T)
           Wrong == {s \in SUBSET S : ~ (sum[s] >= least(s))}
<1>2. Wrong = {}
  <2> SUFFICES ASSUME Wrong # {} PROVE FALSE
    OBVIOUS
  <2>0. Wrong \subseteq SUBSET S
    OBVIOUS
  <2> HIDE DEF Wrong
  <2>1. PICK s \in Wrong : \A t \in Wrong : ~ (t \subseteq s /\ t # s)
    BY <2>0, SmallestSubset
  <2> DEFINE x == Taken(s)
             rest == s \ {x}
  <2>2. /\ s \in SUBSET S /\ ~ (sum[s] >= least(s))
        /\ sum[s] = IF s = {} THEN 0 ELSE f[x] + sum[rest]
    BY <1>1, <2>0, <2>1 DEF Adds, Wrong
  <2>3. s # {}
    <3>1. ASSUME s = {} PROVE FALSE
      <4>1. Cardinality(s \cap T) = 0
        BY <3>1, FS_EmptySet
      <4>2. least(s) = 0
        <5> DEFINE n == Cardinality(s \cap T)
        <5>1. k * n = 0
          <6> HIDE DEF n
          <6>1. \A i \in Nat : i * 0 = 0
            OBVIOUS
          <6> QED BY <4>1, <6>1 DEF n
        <5> QED BY <5>1
      <4> QED BY <2>2, <3>1, <4>2
    <3> QED BY <3>1
  <2>4. x \in s /\ rest \in SUBSET S /\ rest \notin Wrong
    BY <2>1, <2>2, <2>3, TakenOut
  <2>5. sum[rest] >= least(rest)
    BY <2>4 DEF Wrong
  <2>6. IsFiniteSet(s \cap T) /\ s \cap T \in SUBSET S
    BY <2>2, FS_Subset
  <2>7. rest \cap T = (s \cap T) \ {x}
    OBVIOUS
  <2>8. /\ Cardinality(s \cap T) \in Nat /\ Cardinality(rest \cap T) \in Nat
        /\ Cardinality(rest \cap T) =
             IF x \in s \cap T THEN Cardinality(s \cap T) - 1 ELSE Cardinality(s \cap T)
    <3> DEFINE both == s \cap T
    <3>1. IsFiniteSet(both) /\ rest \cap T = both \ {x} /\ (x \in s \cap T <=> x \in both)
      BY <2>6, <2>7
    <3> HIDE DEF both, rest, x
    <3>2. /\ IsFiniteSet(both \ {x})
          /\ Cardinality(both \ {x}) =
               IF x \in both THEN Cardinality(both) - 1 ELSE Cardinality(both)
      BY <3>1, FS_RemoveElement
    <3>3. Cardinality(both) \in Nat /\ Cardinality(both \ {x}) \in Nat
      BY <3>1, <3>2, FS_CardinalityType
    <3> QED BY <3>1, <3>2, <3>3 DEF both
  <2>9. sum[rest] \in Int /\ f[x] \in Nat
    BY <2>2, <2>4
  <2> HIDE DEF x, rest
  <2>10. CASE x \in T
    <3>1. f[x] >= k
      BY <2>10
    <3>2. Cardinality(s \cap T) = Cardinality(rest \cap T) + 1
      BY <2>4, <2>8, <2>10
    <3>3. \A n \in Nat : k * (n + 1) = k * n + k /\ k * n \in Nat
      OBVIOUS
    <3>4. least(s) = least(rest) + k /\ least(rest) \in Nat
      BY <2>8, <3>2, <3>3
    <3> HIDE DEF least
    <3> QED BY <2>2, <2>3, <2>5, <2>9, <3>1, <3>4
  <2>11. CASE x \notin T
    <3>1. least(s) = least(rest) /\ least(rest) \in Int
      BY <2>8, <2>11
    <3> HIDE DEF least
    <3> QED BY <2>2, <2>3, <2>5, <2>9, <3>1
  <2> QED BY <2>10, <2>11
<1>3. S \cap T = T /\ DOMAIN f = S
  OBVIOUS
<1>4. sum[S] >= least(S)
  BY <1>2
<1>5. sum[S] >= k * Cardinality(T)
  BY <1>3, <1>4
<1> QED BY <1>1, <1>3, <1>5 DEF SumFunction

\* Of finitely many numbers one is the greatest: the sum is a bound, so there is a
\* smallest bound.
LEMMA Greatest ==
  ASSUME NEW S, IsFiniteSet(S), S # {}, NEW f \in [S -> Nat]
  PROVE  \E x \in S : \A y \in S : f[x] >= f[y]
<1> DEFINE Bounds == {n \in Nat : \A y \in S : f[y] <= n}
<1>1. ASSUME NEW y \in S PROVE SumFunction(f) >= f[y]
  <2> DEFINE T == {y}
             k == f[y]
  <2>1. T \in SUBSET S /\ k \in Nat /\ Cardinality(T) = 1 /\ \A x \in T : f[x] >= k
    BY FS_Singleton
  <2> HIDE DEF T, k
  <2>2. SumFunction(f) >= k * Cardinality(T)
    BY <2>1, SumAtLeast
  <2>3. k * Cardinality(T) = k
    BY <2>1
  <2> QED BY <2>2, <2>3 DEF k
<1>2. SumFunction(f) \in Bounds
  BY <1>1, SumType
<1>3. Bounds \subseteq Nat /\ Bounds # {}
  BY <1>2
<1>4. PICK n \in Bounds : \A m \in Bounds : n <= m
  BY <1>3, SmallestNumber
<1>5. ASSUME \A x \in S : f[x] # n PROVE FALSE
  <2>1. n \in Nat /\ \A y \in S : f[y] < n
    BY <1>4, <1>5
  <2>2. n - 1 \in Nat /\ \A y \in S : f[y] <= n - 1
    BY <2>1
  <2>3. n - 1 \in Bounds
    BY <2>2
  <2> QED BY <1>4, <2>1, <2>3
<1>6. PICK x \in S : f[x] = n
  BY <1>5
<1> QED BY <1>4, <1>6

=============================================================================
