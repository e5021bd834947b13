------------------------------- MODULE Lemmas -------------------------------
(***************************************************************************)
(* Facts about numbers and sequences that the proofs of several modules    *)
(* need and the libraries do not state.  The first one takes the place of  *)
(* induction over numbers: the smallest number that lacks a property.      *)
(***************************************************************************)
EXTENDS Integers, Sequences, Functions, FiniteSetTheorems, SequenceTheorems,
        WellFoundedInduction, TLAPS

\* Every set of natural numbers has a smallest one: how induction is done here
\* (first entity of a list, first id that still waits, first ID given).
LEMMA SmallestNumber ==
  ASSUME NEW T \in SUBSET Nat, T # {}
  PROVE  \E m \in T : \A n \in T : m <= n
<1>. DEFINE R == OpToRel(<, Nat)
<1>1. IsWellFoundedOn(R, Nat)
  BY NatLessThanWellFounded
<1>2. PICK m \in T : \A n \in T : ~(<<n, m>> \in R)
  <2>. HIDE DEF R
  <2>. QED  BY <1>1, WFMin
<1>3. \A n \in T : <<n, m>> \in R <=> n < m
  BY DEF OpToRel
<1>. HIDE DEF R
<1>4. ASSUME NEW n \in T PROVE m <= n
  <2>1. ~(n < m)
    BY <1>2, <1>3
  <2>2. n \in Nat /\ m \in Nat
    OBVIOUS
  <2>. QED  BY <2>1, <2>2
<1>. QED  BY <1>4

\* A sequence without repetitions is as long as it has elements (the lists of the
\* pool of ids).
LEMMA DistinctElements ==
  ASSUME NEW S, NEW s \in Seq(S), \A i, j \in DOMAIN s : s[i] = s[j] => i = j
  PROVE  /\ IsFiniteSet({s[i] : i \in DOMAIN s})
         /\ Cardinality({s[i] : i \in DOMAIN s}) = Len(s)
<1>. DEFINE T == {s[i] : i \in DOMAIN s}
<1>1. Len(s) \in Nat /\ DOMAIN s = 1 .. Len(s) /\ s \in [1 .. Len(s) -> T]
  BY LenProperties
<1>2. s \in Bijection(1 .. Len(s), T)
  <2>1. s \in Injection(1 .. Len(s), T)
    <3>. HIDE DEF T
    <3>. QED  BY <1>1 DEF Injection, IsInjective
  <2>2. \A e \in T : \E i \in 1 .. Len(s) : s[i] = e
    <3>1. DOMAIN s = 1 .. Len(s)
      BY <1>1
    <3>. QED  BY <3>1
  <2>. HIDE DEF T
  <2>. QED  BY <1>1, <2>1, <2>2 DEF Bijection, Surjection
<1>3. IsFiniteSet(1 .. Len(s)) /\ Cardinality(1 .. Len(s)) = Len(s)
  <2>1. Len(s) \in Nat /\ Len(s) \in Int /\ 1 \in Int
    BY <1>1
  <2>. HIDE DEF T
  <2>. DEFINE n == Len(s)
  <2>. HIDE DEF n
  <2>2. n \in Nat
    BY <2>1 DEF n
  <2>3. IsFiniteSet(1 .. n) /\ Cardinality(1 .. n) = IF 1 > n THEN 0 ELSE n - 1 + 1
    BY <2>2, FS_Interval
  <2>. QED  BY <2>2, <2>3 DEF n
<1>4. ExistsBijection(1 .. Len(s), T)
  BY <1>2 DEF ExistsBijection
<1>. HIDE DEF T
<1>5. IsFiniteSet(T) /\ Cardinality(T) = Len(s)
  BY <1>3, <1>4, FS_Bijection
<1>. QED  BY <1>5 DEF T

\* A sequence without repetitions of as many elements as a set has names all of
\* them (the order in which a new map deletes the entities).
LEMMA AllElements ==
  ASSUME NEW S, IsFiniteSet(S), NEW s \in [1 .. Cardinality(S) -> S],
         \A i, j \in 1 .. Cardinality(S) : i # j => s[i] # s[j]
  PROVE  {s[i] : i \in 1 .. Cardinality(S)} = S
<1>1. Cardinality(S) \in Nat
  BY FS_CardinalityType
<1>2. s \in Injection(1 .. Cardinality(S), S)
  BY DEF Injection, IsInjective
<1>3. Cardinality(1 .. Cardinality(S)) = Cardinality(S)
  BY <1>1, FS_Interval
<1>4. s \in Surjection(1 .. Cardinality(S), S)
  BY <1>2, <1>3, FS_Injection
<1>. QED  BY <1>4 DEF Surjection

\* Induction along the numbers up to N, for what holds of the members of a set.
LEMMA NumbersUpTo ==
  ASSUME NEW N \in Nat, NEW T, 0 \in T, \A n \in 1 .. N : n - 1 \in T => n \in T
  PROVE  \A n \in 0 .. N : n \in T
<1>. DEFINE Bad == {n \in 0 .. N : n \notin T}
<1>1. SUFFICES ASSUME Bad # {} PROVE FALSE
  OBVIOUS
<1>2. PICK m \in Bad : \A n \in Bad : m <= n
  <2>1. Bad \subseteq Nat
    OBVIOUS
  <2>. HIDE DEF Bad
  <2>. QED  BY <1>1, <2>1, SmallestNumber
<1>3. m \in 0 .. N /\ m # 0 /\ m \notin T
  OBVIOUS
<1>4. m \in 1 .. N /\ m - 1 \in 0 .. N /\ ~(m <= m - 1)
  BY <1>3
<1>5. m - 1 \in T
  BY <1>2, <1>4
<1>. QED  BY <1>3, <1>4, <1>5

\* What a recursion from number to number starts with and how it goes on is a
\* function (the loops over players and over lines).
LEMMA RecursionOnNumbers ==
  ASSUME NEW S, NEW a \in S, NEW N \in Nat, NEW step \in [1 .. N -> [S -> S]]
  PROVE  \E f \in [0 .. N -> S] : f[0] = a /\ \A n \in 1 .. N : f[n] = step[n][f[n - 1]]
<1>. DEFINE P(k) == \E f \in [0 .. N -> S] : f[0] = a /\ \A n \in 1 .. k : f[n] = step[n][f[n - 1]]
            T == {k \in 0 .. N : ~P(k)}
<1>1. P(0)
  <2>1. [n \in 0 .. N |-> a] \in [0 .. N -> S] /\ [n \in 0 .. N |-> a][0] = a /\ 1 .. 0 = {}
    OBVIOUS
  <2>. QED  BY <2>1
<1>2. ASSUME NEW k \in 0 .. N - 1, P(k) PROVE P(k + 1)
  <2>1. PICK f \in [0 .. N -> S] : f[0] = a /\ \A n \in 1 .. k : f[n] = step[n][f[n - 1]]
    BY <1>2
  <2>. DEFINE g == [f EXCEPT ![k + 1] = step[k + 1][f[k]]]
  <2>2. k \in 0 .. N /\ k + 1 \in 1 .. N /\ k + 1 \in 0 .. N /\ k + 1 # 0 /\ k + 1 - 1 = k /\ k # k + 1
    OBVIOUS
  <2>3. step[k + 1] \in [S -> S] /\ f[k] \in S
    BY <2>2
  <2>4. step[k + 1][f[k]] \in S
    BY <2>3
  <2>5. g \in [0 .. N -> S] /\ g[k + 1] = step[k + 1][f[k]] /\ \A n \in 0 .. N : n # k + 1 => g[n] = f[n]
    BY <2>1, <2>2, <2>4
  <2>. HIDE DEF g
  <2>6. \A n \in 1 .. k : n \in 0 .. N /\ n - 1 \in 0 .. N /\ n # k + 1 /\ n - 1 # k + 1
    OBVIOUS
  <2>7. \A n \in 1 .. k : g[n] = step[n][g[n - 1]]
    BY <2>1, <2>5, <2>6
  <2>8. g[k + 1] = step[k + 1][g[k + 1 - 1]]
    BY <2>2, <2>5
  <2>9. g[0] = a
    BY <2>1, <2>2, <2>5
  <2>10. \A n \in 1 .. k + 1 : n \in 1 .. k \/ n = k + 1
    BY <2>2
  <2>11. \A n \in 1 .. k + 1 : g[n] = step[n][g[n - 1]]
    BY <2>7, <2>8, <2>10
  <2>. QED  BY <2>5, <2>9, <2>11
<1>3. T = {}
  <2>. SUFFICES ASSUME T # {} PROVE FALSE
    OBVIOUS
  <2>1. T \in SUBSET Nat
    OBVIOUS
  <2>2. PICK k \in T : \A n \in T : k <= n
    <3>. HIDE DEF T
    <3>. QED  BY <2>1, SmallestNumber
  <2>. HIDE DEF P
  <2>3. k \in 0 .. N /\ ~P(k)
    OBVIOUS
  <2>4. k # 0
    BY <1>1, <2>3
  <2>5. k - 1 \in 0 .. N - 1 /\ k - 1 \in 0 .. N /\ ~(k <= k - 1) /\ (k - 1) + 1 = k
    BY <2>3, <2>4
  <2>6. P(k - 1)
    BY <2>2, <2>5
  <2>7. P((k - 1) + 1)
    BY <1>2, <2>5, <2>6
  <2>. QED  BY <2>3, <2>5, <2>7
<1>4. P(N)
  <2>. HIDE DEF P
  <2>. QED  BY <1>3
<1>. QED  BY <1>4

\* The same, with names for what the provers need not look into.
Turns(N, S) == [1 .. N -> [S -> S]]
Runs(f, a, step, N) == f[0] = a /\ \A n \in 1 .. N : f[n] = step[n][f[n - 1]]

LEMMA RunExists ==
  ASSUME NEW S, NEW a \in S, NEW N \in Nat, NEW step \in Turns(N, S)
  PROVE  \E f \in [0 .. N -> S] : Runs(f, a, step, N)
BY RecursionOnNumbers DEF Turns, Runs

\* The numbers up to n are n.
LEMMA OneToN == \A n \in Nat : IsFiniteSet(1 .. n) /\ Cardinality(1 .. n) = n
<1>. SUFFICES ASSUME NEW n \in Nat PROVE IsFiniteSet(1 .. n) /\ Cardinality(1 .. n) = n
  OBVIOUS
<1>1. IsFiniteSet(1 .. n) /\ Cardinality(1 .. n) = IF 1 > n THEN 0 ELSE n - 1 + 1
  BY 1 \in Int, n \in Int, FS_Interval
<1>. QED  BY <1>1

\* A loop that from each of its states in G goes on to one in G can be run, and stays
\* in G.
LEMMA LoopRuns ==
  ASSUME NEW D, NEW N \in Nat, NEW G, \A k \in 0 .. N : G[k] \subseteq D, NEW a \in G[0],
         NEW F, \A k \in 1 .. N : \A st \in G[k - 1] : F[k][st] \in G[k]
  PROVE  \E f \in [0 .. N -> D] : Runs(f, a, F, N) /\ \A k \in 0 .. N : f[k] \in G[k]
<1>. DEFINE step == [k \in 1 .. N |->
                       [st \in D |-> IF st \in G[k - 1] THEN F[k][st] ELSE st]]
<1>1. \A k \in 1 .. N : k \in 0 .. N /\ k # 0 /\ k - 1 \in 0 .. N
  OBVIOUS
<1>2. step \in Turns(N, D)
  <2>1. ASSUME NEW k \in 1 .. N, NEW st \in D
        PROVE  (IF st \in G[k - 1] THEN F[k][st] ELSE st) \in D
    BY <1>1
  <2>. QED  BY <2>1 DEF Turns
<1>3. \A k \in 1 .. N : \A st \in G[k - 1] : step[k][st] = F[k][st]
  BY <1>1
<1>. HIDE DEF step
<1>4. a \in D /\ 0 \in 0 .. N
  OBVIOUS
<1>5. PICK f \in [0 .. N -> D] : Runs(f, a, step, N)
  BY <1>2, <1>4, RunExists
<1>. DEFINE B == {k \in 0 .. N : f[k] \in G[k]}
<1>6. 0 \in B
  BY <1>4, <1>5 DEF Runs
<1>7. ASSUME NEW k \in 1 .. N, k - 1 \in B PROVE k \in B
  <2>1. f[k] = step[k][f[k - 1]] /\ f[k - 1] \in G[k - 1]
    BY <1>5, <1>7 DEF Runs
  <2>. QED  BY <1>1, <1>3, <2>1
<1>8. \A k \in 0 .. N : f[k] \in G[k]
  <2>. HIDE DEF B
  <2>1. \A k \in 0 .. N : k \in B
    BY <1>6, <1>7, NumbersUpTo
  <2>. QED  BY <2>1 DEF B
<1>. QED  BY <1>1, <1>3, <1>5, <1>8 DEF Runs
=============================================================================
