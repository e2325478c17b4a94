-------------------------- MODULE WordReserveProofs --------------------------
(***************************************************************************)
(* Proofs about the word reserve and the plans it is made of.              *)
(***************************************************************************)
EXTENDS WordReserve, WellFoundedInduction, FiniteSetTheorems,
        SequenceTheorems, TLAPS

-----------------------------------------------------------------------------
(* Induction, and functions defined by it.                                 *)

\* A set with 0 and the successors of its members holds every number.
LEMMA Induction ==
  ASSUME NEW S, 0 \in S, \A n \in Nat : n \in S => n + 1 \in S
  PROVE  \A n \in Nat : n \in S
<1> SUFFICES ASSUME NEW z \in Nat, z \notin S PROVE FALSE
  OBVIOUS
<1> DEFINE M == Nat \ S
           T == {0 .. x : x \in M}
           R == StrictSubsetOrdering(Nat)
<1>1. IsWellFoundedOn(R, FiniteSubsetsOf(Nat))
  BY FS_StrictSubsetOrderingWellFounded
<1>2. T \subseteq FiniteSubsetsOf(Nat)
  <2> SUFFICES ASSUME NEW x \in M PROVE (0 .. x) \in FiniteSubsetsOf(Nat)
    OBVIOUS
  <2>1. (0 .. x) \in SUBSET Nat /\ 0 \in Int /\ x \in Int
    OBVIOUS
  <2>2. IsFiniteSet(0 .. x)
    BY <2>1, FS_Interval
  <2> QED BY <2>1, <2>2 DEF FiniteSubsetsOf
<1>3. T # {}
  OBVIOUS
<1> HIDE DEF R, T
<1>4. \E t \in T : \A u \in T : ~(<<u, t>> \in R)
  BY <1>1, <1>2, <1>3, WFMin
<1> USE DEF R, T
<1>5. PICK x \in M : \A y \in M : ~(<<0 .. y, 0 .. x>> \in R)
  BY <1>4
<1>6. x # 0 /\ x - 1 \in Nat /\ x - 1 \notin S
  <2>1. x \in Nat /\ x # 0 /\ x \notin S
    OBVIOUS
  <2>2. x - 1 \in Nat /\ (x - 1) + 1 = x
    BY <2>1
  <2> QED BY <2>1, <2>2
<1>7. (0 .. x - 1) \in SUBSET Nat /\ (0 .. x) \in SUBSET Nat
      /\ (0 .. x - 1) \subseteq (0 .. x) /\ x \in 0 .. x /\ x \notin 0 .. x - 1
  BY <1>6
<1> QED BY <1>5, <1>6, <1>7 DEF StrictSubsetOrdering

\* The same up to a bound.
LEMMA InductionUpTo ==
  ASSUME NEW N \in Nat, NEW S, 0 \in S,
         \A n \in 0 .. N - 1 : n \in S => n + 1 \in S
  PROVE  \A n \in 0 .. N : n \in S
<1> DEFINE T == {n \in Nat : n <= N => n \in S}
<1>1. 0 \in T
  OBVIOUS
<1>2. ASSUME NEW n \in Nat, n \in T PROVE n + 1 \in T
  <2>1. ASSUME n + 1 <= N PROVE n + 1 \in S
    BY <1>2, <2>1
  <2> QED BY <2>1
<1> HIDE DEF T
<1>3. \A n \in Nat : n \in T
  BY <1>1, <1>2, Induction
<1> QED BY <1>3 DEF T

\* A set of sequences with the empty one and, of each member, every
\* continuation by one element, holds them all.
LEMMA SequenceInduction ==
  ASSUME NEW W, NEW T, <<>> \in T,
         \A s \in Seq(W), e \in W : s \in T => Append(s, e) \in T
  PROVE  Seq(W) \subseteq T
<1> DEFINE S == {n \in Nat : \A s \in Seq(W) : Len(s) = n => s \in T}
<1>1. 0 \in S
  BY EmptySeq
<1>2. ASSUME NEW n \in Nat, n \in S PROVE n + 1 \in S
  <2> SUFFICES ASSUME NEW s \in Seq(W), Len(s) = n + 1 PROVE s \in T
    OBVIOUS
  <2>1. s # <<>>
    OBVIOUS
  <2>2. PICK r \in Seq(W), e \in W : s = Append(r, e)
    BY <2>1, SequenceEmptyOrAppend
  <2>3. Len(r) = n
    BY <2>2
  <2> QED BY <1>2, <2>2, <2>3
<1> HIDE DEF S
<1>3. \A n \in Nat : n \in S
  BY <1>1, <1>2, Induction
<1> QED BY <1>3 DEF S

\* What a table of steps makes of a start exists.
Makes(f, b, N, G, X) == /\ f \in [0..N -> X] /\ f[0] = b
                        /\ \A i \in 1..N : f[i] = G[i][f[i - 1]]

\* A function defined by its value one place before is the one with those values.
LEMMA Recursion ==
  ASSUME NEW X, NEW b \in X, NEW N \in Nat, NEW G \in [1..N -> [X -> X]]
  PROVE  \E f : Makes(f, b, N, G, X)
<1> DEFINE Is(f, n) == /\ f \in [0..n -> X] /\ f[0] = b
                       /\ \A i \in 1..n : f[i] = G[i][f[i - 1]]
           S == {n \in Nat : \E f : Is(f, n)}
<1>1. 0 \in S
  <2> DEFINE g == [i \in 0..0 |-> b]
  <2>1. Is(g, 0)
    OBVIOUS
  <2> QED BY <2>1
<1>2. ASSUME NEW n \in 0..N - 1, n \in S PROVE n + 1 \in S
  <2>1. PICK f : Is(f, n)
    BY <1>2
  <2>2. n \in 0..n /\ n + 1 \in 1..N /\ n \in Nat /\ n + 1 \in Nat
    OBVIOUS
  <2>3. PICK y \in X : y = G[n + 1][f[n]]
    BY <2>1, <2>2
  <2> DEFINE g == [i \in 0..n + 1 |-> IF i = n + 1 THEN y ELSE f[i]]
  <2>4. g \in [0..n + 1 -> X] /\ g[0] = b
    BY <2>1, <2>2
  <2>5. ASSUME NEW i \in 1..n + 1 PROVE g[i] = G[i][g[i - 1]]
    <3>1. CASE i = n + 1
      BY <3>1, <2>2, <2>3
    <3>2. CASE i \in 1..n
      BY <3>2, <2>1, <2>2
    <3> QED BY <3>1, <3>2
  <2> HIDE DEF g
  <2> QED BY <2>2, <2>4, <2>5
<1> HIDE DEF S
<1>3. \A n \in 0..N : n \in S
  BY <1>1, <1>2, InductionUpTo
<1>4. N \in S
  BY <1>3
<1> QED BY <1>4 DEF S, Makes

-----------------------------------------------------------------------------
(* Sums.                                                                   *)

\* The member MapThenFoldSet takes of a set.
Pick(s) == CHOOSE x \in s : TRUE

\* A sum is what its table holds for the whole set.
LEMMA SumUnfolds ==
  ASSUME NEW S, IsFiniteSet(S), NEW f, \A x \in S : f[x] \in Int
  PROVE  \E g \in [SUBSET S -> Int] :
           /\ \A T \in SUBSET S :
                g[T] = IF T = {} THEN 0 ELSE f[Pick(T)] + g[T \ {Pick(T)}]
           /\ Sum(f, S) = g[S]
<1> DEFINE Is(g, n) == /\ g \in [SUBSET S -> Int]
                       /\ \A T \in SUBSET S : Cardinality(T) <= n =>
                            g[T] = IF T = {} THEN 0
                                   ELSE f[Pick(T)] + g[T \ {Pick(T)}]
           M == {n \in Nat : \E g : Is(g, n)}
<1>0. \A T \in SUBSET S : IsFiniteSet(T) /\ Cardinality(T) \in Nat
  BY FS_Subset, FS_CardinalityType
<1>p. ASSUME NEW T \in SUBSET S, T # {}
      PROVE  /\ Pick(T) \in T /\ T \ {Pick(T)} \in SUBSET S
             /\ Cardinality(T \ {Pick(T)}) = Cardinality(T) - 1
             /\ f[Pick(T)] \in Int
  <2>1. Pick(T) \in T
    BY <1>p DEF Pick
  <2> QED BY <2>1, <1>0, FS_RemoveElement
<1>1. 0 \in M
  <2> DEFINE g == [T \in SUBSET S |-> 0]
  <2>1. \A T \in SUBSET S : Cardinality(T) <= 0 => T = {}
    BY <1>0, FS_EmptySet
  <2>2. Is(g, 0)
    BY <2>1
  <2> QED BY <2>2
<1>2. ASSUME NEW n \in Nat, n \in M PROVE n + 1 \in M
  <2>1. PICK g : Is(g, n)
    BY <1>2
  <2> DEFINE h == [T \in SUBSET S |->
                     IF Cardinality(T) = n + 1
                     THEN f[Pick(T)] + g[T \ {Pick(T)}] ELSE g[T]]
  <2>2. ASSUME NEW T \in SUBSET S, Cardinality(T) <= n + 1
        PROVE  h[T] \in Int /\ h[T] = IF T = {} THEN 0
                                ELSE f[Pick(T)] + h[T \ {Pick(T)}]
    <3>1. CASE T = {}
      <4>1. Cardinality(T) = 0
        BY <3>1, FS_EmptySet
      <4>2. h[T] = g[T] /\ g[T] = 0
        BY <4>1, <2>1, <3>1
      <4> QED BY <4>2, <3>1
    <3>2. CASE T # {}
      <4>1. /\ T \ {Pick(T)} \in SUBSET S /\ f[Pick(T)] \in Int
            /\ Cardinality(T \ {Pick(T)}) = Cardinality(T) - 1
        BY <3>2, <1>p
      <4>2. Cardinality(T) \in Nat
        BY <1>0
      <4>3. h[T \ {Pick(T)}] = g[T \ {Pick(T)}] /\ g[T \ {Pick(T)}] \in Int
        BY <4>1, <4>2, <2>1, <2>2
      <4>4. CASE Cardinality(T) = n + 1
        BY <4>4, <4>3, <4>1, <3>2
      <4>5. CASE Cardinality(T) <= n
        <5>1. h[T] = g[T] /\ g[T] = f[Pick(T)] + g[T \ {Pick(T)}]
          BY <4>5, <4>2, <2>1, <3>2
        <5> QED BY <5>1, <4>3, <4>1, <3>2
      <4> QED BY <4>4, <4>5, <4>2, <2>2
    <3> QED BY <3>1, <3>2
  <2>3. \A T \in SUBSET S : h[T] \in Int
    <3> SUFFICES ASSUME NEW T \in SUBSET S PROVE h[T] \in Int
      OBVIOUS
    <3>1. CASE Cardinality(T) = n + 1
      <4>1. Cardinality(T) <= n + 1
        BY <3>1
      <4> HIDE DEF h
      <4> QED BY <4>1, <2>2
    <3>2. CASE Cardinality(T) # n + 1
      BY <3>2, <2>1
    <3> QED BY <3>1, <3>2
  <2>4. h \in [SUBSET S -> Int]
    BY <2>3
  <2> HIDE DEF h
  <2>5. Is(h, n + 1)
    BY <2>2, <2>4
  <2> QED BY <2>5
<1> HIDE DEF M
<1>3. Cardinality(S) \in M
  BY <1>1, <1>2, <1>0, Induction
<1>4. PICK g : Is(g, Cardinality(S))
  BY <1>3 DEF M
<1>5. \A T \in SUBSET S : Cardinality(T) <= Cardinality(S)
  BY FS_Subset
<1>6. \A T \in SUBSET S :
        g[T] = IF T = {} THEN 0 ELSE f[Pick(T)] + g[T \ {Pick(T)}]
  BY <1>4, <1>5
<1> DEFINE Table(h) == [T \in SUBSET S |->
                          IF T = {} THEN 0
                          ELSE f[Pick(T)] + h[T \ {Pick(T)}]]
<1>7. g = Table(g)
  BY <1>4, <1>6
<1>8. PICK h : h = CHOOSE k : k = Table(k)
  OBVIOUS
<1>9. h = Table(h)
  BY <1>7, <1>8, Zenon
<1>10. Sum(f, S) = h[S]
  BY <1>8 DEF Sum, MapThenSumSet, MapThenFoldSet, Pick
<1>11. \A T \in SUBSET S :
         h[T] = IF T = {} THEN 0 ELSE f[Pick(T)] + h[T \ {Pick(T)}]
  BY <1>9
<1>12. \A n \in Nat : \A T \in SUBSET S : Cardinality(T) = n => h[T] = g[T]
  <2> DEFINE E == {n \in Nat : \A T \in SUBSET S :
                     Cardinality(T) = n => h[T] = g[T]}
  <2>1. 0 \in E
    <3>1. \A T \in SUBSET S : Cardinality(T) = 0 => T = {}
      BY <1>0, FS_EmptySet
    <3> QED BY <3>1, <1>6, <1>11
  <2>2. ASSUME NEW n \in Nat, n \in E PROVE n + 1 \in E
    <3> SUFFICES ASSUME NEW T \in SUBSET S, Cardinality(T) = n + 1
                 PROVE  h[T] = g[T]
      OBVIOUS
    <3>1. T # {}
      BY FS_EmptySet
    <3>2. /\ T \ {Pick(T)} \in SUBSET S
          /\ Cardinality(T \ {Pick(T)}) = n
      BY <3>1, <1>p
    <3>3. h[T \ {Pick(T)}] = g[T \ {Pick(T)}]
      BY <2>2, <3>2
    <3> QED BY <3>1, <3>3, <1>6, <1>11
  <2> HIDE DEF E
  <2>3. \A n \in Nat : n \in E
    BY <2>1, <2>2, Induction
  <2> QED BY <2>3 DEF E
<1>13. h[S] = g[S]
  BY <1>12, <1>0
<1> QED BY <1>4, <1>6, <1>10, <1>13

\* A sum's element may be taken out first, whichever it is.
LEMMA SumRemove ==
  ASSUME NEW S, IsFiniteSet(S), NEW f, \A x \in S : f[x] \in Int
  PROVE  /\ Sum(f, S) \in Int
         /\ S = {} => Sum(f, S) = 0
         /\ \A x \in S : Sum(f, S) = f[x] + Sum(f, S \ {x})
                         /\ Sum(f, S \ {x}) \in Int
<1>0. \A T \in SUBSET S : /\ IsFiniteSet(T) /\ Cardinality(T) \in Nat
                          /\ \A x \in T : f[x] \in Int
  BY FS_Subset, FS_CardinalityType
<1> DEFINE Is(g, T) == g \in [SUBSET T -> Int] /\ \A U \in SUBSET T :
                  g[U] = IF U = {} THEN 0 ELSE f[Pick(U)] + g[U \ {Pick(U)}]
<1>p. ASSUME NEW T \in SUBSET S, NEW x \in T
      PROVE  /\ T \ {x} \in SUBSET S
             /\ Cardinality(T \ {x}) = Cardinality(T) - 1
             /\ f[x] \in Int
  BY <1>0, FS_RemoveElement
<1>1. ASSUME NEW T \in SUBSET S, NEW g, Is(g, S), NEW h, Is(h, T)
      PROVE  \A U \in SUBSET T : g[U] = h[U]
  <2> DEFINE E == {n \in Nat : \A U \in SUBSET T :
                     Cardinality(U) = n => g[U] = h[U]}
  <2>0. \A U \in SUBSET T : U \in SUBSET S
    OBVIOUS
  <2>1. 0 \in E
    <3>1. \A U \in SUBSET T : Cardinality(U) = 0 => U = {}
      BY <1>0, <2>0, FS_EmptySet
    <3> QED BY <3>1, <1>1
  <2>2. ASSUME NEW n \in Nat, n \in E PROVE n + 1 \in E
    <3> SUFFICES ASSUME NEW U \in SUBSET T, Cardinality(U) = n + 1
                 PROVE  g[U] = h[U]
      OBVIOUS
    <3>1. U # {} /\ U \in SUBSET S
      BY FS_EmptySet
    <3>2. Pick(U) \in U
      BY <3>1 DEF Pick
    <3>3. /\ U \ {Pick(U)} \in SUBSET T
          /\ Cardinality(U \ {Pick(U)}) = n
      BY <3>1, <3>2, <1>p
    <3>4. g[U \ {Pick(U)}] = h[U \ {Pick(U)}]
      BY <2>2, <3>3
    <3>5. g[U] = f[Pick(U)] + g[U \ {Pick(U)}]
      BY <1>1, <3>1
    <3>6. h[U] = f[Pick(U)] + h[U \ {Pick(U)}]
      BY <1>1, <3>1
    <3> QED BY <3>4, <3>5, <3>6
  <2> HIDE DEF E
  <2>3. \A n \in Nat : n \in E
    BY <2>1, <2>2, Induction
  <2>4. \A U \in SUBSET T : Cardinality(U) \in Nat
    BY <1>0, <2>0
  <2> QED BY <2>3, <2>4 DEF E
<1>u. ASSUME NEW T \in SUBSET S PROVE \E h : Is(h, T) /\ Sum(f, T) = h[T]
  <2>1. IsFiniteSet(T) /\ \A x \in T : f[x] \in Int
    BY <1>0
  <2>2. PICK h \in [SUBSET T -> Int] :
           /\ \A U \in SUBSET T :
                h[U] = IF U = {} THEN 0 ELSE f[Pick(U)] + h[U \ {Pick(U)}]
           /\ Sum(f, T) = h[T]
    BY <2>1, SumUnfolds
  <2> QED BY <2>2
<1>2. PICK g : Is(g, S)
  <2>1. S \in SUBSET S
    OBVIOUS
  <2> HIDE DEF Is
  <2> QED BY <2>1, <1>u
<1>3. ASSUME NEW T \in SUBSET S PROVE Sum(f, T) = g[T]
  <2>1. PICK h : Is(h, T) /\ Sum(f, T) = h[T]
    BY <1>u
  <2>2. T \in SUBSET T
    OBVIOUS
  <2>3. h[T] = g[T]
    <3> HIDE DEF Is
    <3> QED BY <1>1, <1>2, <2>1, <2>2
  <2> QED BY <2>1, <2>3
<1> DEFINE E == {n \in Nat : \A T \in SUBSET S : Cardinality(T) = n =>
                   \A x \in T : g[T] = f[x] + g[T \ {x}]}
<1>4. 0 \in E
  BY <1>0, FS_EmptySet
<1>5. ASSUME NEW n \in Nat, n \in E PROVE n + 1 \in E
  <2> SUFFICES ASSUME NEW T \in SUBSET S, Cardinality(T) = n + 1,
                      NEW x \in T
               PROVE  g[T] = f[x] + g[T \ {x}]
    OBVIOUS
  <2>1. PICK y : y = Pick(T)
    OBVIOUS
  <2>2. y \in T
    BY <2>1 DEF Pick
  <2>3. g[T] = f[y] + g[T \ {y}]
    BY <1>2, <2>1
  <2>4. CASE x = y
    BY <2>3, <2>4
  <2>5. CASE x # y
    <3>1. /\ T \ {y} \in SUBSET S /\ Cardinality(T \ {y}) = n
          /\ T \ {x} \in SUBSET S /\ Cardinality(T \ {x}) = n
          /\ x \in T \ {y} /\ y \in T \ {x}
          /\ f[x] \in Int /\ f[y] \in Int
      BY <2>2, <2>5, <1>p
    <3>2. (T \ {y}) \ {x} = (T \ {x}) \ {y}
      OBVIOUS
    <3>3. PICK V \in SUBSET S : V = (T \ {x}) \ {y}
      OBVIOUS
    <3>4. g[T \ {y}] = f[x] + g[V]
      BY <1>5, <3>1, <3>2, <3>3
    <3>5. g[T \ {x}] = f[y] + g[V]
      BY <1>5, <3>1, <3>3
    <3>6. g[V] \in Int
      BY <1>2
    <3> QED BY <2>3, <3>1, <3>4, <3>5, <3>6
  <2> QED BY <2>4, <2>5
<1> HIDE DEF E
<1>6. \A n \in Nat : n \in E
  BY <1>4, <1>5, Induction
<1>7. ASSUME NEW x \in S PROVE g[S] = f[x] + g[S \ {x}]
  BY <1>6, <1>0 DEF E
<1>8. \A x \in S : S \ {x} \in SUBSET S
  OBVIOUS
<1>9. Sum(f, S) = g[S] /\ g[S] \in Int
  BY <1>2, <1>3
<1>10. S = {} => g[S] = 0
  BY <1>2
<1> QED BY <1>2, <1>3, <1>7, <1>8, <1>9, <1>10

\* A sum of zeros is zero; one of all but one or two zeros is theirs.
LEMMA SumOfZeros ==
  ASSUME NEW S, IsFiniteSet(S), NEW f, \A x \in S : f[x] = 0
  PROVE  Sum(f, S) = 0
<1>0. \A T \in SUBSET S : /\ IsFiniteSet(T) /\ Cardinality(T) \in Nat
                          /\ \A x \in T : f[x] \in Int
  BY FS_Subset, FS_CardinalityType
<1> DEFINE E == {n \in Nat : \A T \in SUBSET S : Cardinality(T) = n =>
                   Sum(f, T) = 0}
<1>1. 0 \in E
  <2> SUFFICES ASSUME NEW T \in SUBSET S, Cardinality(T) = 0
               PROVE  Sum(f, T) = 0
    OBVIOUS
  <2>1. T = {}
    BY <1>0, FS_EmptySet
  <2> QED BY <2>1, <1>0, SumRemove
<1>2. ASSUME NEW n \in Nat, n \in E PROVE n + 1 \in E
  <2> SUFFICES ASSUME NEW T \in SUBSET S, Cardinality(T) = n + 1
               PROVE  Sum(f, T) = 0
    OBVIOUS
  <2>1. PICK x : x \in T
    BY FS_EmptySet
  <2>2. Cardinality(T \ {x}) = n /\ T \ {x} \in SUBSET S
    <3>1. IsFiniteSet(T)
      BY <1>0
    <3>2. Cardinality(T \ {x}) = Cardinality(T) - 1
      BY <2>1, <3>1, FS_RemoveElement
    <3> QED BY <3>2
  <2>3. Sum(f, T \ {x}) = 0
    BY <1>2, <2>2
  <2>4. Sum(f, T) = f[x] + Sum(f, T \ {x})
    BY <2>1, <1>0, SumRemove
  <2> QED BY <2>1, <2>3, <2>4
<1> HIDE DEF E
<1>3. \A n \in Nat : n \in E
  BY <1>1, <1>2, Induction
<1> QED BY <1>3, <1>0 DEF E

\* Sums of one and of two terms.
LEMMA SumOfOne ==
  ASSUME NEW S, IsFiniteSet(S), NEW f, NEW a \in S, f[a] \in Int,
         \A x \in S : x # a => f[x] = 0
  PROVE  Sum(f, S) = f[a]
<1>1. \A x \in S : f[x] \in Int
  OBVIOUS
<1>2. Sum(f, S) = f[a] + Sum(f, S \ {a})
  BY <1>1, SumRemove
<1>3. IsFiniteSet(S \ {a})
  BY FS_RemoveElement
<1>4. Sum(f, S \ {a}) = 0
  BY <1>3, SumOfZeros
<1> QED BY <1>2, <1>4

LEMMA SumOfTwo ==
  ASSUME NEW S, IsFiniteSet(S), NEW f, NEW a \in S, NEW b \in S, a # b,
         f[a] \in Int, f[b] \in Int, \A x \in S : x \notin {a, b} => f[x] = 0
  PROVE  Sum(f, S) = f[a] + f[b]
<1>1. \A x \in S : f[x] \in Int
  OBVIOUS
<1>2. Sum(f, S) = f[a] + Sum(f, S \ {a})
  BY <1>1, SumRemove
<1>3. IsFiniteSet(S \ {a}) /\ b \in S \ {a}
  BY FS_RemoveElement
<1>4. Sum(f, S \ {a}) = f[b]
  BY <1>3, SumOfOne
<1> QED BY <1>2, <1>4

-----------------------------------------------------------------------------
(* Filtered sequences.                                                     *)

\* f holds what every prefix of s is filtered to.
Sifts(f, s, S, W) ==
  /\ f \in [0..Len(s) -> Seq(W)]
  /\ f[0] = <<>> /\ Among(s, S) = f[Len(s)]
  /\ \A i \in 1..Len(s) :
       f[i] = IF s[i] \in S THEN Append(f[i - 1], s[i]) ELSE f[i - 1]
Sifted(s, S, W) == \E f : Sifts(f, s, S, W)

\* A filter is the last value of its recursive function.
LEMMA AmongUnfolds ==
  ASSUME NEW W, NEW s \in Seq(W), NEW S
  PROVE  Sifted(s, S, W)
<1> DEFINE G == [i \in 1..Len(s) |-> [x \in Seq(W) |->
                   IF s[i] \in S THEN Append(x, s[i]) ELSE x]]
           Table(h) == [i \in 0..Len(s) |->
                          IF i = 0 THEN <<>>
                          ELSE IF s[i] \in S THEN Append(h[i - 1], s[i])
                               ELSE h[i - 1]]
<1>1. \A i \in 1..Len(s) : \A x \in Seq(W) :
        (IF s[i] \in S THEN Append(x, s[i]) ELSE x) \in Seq(W)
  BY AppendProperties, ElementOfSeq
<1>2. G \in [1..Len(s) -> [Seq(W) -> Seq(W)]] /\ <<>> \in Seq(W)
      /\ Len(s) \in Nat
  BY <1>1
<1>g. \A i \in 1..Len(s) : \A x \in Seq(W) :
        G[i][x] = IF s[i] \in S THEN Append(x, s[i]) ELSE x
  OBVIOUS
<1> HIDE DEF G
<1>x. PICK f : Makes(f, <<>>, Len(s), G, Seq(W))
  BY <1>2, Recursion
<1>3. /\ f \in [0..Len(s) -> Seq(W)] /\ f[0] = <<>>
      /\ \A i \in 1..Len(s) : f[i] = G[i][f[i - 1]]
  BY <1>x DEF Makes
<1>4. \A i \in 1..Len(s) : i - 1 \in 0..Len(s)
  BY <1>2
<1>5. \A i \in 1..Len(s) :
        f[i] = IF s[i] \in S THEN Append(f[i - 1], s[i]) ELSE f[i - 1]
  BY <1>3, <1>4, <1>g
<1>6. f = Table(f)
  <2>1. \A i \in 0..Len(s) : f[i] = Table(f)[i]
    <3> SUFFICES ASSUME NEW i \in 0..Len(s) PROVE f[i] = Table(f)[i]
      OBVIOUS
    <3>1. CASE i = 0
      BY <3>1, <1>3
    <3>2. CASE i # 0
      <4>1. i \in 1..Len(s)
        BY <3>2, <1>2
      <4> QED BY <4>1, <3>2, <1>5
    <3> QED BY <3>1, <3>2
  <2> QED BY <2>1, <1>3
<1>7. PICK h : h = CHOOSE k : k = Table(k)
  OBVIOUS
<1>8. h = Table(h)
  BY <1>6, <1>7, Zenon
<1>9. Among(s, S) = h[Len(s)]
  BY <1>7, Zenon DEF Among
<1>10. \A i \in 0..Len(s) : h[i] = f[i]
  <2> DEFINE E == {i \in Nat : h[i] = f[i]}
  <2>1. 0 \in E
    BY <1>8, <1>3, <1>2
  <2>2. ASSUME NEW n \in 0..Len(s) - 1, n \in E PROVE n + 1 \in E
    <3>1. n + 1 \in 1..Len(s) /\ n + 1 \in 0..Len(s) /\ n + 1 # 0
          /\ (n + 1) - 1 = n /\ n + 1 \in Nat
      BY <1>2
    <3>2. h[n + 1] = IF s[n + 1] \in S THEN Append(h[n], s[n + 1]) ELSE h[n]
      BY <1>8, <3>1
    <3>3. f[n + 1] = IF s[n + 1] \in S THEN Append(f[n], s[n + 1]) ELSE f[n]
      BY <1>5, <3>1
    <3> QED BY <2>2, <3>1, <3>2, <3>3
  <2> HIDE DEF E
  <2>3. \A i \in 0..Len(s) : i \in E
    BY <2>1, <2>2, <1>2, InductionUpTo
  <2> QED BY <2>3 DEF E
<1>11. Among(s, S) = f[Len(s)]
  BY <1>9, <1>10, <1>2
<1>12. Sifts(f, s, S, W)
  BY <1>3, <1>5, <1>11 DEF Sifts
<1> QED BY <1>12 DEF Sifted

\* Filters of the empty sequence, and the type of a filter.
LEMMA AmongEmpty ==
  ASSUME NEW S
  PROVE  Among(<<>>, S) = <<>>
<1>1. PICK z \in Seq({}) : z = <<>>
  BY EmptySeq
<1>2. PICK f : Sifts(f, z, S, {})
  BY AmongUnfolds DEF Sifted
<1> QED BY <1>1, <1>2 DEF Sifts

LEMMA AmongType ==
  ASSUME NEW W, NEW s \in Seq(W), NEW S
  PROVE  Among(s, S) \in Seq(W)
<1>1. PICK f : Sifts(f, s, S, W)
  BY AmongUnfolds DEF Sifted
<1>2. Len(s) \in 0..Len(s)
  OBVIOUS
<1> QED BY <1>1, <1>2 DEF Sifts

\* The filter of a sequence is its filter before the last element, and that.
LEMMA AmongAppend ==
  ASSUME NEW W, NEW s \in Seq(W), NEW e \in W, NEW S
  PROVE  /\ e \in S => Among(Append(s, e), S) = Append(Among(s, S), e)
         /\ e \notin S => Among(Append(s, e), S) = Among(s, S)
<1>1. PICK f : Sifts(f, s, S, W)
  BY AmongUnfolds DEF Sifted
<1>2. PICK t \in Seq(W) : t = Append(s, e)
  BY AppendProperties
<1>3. /\ Len(t) = Len(s) + 1 /\ t[Len(t)] = e /\ Len(s) \in Nat
      /\ \A i \in 1..Len(s) : t[i] = s[i]
  BY <1>2, AppendProperties
<1>4. PICK g : Sifts(g, t, S, W)
  BY AmongUnfolds DEF Sifted
<1>5. \A i \in 0..Len(s) : g[i] = f[i]
  <2> DEFINE E == {i \in Nat : g[i] = f[i]}
  <2>1. 0 \in E
    BY <1>1, <1>4 DEF Sifts
  <2>2. ASSUME NEW n \in 0..Len(s) - 1, n \in E PROVE n + 1 \in E
    <3>1. n + 1 \in 1..Len(s) /\ n + 1 \in 1..Len(t)
          /\ (n + 1) - 1 = n /\ n + 1 \in Nat
      BY <1>3
    <3>2. g[n + 1] = IF t[n + 1] \in S THEN Append(g[n], t[n + 1]) ELSE g[n]
      BY <1>4, <3>1 DEF Sifts
    <3>3. f[n + 1] = IF s[n + 1] \in S THEN Append(f[n], s[n + 1]) ELSE f[n]
      BY <1>1, <3>1 DEF Sifts
    <3> QED BY <2>2, <3>1, <3>2, <3>3, <1>3
  <2> HIDE DEF E
  <2>3. \A i \in 0..Len(s) : i \in E
    BY <2>1, <2>2, <1>3, InductionUpTo
  <2> QED BY <2>3 DEF E
<1>6. Among(t, S) = IF e \in S THEN Append(Among(s, S), e) ELSE Among(s, S)
  <2>1. Len(t) \in 1..Len(t) /\ Len(t) - 1 = Len(s) /\ Len(s) \in 0..Len(s)
    BY <1>3
  <2>2. g[Len(t)] = IF e \in S THEN Append(g[Len(s)], e) ELSE g[Len(s)]
    BY <2>1, <1>3, <1>4 DEF Sifts
  <2> QED BY <2>1, <2>2, <1>1, <1>4, <1>5 DEF Sifts
<1> QED BY <1>2, <1>6

\* What an element appended adds to the members.
LEMMA RangeAppend ==
  ASSUME NEW W, NEW v \in Seq(W), NEW e \in W
  PROVE  Range(Append(v, e)) = Range(v) \cup {e}
<1>1. PICK u \in Seq(W) : u = Append(v, e)
  BY AppendProperties
<1>2. PICK n \in Nat : n = Len(v)
  BY LenProperties
<1>3. /\ DOMAIN v = 1..n /\ DOMAIN u = 1..n + 1
      /\ \A i \in 1..n : u[i] = v[i]
      /\ u[n + 1] = e
  BY <1>1, <1>2, LenProperties, AppendProperties
<1>4. 1..n + 1 = 1..n \cup {n + 1}
  OBVIOUS
<1>5. Range(u) = Range(v) \cup {e}
  BY <1>3, <1>4 DEF Range
<1> QED BY <1>1, <1>5

\* a is what a filter to S makes of t: its members in S, each once if it was
\* there once.
Filters(a, t, S) == /\ Range(a) = Range(t) \cap S
                    /\ IsInjective(t) => IsInjective(a)

\* A filter has the members that are in S, each once if the sequence has.
LEMMA AmongMembers ==
  ASSUME NEW W, NEW s \in Seq(W), NEW S
  PROVE  Among(s, S) \in Seq(W) /\ Filters(Among(s, S), s, S)
<1> DEFINE T == {t \in Seq(W) : Filters(Among(t, S), t, S)}
<1>1. <<>> \in T
  <2>1. <<>> \in Seq(W) /\ Range(<<>>) = {}
    BY DEF Range
  <2>2. Among(<<>>, S) = <<>>
    BY AmongEmpty
  <2>3. Filters(<<>>, <<>>, S)
    BY <2>1 DEF Filters
  <2> QED BY <2>1, <2>2, <2>3
<1>2. ASSUME NEW t \in Seq(W), NEW e \in W, t \in T PROVE Append(t, e) \in T
  <2>0. Filters(Among(t, S), t, S)
    BY <1>2
  <2> HIDE DEF T
  <2>1. PICK u \in Seq(W) : u = Append(t, e)
    BY AppendProperties
  <2>2. PICK a \in Seq(W) : a = Among(t, S)
    BY AmongType
  <2>3. /\ e \in S => Among(u, S) = Append(a, e)
        /\ e \notin S => Among(u, S) = a
    BY <2>1, <2>2, AmongAppend
  <2>4. \A v \in Seq(W) : Range(Append(v, e)) = Range(v) \cup {e}
    BY RangeAppend
  <2>5. Range(Among(u, S)) = Range(u) \cap S
    <3>1. Range(a) = Range(t) \cap S
      BY <2>0, <2>2 DEF Filters
    <3>4. Range(u) = Range(t) \cup {e}
      BY <2>1, <2>4
    <3>2. CASE e \in S
      <4>1. Range(Among(u, S)) = Range(a) \cup {e}
        BY <3>2, <2>2, <2>3, <2>4
      <4> QED BY <3>1, <3>2, <3>4, <4>1
    <3>3. CASE e \notin S
      BY <3>1, <3>3, <3>4, <2>3
    <3> QED BY <3>2, <3>3
  <2>6. ASSUME IsInjective(u) PROVE IsInjective(Among(u, S))
    <3>1. /\ DOMAIN t = 1..Len(t) /\ DOMAIN u = 1..Len(t) + 1
          /\ \A i \in 1..Len(t) : u[i] = t[i]
          /\ u[Len(t) + 1] = e /\ Len(t) \in Nat
      BY <2>1, LenProperties, AppendProperties
    <3>2. IsInjective(t) /\ e \notin Range(t)
      BY <2>6, <3>1 DEF IsInjective, Range
    <3>3. IsInjective(a) /\ e \notin Range(a)
      BY <2>0, <2>2, <3>2 DEF Filters
    <3>4. IsInjective(Append(a, e))
      <4>1. PICK b \in Seq(W) : b = Append(a, e)
        BY AppendProperties
      <4>2. /\ DOMAIN a = 1..Len(a) /\ DOMAIN b = 1..Len(a) + 1
            /\ \A i \in 1..Len(a) : b[i] = a[i]
            /\ b[Len(a) + 1] = e /\ Len(a) \in Nat
        BY <4>1, LenProperties, AppendProperties
      <4>3. IsInjective(b)
        BY <3>3, <4>2 DEF IsInjective, Range
      <4> QED BY <4>1, <4>3
    <3> QED BY <2>3, <3>3, <3>4
  <2>7. Filters(Among(u, S), u, S)
    BY <2>5, <2>6 DEF Filters
  <2> QED BY <2>1, <2>7 DEF T
<1> HIDE DEF T
<1>3. s \in T
  BY <1>1, <1>2, SequenceInduction
<1>4. Among(s, S) \in Seq(W)
  BY AmongType
<1>5. Filters(Among(s, S), s, S)
  BY <1>3 DEF T
<1> QED BY <1>4, <1>5

-----------------------------------------------------------------------------
(* Sequences that list a set of words, each once.                          *)

Lists(s, S) == s \in Seq(Words) /\ IsInjective(s) /\ Range(s) = S

\* A list is as long as the set it lists has members.
LEMMA ListCount ==
  ASSUME NEW S, NEW s, Lists(s, S)
  PROVE  /\ S \in SUBSET Words /\ IsFiniteSet(S)
         /\ Len(s) = Cardinality(S) /\ Cardinality(S) \in Nat
         /\ Len(s) \in Nat /\ DOMAIN s = 1..Len(s) /\ s \in Seq(Words)
         /\ IsInjective(s) /\ Range(s) = S
<1>1. /\ s \in Seq(Words) /\ IsInjective(s) /\ Range(s) = S
  BY DEF Lists
<1>2. Len(s) \in Nat /\ DOMAIN s = 1..Len(s) /\ s \in [1..Len(s) -> Words]
  BY <1>1, LenProperties
<1>3. S \in SUBSET Words
  BY <1>1, RangeOfSeq
<1>4. s \in Bijection(1..Len(s), S)
  <2>1. s \in [1..Len(s) -> S]
    BY <1>1, <1>2 DEF Range
  <2>2. \A x \in S : \E i \in 1..Len(s) : s[i] = x
    BY <1>1, <1>2 DEF Range
  <2> QED BY <1>1, <2>1, <2>2 DEF Bijection, Injection, Surjection
<1>5. ExistsBijection(1..Len(s), S)
  BY <1>4 DEF ExistsBijection
<1>6. Cardinality(S) = Len(s)
  BY <1>2, <1>5, FS_CountingElements
<1>7. IsFiniteSet(S)
  BY <1>2, <1>5, FS_NatBijection
<1> QED BY <1>1, <1>2, <1>3, <1>6, <1>7

\* A list of all words that is no longer than their number has each once.
LEMMA AllWordsListed ==
  ASSUME NEW s \in Seq(Words), Range(s) = Words, Len(s) = Cardinality(Words)
  PROVE  Lists(s, Words)
<1>1. Len(s) \in Nat /\ DOMAIN s = 1..Len(s) /\ s \in [1..Len(s) -> Words]
  BY LenProperties
<1>2. s \in Surjection(1..Len(s), Words)
  BY <1>1 DEF Surjection, Range
<1>3. IsFiniteSet(1..Len(s)) /\ Cardinality(1..Len(s)) = Len(s)
  <2>1. 1 \in Int /\ Len(s) \in Int
    BY <1>1
  <2>2. /\ IsFiniteSet(1..Len(s))
        /\ Cardinality(1..Len(s)) = IF 1 > Len(s) THEN 0 ELSE Len(s) - 1 + 1
    BY <2>1, FS_Interval
  <2> QED BY <2>2, <1>1
<1>4. s \in Injection(1..Len(s), Words)
  BY <1>2, <1>3, FS_SurjSameCardinalityImpliesInj
<1> QED BY <1>4 DEF Lists, Injection

\* A seeded shuffle lists all words.
LEMMA OrdersList ==
  /\ \A order \in Shuffles : Lists(order, Words)
  /\ Lists(Corpus, Words)
<1>1. ASSUME NEW order \in Shuffles PROVE Lists(order, Words)
  BY ReserveAssumption, AllWordsListed
<1>2. Lists(Corpus, Words)
  BY AdmissionAssumption, AllWordsListed
<1> QED BY <1>1, <1>2

\* Filtered and concatenated lists are lists.
LEMMA AmongLists ==
  ASSUME NEW S, NEW s, Lists(s, S), NEW T
  PROVE  Lists(Among(s, T), S \cap T)
<1>1. s \in Seq(Words) /\ IsInjective(s) /\ Range(s) = S
  BY DEF Lists
<1>2. Among(s, T) \in Seq(Words) /\ Filters(Among(s, T), s, T)
  BY <1>1, AmongMembers
<1> QED BY <1>1, <1>2 DEF Lists, Filters

LEMMA ConcatLists ==
  ASSUME NEW S, NEW s, Lists(s, S), NEW T, NEW t, Lists(t, T), S \cap T = {}
  PROVE  Lists(s \o t, S \cup T)
<1>1. /\ s \in Seq(Words) /\ IsInjective(s) /\ Range(s) = S
      /\ t \in Seq(Words) /\ IsInjective(t) /\ Range(t) = T
  BY DEF Lists
<1>2. PICK u \in Seq(Words) : u = s \o t
  BY <1>1, ConcatProperties
<1>3. Range(u) = S \cup T
  BY <1>1, <1>2, RangeConcatenation
<1>4. /\ DOMAIN s = 1..Len(s) /\ DOMAIN t = 1..Len(t)
      /\ DOMAIN u = 1..Len(s) + Len(t) /\ Len(s) \in Nat /\ Len(t) \in Nat
      /\ \A i \in 1..Len(s) + Len(t) :
           u[i] = IF i <= Len(s) THEN s[i] ELSE t[i - Len(s)]
  BY <1>1, <1>2, LenProperties, ConcatProperties
<1>5. \A i \in 1..Len(s), j \in 1..Len(t) : s[i] # t[j]
  BY <1>1, <1>4 DEF Range
<1>6. IsInjective(u)
  <2> SUFFICES ASSUME NEW i \in 1..Len(s) + Len(t),
                      NEW j \in 1..Len(s) + Len(t), u[i] = u[j]
               PROVE  i = j
    BY <1>4 DEF IsInjective
  <2>1. CASE i <= Len(s) /\ j <= Len(s)
    <3>1. i \in 1..Len(s) /\ j \in 1..Len(s) /\ s[i] = s[j]
      BY <2>1, <1>4
    <3> QED BY <3>1, <1>1, <1>4 DEF IsInjective
  <2>2. CASE i > Len(s) /\ j > Len(s)
    <3>1. i - Len(s) \in 1..Len(t) /\ j - Len(s) \in 1..Len(t)
          /\ t[i - Len(s)] = t[j - Len(s)]
      BY <2>2, <1>4
    <3>2. i - Len(s) = j - Len(s)
      BY <3>1, <1>1, <1>4 DEF IsInjective
    <3> QED BY <3>2, <1>4
  <2>3. CASE i <= Len(s) /\ j > Len(s)
    BY <2>3, <1>4, <1>5
  <2>4. CASE i > Len(s) /\ j <= Len(s)
    BY <2>4, <1>4, <1>5
  <2> QED BY <2>1, <2>2, <2>3, <2>4, <1>4
<1> QED BY <1>2, <1>3, <1>6 DEF Lists

\* The first n of a sequence: its values, and what it lists.
LEMMA TakeValues ==
  ASSUME NEW s \in Seq(Words), NEW n \in Nat
  PROVE  /\ Take(s, n) \in Seq(Words) /\ Len(Take(s, n)) = Least(n, Len(s))
         /\ DOMAIN Take(s, n) = 1..Least(n, Len(s))
         /\ Least(n, Len(s)) \in 0..Len(s)
         /\ \A i \in 1..Least(n, Len(s)) : Take(s, n)[i] = s[i]
<1>1. Len(s) \in Nat
  BY LenProperties
<1>2. PICK k \in 0..Len(s) : k = Least(n, Len(s))
  BY <1>1 DEF Least
<1>3. 1 \in Int /\ k \in Int /\ \A i \in 1..k : s[i] \in Words
  BY <1>1, ElementOfSeq
<1>4. PICK u : u = SubSeq(s, 1, k)
  OBVIOUS
<1>5. /\ u \in Seq(Words) /\ Len(u) = IF 1 <= k THEN k - 1 + 1 ELSE 0
      /\ \A i \in 1 .. k - 1 + 1 : u[i] = s[1 + i - 1]
  BY <1>3, <1>4, SubSeqProperties
<1>6. Len(u) = k /\ \A i \in 1..k : u[i] = s[i]
  BY <1>5
<1>7. DOMAIN u = 1..k
  BY <1>5, <1>6, LenProperties
<1> QED BY <1>2, <1>4, <1>5, <1>6, <1>7 DEF Take

LEMMA TakeLists ==
  ASSUME NEW S, NEW s, Lists(s, S), NEW n \in Nat
  PROVE  /\ Lists(Take(s, n), Range(Take(s, n)))
         /\ Range(Take(s, n)) \in SUBSET S
         /\ Cardinality(Range(Take(s, n))) = Least(n, Cardinality(S))
<1>1. /\ s \in Seq(Words) /\ IsInjective(s) /\ Range(s) = S
      /\ Len(s) = Cardinality(S) /\ DOMAIN s = 1..Len(s) /\ Len(s) \in Nat
  BY ListCount
<1>2. PICK u : u = Take(s, n)
  OBVIOUS
<1>3. PICK k \in 0..Len(s) : k = Least(n, Len(s))
  BY <1>1, TakeValues
<1>4. /\ u \in Seq(Words) /\ Len(u) = k /\ DOMAIN u = 1..k
      /\ \A i \in 1..k : u[i] = s[i]
  BY <1>1, <1>2, <1>3, TakeValues
<1>5. IsInjective(u)
  BY <1>1, <1>3, <1>4 DEF IsInjective
<1>6. Range(u) \in SUBSET S
  BY <1>1, <1>3, <1>4 DEF Range
<1>7. Lists(u, Range(u))
  BY <1>4, <1>5 DEF Lists
<1>8. Cardinality(Range(u)) = k
  BY <1>4, <1>7, ListCount
<1> QED BY <1>1, <1>2, <1>3, <1>6, <1>7, <1>8

\* The preferred members come first, and all members come once.
LEMMA PreferredFirstLists ==
  ASSUME NEW order, Lists(order, Words), NEW S \in SUBSET Words, NEW P
  PROVE  /\ Lists(PreferredFirst(order, S, P), S)
         /\ Lists(Among(order, S \cap P), S \cap P)
         /\ Lists(Among(order, S \ P), S \ P)
<1>1. Lists(Among(order, S \cap P), Words \cap (S \cap P))
      /\ Lists(Among(order, S \ P), Words \cap (S \ P))
  BY AmongLists
<1>2. /\ Words \cap (S \cap P) = S \cap P /\ Words \cap (S \ P) = S \ P
      /\ (S \cap P) \cap (S \ P) = {} /\ (S \cap P) \cup (S \ P) = S
  OBVIOUS
<1>3. Lists(Among(order, S \cap P) \o Among(order, S \ P),
            (S \cap P) \cup (S \ P))
  BY <1>1, <1>2, ConcatLists
<1> QED BY <1>1, <1>2, <1>3 DEF PreferredFirst

\* What is taken of one list before another: nothing of the second unless the
\* whole first is taken and a place is left.
LEMMA TakeLeads ==
  ASSUME NEW S, NEW u, Lists(u, S), NEW v \in Seq(Words), NEW n \in Nat
  PROVE  /\ Range(Take(u, n)) \subseteq Range(Take(u \o v, n))
         /\ \A w \in Range(Take(u \o v, n)) :
              \/ w \in Range(Take(u, n))
              \/ w \in Range(v) /\ Cardinality(S) < n
<1>1. /\ u \in Seq(Words) /\ Len(u) = Cardinality(S) /\ Len(u) \in Nat
      /\ DOMAIN u = 1..Len(u)
  BY ListCount
<1>2. PICK x \in Seq(Words) : x = u \o v
  BY <1>1, ConcatProperties
<1>3. /\ Len(x) = Len(u) + Len(v) /\ Len(v) \in Nat /\ DOMAIN v = 1..Len(v)
      /\ \A i \in 1..Len(u) + Len(v) :
           x[i] = IF i <= Len(u) THEN u[i] ELSE v[i - Len(u)]
  BY <1>1, <1>2, LenProperties, ConcatProperties
<1>4. PICK a : a = Take(u, n)
  OBVIOUS
<1>5. PICK b : b = Take(x, n)
  OBVIOUS
<1>6. /\ DOMAIN a = 1..Least(n, Len(u))
      /\ \A i \in 1..Least(n, Len(u)) : a[i] = u[i]
  BY <1>1, <1>4, TakeValues
<1>7. /\ DOMAIN b = 1..Least(n, Len(x))
      /\ \A i \in 1..Least(n, Len(x)) : b[i] = x[i]
  BY <1>2, <1>5, TakeValues
<1>8. Range(a) \subseteq Range(b)
  <2> SUFFICES ASSUME NEW i \in 1..Least(n, Len(u)) PROVE a[i] \in Range(b)
    BY <1>6 DEF Range
  <2>1. i \in 1..Least(n, Len(x)) /\ i \in 1..Len(u) + Len(v) /\ i <= Len(u)
    BY <1>1, <1>3 DEF Least
  <2>2. a[i] = b[i]
    BY <2>1, <1>3, <1>6, <1>7
  <2> QED BY <2>1, <2>2, <1>7 DEF Range
<1>9. ASSUME NEW w \in Range(b)
      PROVE  w \in Range(a) \/ (w \in Range(v) /\ Cardinality(S) < n)
  <2>1. PICK i \in 1..Least(n, Len(x)) : w = x[i]
    BY <1>7 DEF Range
  <2>2. i \in 1..Len(u) + Len(v) /\ i <= n
    BY <1>1, <1>3 DEF Least
  <2>3. CASE i <= Len(u)
    <3>1. i \in 1..Least(n, Len(u))
      BY <2>2, <2>3, <1>1 DEF Least
    <3> QED BY <3>1, <2>1, <2>2, <2>3, <1>3, <1>6 DEF Range
  <2>4. CASE i > Len(u)
    <3>1. i - Len(u) \in 1..Len(v) /\ Len(u) < n /\ w = v[i - Len(u)]
      BY <2>1, <2>2, <2>4, <1>1, <1>3
    <3> QED BY <3>1, <1>1, <1>3 DEF Range
  <2> QED BY <2>2, <2>3, <2>4, <1>1, <1>3
<1> QED BY <1>2, <1>4, <1>5, <1>8, <1>9

\* A word that is taken without being preferred left no preferred one behind.
LEMMA TakePrefers ==
  ASSUME NEW order, Lists(order, Words), NEW S \in SUBSET Words, NEW P,
         NEW n \in Nat, NEW w \in Range(Take(PreferredFirst(order, S, P), n)),
         w \notin P
  PROVE  Cardinality(S \cap P) < n
<1>1. Lists(Among(order, S \cap P), S \cap P)
      /\ Lists(Among(order, S \ P), S \ P)
  BY PreferredFirstLists
<1>2. Among(order, S \ P) \in Seq(Words)
  BY <1>1 DEF Lists
<1>3. \/ w \in Range(Take(Among(order, S \cap P), n))
      \/ Cardinality(S \cap P) < n
  BY <1>1, <1>2, TakeLeads DEF PreferredFirst
<1>4. Range(Take(Among(order, S \cap P), n)) \in SUBSET (S \cap P)
  BY <1>1, TakeLists
<1> QED BY <1>3, <1>4

-----------------------------------------------------------------------------
(* What a filter lets advance.                                             *)

\* Of the first n after an element is appended: it, if there was a place.
LEMMA TakeAppend ==
  ASSUME NEW v \in Seq(Words), NEW e \in Words, NEW n \in Nat
  PROVE  Range(Take(Append(v, e), n)) =
           Range(Take(v, n)) \cup (IF Len(v) < n THEN {e} ELSE {})
<1>1. PICK x \in Seq(Words) : x = Append(v, e)
  BY AppendProperties
<1>2. /\ Len(x) = Len(v) + 1 /\ Len(v) \in Nat /\ x[Len(v) + 1] = e
      /\ \A i \in 1..Len(v) : x[i] = v[i]
  BY <1>1, AppendProperties, LenProperties
<1>3. PICK a : a = Take(v, n)
  OBVIOUS
<1>4. PICK b : b = Take(x, n)
  OBVIOUS
<1>5. /\ DOMAIN a = 1..Least(n, Len(v))
      /\ \A i \in 1..Least(n, Len(v)) : a[i] = v[i]
  BY <1>3, TakeValues
<1>6. /\ DOMAIN b = 1..Least(n, Len(x))
      /\ \A i \in 1..Least(n, Len(x)) : b[i] = x[i]
  BY <1>4, TakeValues
<1>7. CASE Len(v) < n
  <2>1. Least(n, Len(v)) = Len(v) /\ Least(n, Len(x)) = Len(v) + 1
    BY <1>7, <1>2 DEF Least
  <2>2. Range(b) = Range(a) \cup {e}
    <3>1. DOMAIN b = DOMAIN a \cup {Len(v) + 1}
      BY <2>1, <1>2, <1>5, <1>6
    <3>2. b[Len(v) + 1] = e /\ \A i \in DOMAIN a : b[i] = a[i]
      BY <2>1, <1>2, <1>5, <1>6
    <3> QED BY <3>1, <3>2 DEF Range
  <2> QED BY <2>2, <1>1, <1>3, <1>4, <1>7
<1>8. CASE ~(Len(v) < n)
  <2>1. Least(n, Len(v)) = n /\ Least(n, Len(x)) = n
    BY <1>8, <1>2 DEF Least
  <2>2. DOMAIN b = DOMAIN a /\ \A i \in DOMAIN a : b[i] = a[i]
    BY <1>8, <2>1, <1>2, <1>5, <1>6
  <2>3. Range(b) = Range(a)
    BY <2>2 DEF Range
  <2> QED BY <2>3, <1>1, <1>3, <1>4, <1>8
<1> QED BY <1>7, <1>8

\* A member of a narrower filter comes no later in it than in a wider one.
LEMMA NarrowerAdvances ==
  ASSUME NEW s \in Seq(Words), NEW S, NEW T, T \subseteq S, NEW n \in Nat
  PROVE  Range(Take(Among(s, S), n)) \cap T
           \subseteq Range(Take(Among(s, T), n))
<1> DEFINE Led(t) ==
             /\ Len(Among(t, T)) <= Len(Among(t, S))
             /\ Range(Take(Among(t, S), n)) \cap T
                  \subseteq Range(Take(Among(t, T), n))
           H == {t \in Seq(Words) : Led(t)}
<1>1. <<>> \in H
  <2>1. <<>> \in Seq(Words) /\ Among(<<>>, S) = <<>> /\ Among(<<>>, T) = <<>>
        /\ Len(<<>>) = 0
    BY AmongEmpty, EmptySeq
  <2> QED BY <2>1
<1>2. ASSUME NEW t \in Seq(Words), NEW e \in Words, t \in H
      PROVE  Append(t, e) \in H
  <2>0. Led(t)
    BY <1>2
  <2>1. PICK a \in Seq(Words) : a = Among(t, S)
    BY AmongType
  <2>2. PICK b \in Seq(Words) : b = Among(t, T)
    BY AmongType
  <2>3. /\ Len(b) <= Len(a) /\ Len(a) \in Nat /\ Len(b) \in Nat
        /\ Range(Take(a, n)) \cap T \subseteq Range(Take(b, n))
    BY <2>0, <2>1, <2>2, LenProperties
  <2>4. PICK u \in Seq(Words) : u = Append(t, e)
    BY AppendProperties
  <2>5. /\ Len(Append(a, e)) = Len(a) + 1 /\ Len(Append(b, e)) = Len(b) + 1
        /\ Range(Take(Append(a, e), n)) =
             Range(Take(a, n)) \cup (IF Len(a) < n THEN {e} ELSE {})
        /\ Range(Take(Append(b, e), n)) =
             Range(Take(b, n)) \cup (IF Len(b) < n THEN {e} ELSE {})
    BY TakeAppend, AppendProperties
  <2>6. Led(u)
    <3>1. CASE e \in T
      <4>1. Among(u, S) = Append(a, e) /\ Among(u, T) = Append(b, e)
        BY <3>1, <2>1, <2>2, <2>4, AmongAppend
      <4>2. Len(Append(b, e)) <= Len(Append(a, e))
        BY <2>3, <2>5
      <4>3. Range(Take(Append(a, e), n)) \cap T
              \subseteq Range(Take(Append(b, e), n))
        <5>1. CASE Len(a) < n
          <6>1. Len(b) < n
            BY <5>1, <2>3
          <6> QED BY <5>1, <6>1, <2>3, <2>5
        <5>2. CASE ~(Len(a) < n)
          BY <5>2, <2>3, <2>5
        <5> QED BY <5>1, <5>2
      <4> QED BY <4>1, <4>2, <4>3
    <3>2. CASE e \notin T /\ e \in S
      <4>1. Among(u, S) = Append(a, e) /\ Among(u, T) = b
        BY <3>2, <2>1, <2>2, <2>4, AmongAppend
      <4>2. Len(b) <= Len(Append(a, e))
        BY <2>3, <2>5
      <4>3. Range(Take(Append(a, e), n)) \cap T \subseteq Range(Take(b, n))
        BY <3>2, <2>3, <2>5
      <4> QED BY <4>1, <4>2, <4>3
    <3>3. CASE e \notin S
      <4>1. Among(u, S) = a /\ Among(u, T) = b
        BY <3>3, <2>1, <2>2, <2>4, AmongAppend
      <4> QED BY <4>1, <2>3
    <3> QED BY <3>1, <3>2, <3>3
  <2> QED BY <2>4, <2>6
<1> HIDE DEF H
<1>3. s \in H
  BY <1>1, <1>2, SequenceInduction
<1> QED BY <1>3 DEF H

\* A filter that lets everything pass.
LEMMA AmongAll ==
  ASSUME NEW s \in Seq(Words)
  PROVE  Among(s, Words) = s
<1> DEFINE H == {t \in Seq(Words) : Among(t, Words) = t}
<1>1. <<>> \in H
  BY AmongEmpty, EmptySeq
<1>2. ASSUME NEW t \in Seq(Words), NEW e \in Words, t \in H
      PROVE  Append(t, e) \in H
  <2>1. Among(Append(t, e), Words) = Append(Among(t, Words), e)
    BY AmongAppend
  <2>2. Among(t, Words) = t
    BY <1>2
  <2>3. Append(t, e) \in Seq(Words)
    BY AppendProperties
  <2> QED BY <2>1, <2>2, <2>3
<1> HIDE DEF H
<1>3. s \in H
  BY <1>1, <1>2, SequenceInduction
<1> QED BY <1>3 DEF H

\* The members of a set among the first n are among its own first n.
LEMMA FilterAdvances ==
  ASSUME NEW s \in Seq(Words), NEW T, NEW n \in Nat
  PROVE  Range(Take(s, n)) \cap T \subseteq Range(Take(Among(s, T), n))
<1>1. PICK a \in Seq(Words) : a = Take(s, n)
  BY TakeValues
<1>2. Range(a) \subseteq Words
  BY RangeOfSeq
<1>3. PICK U : U = T \cap Words
  OBVIOUS
<1>4. Range(Take(Among(s, Words), n)) \cap U
        \subseteq Range(Take(Among(s, U), n))
  BY <1>3, NarrowerAdvances
<1>5. Among(s, U) = Among(s, T)
  <2> DEFINE H == {t \in Seq(Words) : Among(t, U) = Among(t, T)}
  <2>1. <<>> \in H
    BY AmongEmpty, EmptySeq
  <2>2. ASSUME NEW t \in Seq(Words), NEW e \in Words, t \in H
        PROVE  Append(t, e) \in H
    <3>1. /\ e \in T => Among(Append(t, e), T) = Append(Among(t, T), e)
          /\ e \notin T => Among(Append(t, e), T) = Among(t, T)
      BY AmongAppend
    <3>2. /\ e \in U => Among(Append(t, e), U) = Append(Among(t, U), e)
          /\ e \notin U => Among(Append(t, e), U) = Among(t, U)
      BY AmongAppend
    <3>3. e \in T <=> e \in U
      BY <1>3
    <3>4. Append(t, e) \in Seq(Words) /\ Among(t, U) = Among(t, T)
      BY <2>2, AppendProperties
    <3> QED BY <3>1, <3>2, <3>3, <3>4
  <2> HIDE DEF H
  <2>3. s \in H
    BY <2>1, <2>2, SequenceInduction
  <2> QED BY <2>3 DEF H
<1>6. Among(s, Words) = s
  BY AmongAll
<1> QED BY <1>1, <1>2, <1>3, <1>4, <1>5, <1>6

\* Appending to the second of two sequences.
LEMMA ConcatAppend ==
  ASSUME NEW p \in Seq(Words), NEW q \in Seq(Words), NEW e \in Words
  PROVE  p \o Append(q, e) = Append(p \o q, e)
<1>1. <<e>> \in Seq(Words) /\ p \o q \in Seq(Words)
  BY ConcatProperties
<1>2. Append(q, e) = q \o <<e>>
  BY AppendIsConcat
<1>3. Append(p \o q, e) = (p \o q) \o <<e>>
  BY <1>1, AppendIsConcat
<1>4. ASSUME NEW z \in Seq(Words) PROVE (p \o q) \o z = p \o (q \o z)
  BY ConcatAssociative
<1>5. (p \o q) \o <<e>> = p \o (q \o <<e>>)
  BY <1>1, <1>4
<1> QED BY <1>2, <1>3, <1>5

\* The filter of a concatenation is the concatenation of the filters.
LEMMA AmongConcat ==
  ASSUME NEW u \in Seq(Words), NEW v \in Seq(Words), NEW S
  PROVE  Among(u \o v, S) = Among(u, S) \o Among(v, S)
<1> DEFINE H == {t \in Seq(Words) : Among(u \o t, S) = Among(u, S) \o Among(t, S)}
<1>0. PICK a \in Seq(Words) : a = Among(u, S)
  BY AmongType
<1>1. <<>> \in H
  <2>1. <<>> \in Seq(Words) /\ u \o <<>> = u /\ a \o <<>> = a
    BY ConcatEmptySeq, EmptySeq
  <2> QED BY <2>1, <1>0, AmongEmpty
<1>2. ASSUME NEW t \in Seq(Words), NEW e \in Words, t \in H
      PROVE  Append(t, e) \in H
  <2>0. Among(u \o t, S) = a \o Among(t, S)
    BY <1>2, <1>0
  <2> HIDE DEF H
  <2>1. PICK b \in Seq(Words) : b = Among(t, S)
    BY AmongType
  <2>2. PICK x \in Seq(Words) : x = Append(t, e)
    BY AppendProperties
  <2>3. \A p, q \in Seq(Words) :
          p \o Append(q, e) = Append(p \o q, e) /\ p \o q \in Seq(Words)
    <3> SUFFICES ASSUME NEW p \in Seq(Words), NEW q \in Seq(Words)
                 PROVE  p \o Append(q, e) = Append(p \o q, e)
                        /\ p \o q \in Seq(Words)
      OBVIOUS
    <3>1. p \o q \in Seq(Words)
      BY ConcatProperties
    <3> QED BY <3>1, ConcatAppend
  <2>4. u \o x = Append(u \o t, e) /\ u \o t \in Seq(Words)
        /\ a \o Append(b, e) = Append(a \o b, e)
    BY <2>2, <2>3
  <2>5. CASE e \in S
    <3>1. Among(Append(u \o t, e), S) = Append(Among(u \o t, S), e)
          /\ Among(Append(t, e), S) = Append(Among(t, S), e)
      BY <2>4, <2>5, AmongAppend
    <3>2. Among(u \o x, S) = Append(a \o b, e) /\ Among(x, S) = Append(b, e)
      BY <3>1, <2>0, <2>1, <2>2, <2>4
    <3>3. Among(u \o x, S) = Among(u, S) \o Among(x, S)
      BY <3>2, <2>4, <1>0
    <3> QED BY <3>3, <2>2 DEF H
  <2>6. CASE e \notin S
    <3>1. Among(Append(u \o t, e), S) = Among(u \o t, S)
          /\ Among(Append(t, e), S) = Among(t, S)
      BY <2>4, <2>6, AmongAppend
    <3>2. Among(u \o x, S) = Among(u, S) \o Among(x, S)
      BY <3>1, <2>0, <2>1, <2>2, <2>4, <1>0
    <3> QED BY <3>2, <2>2 DEF H
  <2> QED BY <2>5, <2>6
<1> HIDE DEF H
<1>3. v \in H
  BY <1>1, <1>2, SequenceInduction
<1> QED BY <1>3 DEF H

-----------------------------------------------------------------------------
(* The stash.                                                              *)

\* A diet whose quanta are in one deck, or in two that follow each other.
Dieted(weights) ==
  /\ weights \in [1..Decks -> 0..Quanta]
  /\ \E a \in 1..Decks, k \in 0..Quanta - 1 :
       /\ k > 0 => a < Decks
       /\ weights = [d \in 1..Decks |->
                       IF d = a THEN Quanta - k
                       ELSE IF d = a + 1 THEN k ELSE 0]

\* What a plan is asked of.
Asks(r) ==
  /\ r.stash \in SUBSET Words /\ r.diet \in SUBSET Words
  /\ r.stash \cap r.diet = {}
  /\ r.tops \in Seq(Words) /\ IsInjective(r.tops)
  /\ r.source \in {"mixed", "stash_only"} /\ Dieted(r.weights)
  /\ r.quota \in Nat /\ r.ready \in SUBSET Words

\* The stash's share is a part of the quota.
LEMMA ShareBounds ==
  ASSUME NEW r, Asks(r)
  PROVE  Share(r) \in 0..r.quota /\ Share(r) \in Nat /\ r.quota \in Nat
<1>1. PICK n \in Nat : n = r.quota
  BY DEF Asks
<1>2. ShareOf \in Nat /\ ShareOf > 0 /\ ShareParts \in Nat
      /\ ShareParts <= ShareOf
  BY AdmissionAssumption
<1>3. PICK P \in Nat : P = n * ShareParts
  BY <1>2
<1>4. P <= n * ShareOf
  BY <1>2, <1>3
<1>5. PICK q \in Int : q = P \div ShareOf
  BY <1>2
<1>6. q \in Nat /\ q * ShareOf <= P
  BY <1>2, <1>3, <1>5
<1>7. q <= n
  BY <1>2, <1>4, <1>6
<1>8. Share(r) = n \/ Share(r) = q
  BY <1>1, <1>3, <1>5 DEF Share
<1> QED BY <1>1, <1>6, <1>7, <1>8

\* The stash in its order: the tops, the preferred, the others.
LEMMA StashLists ==
  ASSUME NEW r, Asks(r), NEW order, Lists(order, Words)
  PROVE  /\ Lists(StashOrder(r, order), r.stash)
         /\ Lists(Among(r.tops, r.stash), Range(r.tops) \cap r.stash)
         /\ Lists(PreferredFirst(order, r.stash \ Range(r.tops), r.preferred),
                  r.stash \ Range(r.tops))
<1>1. Lists(r.tops, Range(r.tops))
  BY DEF Asks, Lists
<1>2. Lists(Among(r.tops, r.stash), Range(r.tops) \cap r.stash)
  BY <1>1, AmongLists
<1>3. r.stash \ Range(r.tops) \in SUBSET Words
  BY DEF Asks
<1>4. PICK rest : rest = PreferredFirst(order, r.stash \ Range(r.tops),
                                        r.preferred)
  OBVIOUS
<1>5. Lists(rest, r.stash \ Range(r.tops))
  BY <1>3, <1>4, PreferredFirstLists
<1>6. (Range(r.tops) \cap r.stash) \cap (r.stash \ Range(r.tops)) = {}
      /\ (Range(r.tops) \cap r.stash) \cup (r.stash \ Range(r.tops)) = r.stash
  OBVIOUS
<1>7. Lists(Among(r.tops, r.stash) \o rest,
            (Range(r.tops) \cap r.stash) \cup (r.stash \ Range(r.tops)))
  BY <1>2, <1>5, <1>6, ConcatLists
<1> QED BY <1>2, <1>4, <1>5, <1>6, <1>7 DEF StashOrder

\* How much of the stash a plan takes and draws.
LEMMA StashCounts ==
  ASSUME NEW r, Asks(r), NEW order, Lists(order, Words),
         NEW P, P = Range(StashPlanned(r, order)),
         NEW D, D = Range(StashDrawn(r, order))
  PROVE  /\ P \in SUBSET r.stash /\ D \in SUBSET (r.stash \cap r.ready)
         /\ Cardinality(P) = Least(Share(r), Cardinality(r.stash))
         /\ Cardinality(D) = Least(Share(r), Cardinality(r.stash \cap r.ready))
         /\ P \cap r.ready \subseteq D
         /\ StashDrawn(r, order) \in Seq(Words)
<1>1. PICK n \in Nat : n = Share(r)
  BY ShareBounds
<1>2. PICK s : s = StashOrder(r, order)
  OBVIOUS
<1>3. Lists(s, r.stash)
  BY <1>2, StashLists
<1>4. PICK t : t = Among(s, r.ready)
  OBVIOUS
<1>5. Lists(t, r.stash \cap r.ready)
  BY <1>3, <1>4, AmongLists
<1>6. s \in Seq(Words)
  BY <1>3 DEF Lists
<1>7. P = Range(Take(s, n)) /\ D = Range(Take(t, n))
      /\ StashDrawn(r, order) = Take(t, n)
  BY <1>1, <1>2, <1>4 DEF StashPlanned, StashDrawn
<1>8. /\ Range(Take(s, n)) \in SUBSET r.stash
      /\ Cardinality(Range(Take(s, n))) = Least(n, Cardinality(r.stash))
  BY <1>3, TakeLists
<1>9. /\ Range(Take(t, n)) \in SUBSET (r.stash \cap r.ready)
      /\ Cardinality(Range(Take(t, n))) =
           Least(n, Cardinality(r.stash \cap r.ready))
      /\ Lists(Take(t, n), Range(Take(t, n)))
  BY <1>5, TakeLists
<1>10. Range(Take(s, n)) \cap r.ready \subseteq Range(Take(t, n))
  BY <1>4, <1>6, FilterAdvances
<1>11. StashDrawn(r, order) \in Seq(Words)
  BY <1>7, <1>9 DEF Lists
<1> QED BY <1>1, <1>7, <1>8, <1>9, <1>10, <1>11

\* Three sequences in a row, either way round.
LEMMA Regrouped ==
  ASSUME NEW u \in Seq(Words), NEW v \in Seq(Words), NEW w \in Seq(Words)
  PROVE  (u \o v) \o w = u \o (v \o w)
OBVIOUS

\* Whose places come first: a word drawn leaves no ready top behind unless it
\* is one; and one that is planned without being preferred or a top leaves no
\* preferred word behind.
Leads(r, P, D, L, F) ==
  /\ L \cap r.ready \subseteq D \/ D \subseteq L \cap r.ready
  /\ F \subseteq P
  /\ \A w \in P : \/ w \in F
                  \/ w \in r.preferred
                  \/ Cardinality(r.stash \cap r.preferred) < Share(r)

\* The order of the stash gives the tops and the preferred their places.
LEMMA StashLeaders ==
  ASSUME NEW r, Asks(r), NEW order, Lists(order, Words),
         NEW P, P = Range(StashPlanned(r, order)),
         NEW D, D = Range(StashDrawn(r, order)),
         NEW L, L = Range(r.tops) \cap r.stash,
         NEW F, F = Range(Take(Among(r.tops, r.stash), Share(r)))
  PROVE  Leads(r, P, D, L, F)
<1>1. PICK n \in Nat : n = Share(r)
  BY ShareBounds
<1>2. PICK u : u = Among(r.tops, r.stash)
  OBVIOUS
<1>3. PICK V \in SUBSET Words : V = r.stash \ Range(r.tops)
  BY DEF Asks
<1>4. PICK v : v = PreferredFirst(order, V, r.preferred)
  OBVIOUS
<1>5. Lists(u, L) /\ Lists(v, V)
  BY <1>2, <1>3, <1>4, StashLists
<1>6. StashOrder(r, order) = u \o v
  BY <1>2, <1>3, <1>4 DEF StashOrder
<1>7. u \in Seq(Words) /\ v \in Seq(Words)
  BY <1>5 DEF Lists
<1>8. P = Range(Take(u \o v, n)) /\ F = Range(Take(u, n))
      /\ D = Range(Take(Among(u \o v, r.ready), n))
  BY <1>1, <1>2, <1>6 DEF StashPlanned, StashDrawn
<1>9. F \subseteq P
  BY <1>5, <1>7, <1>8, TakeLeads
<1>10. L \cap r.ready \subseteq D \/ D \subseteq L \cap r.ready
  <2>1. PICK a : a = Among(u, r.ready)
    OBVIOUS
  <2>2. PICK b \in Seq(Words) : b = Among(v, r.ready)
    BY <1>7, AmongType
  <2>3. Lists(a, L \cap r.ready)
    BY <1>5, <2>1, AmongLists
  <2>4. Among(u \o v, r.ready) = a \o b
    <3>1. Among(u \o v, r.ready) = Among(u, r.ready) \o Among(v, r.ready)
      BY <1>7, AmongConcat
    <3> QED BY <3>1, <2>1, <2>2
  <2>5. /\ Range(Take(a, n)) \subseteq D
        /\ \A w \in D : w \in Range(Take(a, n))
                        \/ Cardinality(L \cap r.ready) < n
    BY <2>2, <2>3, <2>4, <1>8, TakeLeads
  <2>6. /\ Range(Take(a, n)) \in SUBSET (L \cap r.ready)
        /\ Cardinality(Range(Take(a, n))) =
             Least(n, Cardinality(L \cap r.ready))
    BY <2>3, TakeLists
  <2>7. CASE Cardinality(L \cap r.ready) < n
    <3>1. IsFiniteSet(L \cap r.ready) /\ Cardinality(L \cap r.ready) \in Nat
      BY <2>3, ListCount
    <3>2. Cardinality(Range(Take(a, n))) = Cardinality(L \cap r.ready)
      BY <3>1, <2>6, <2>7 DEF Least
    <3>3. Range(Take(a, n)) = L \cap r.ready
      BY <2>6, <3>1, <3>2, FS_Subset
    <3> QED BY <3>3, <2>5
  <2>8. CASE ~(Cardinality(L \cap r.ready) < n)
    BY <2>5, <2>6, <2>8
  <2> QED BY <2>7, <2>8
<1>11. ASSUME NEW w \in P, w \notin F, w \notin r.preferred
       PROVE  Cardinality(r.stash \cap r.preferred) < n
  <2>1. PICK x : x = Among(order, V \cap r.preferred)
    OBVIOUS
  <2>2. PICK y : y = Among(order, V \ r.preferred)
    OBVIOUS
  <2>3. Lists(x, V \cap r.preferred) /\ Lists(y, V \ r.preferred)
    BY <2>1, <2>2, PreferredFirstLists
  <2>4. x \in Seq(Words) /\ y \in Seq(Words) /\ Range(x) = V \cap r.preferred
    BY <2>3 DEF Lists
  <2>5. v = x \o y
    BY <1>4, <2>1, <2>2 DEF PreferredFirst
  <2>6. u \o v = (u \o x) \o y
    <3>1. (u \o x) \o y = u \o (x \o y)
      BY <2>4, <1>7, Regrouped
    <3> QED BY <3>1, <2>5
  <2>7. PICK U : U = L \cup (V \cap r.preferred)
    OBVIOUS
  <2>8. Lists(u \o x, U)
    <3>1. L \cap (V \cap r.preferred) = {}
      BY <1>3
    <3> QED BY <3>1, <1>5, <2>3, <2>7, ConcatLists
  <2>9. w \in Range(Take(u \o x, n)) \/ Cardinality(U) < n
    BY <1>8, <1>11, <2>4, <2>6, <2>8, TakeLeads
  <2>10. w \in Range(Take(u \o x, n)) => w \in Range(Take(u, n)) \/ w \in Range(x)
    BY <1>5, <2>4, TakeLeads
  <2>11. Cardinality(U) < n
    BY <2>9, <2>10, <2>4, <1>8, <1>11
  <2>12. r.stash \cap r.preferred \in SUBSET U
    BY <1>3, <2>7
  <2>13. IsFiniteSet(U) /\ Cardinality(U) \in Nat
    BY <2>8, ListCount
  <2>14. /\ IsFiniteSet(r.stash \cap r.preferred)
         /\ Cardinality(r.stash \cap r.preferred) <= Cardinality(U)
    BY <2>12, <2>13, FS_Subset
  <2>15. Cardinality(r.stash \cap r.preferred) \in Nat
    BY <2>14, FS_CardinalityType
  <2> QED BY <2>11, <2>13, <2>14, <2>15
<1> QED BY <1>1, <1>9, <1>10, <1>11 DEF Leads

-----------------------------------------------------------------------------
(* How a quota is split between the two decks of a diet.                   *)

\* The quotient and the remainder, from the equation they solve.
LEMMA Quotient ==
  ASSUME NEW x \in Int, NEW y \in Nat, NEW q \in Int, NEW z \in 0..y - 1,
         x = q * y + z
  PROVE  x \div y = q /\ x % y = z
<1>1. y > 0
  OBVIOUS
<1> QED BY <1>1

\* Of n places, those of the harder deck with k quanta: a half is rounded down.
Later(n, k) == (2 * (n * k) + Quanta - 1) \div (2 * Quanta)

\* Its bounds, and how it grows with the places.
LEMMA LaterBounds ==
  ASSUME NEW n \in Nat, NEW k \in 0..Quanta - 1
  PROVE  Later(n, k) \in 0..n /\ (k = 0 => Later(n, k) = 0)
<1>1. PICK Q \in Nat : Q = Quanta /\ Q > 0
  BY AdmissionAssumption
<1>2. PICK N \in Nat : N = n * k
  BY <1>1
<1>3. N <= n * Q
  BY <1>1, <1>2
<1>4. PICK q \in Int : q = (2 * N + Q - 1) \div (2 * Q)
  BY <1>1
<1>5. q * (2 * Q) <= 2 * N + Q - 1 /\ 2 * N + Q - 1 < (q + 1) * (2 * Q)
  BY <1>1, <1>4
<1>6. q >= 0
  BY <1>1, <1>5
<1>7. q <= n
  <2>1. SUFFICES ASSUME q >= n + 1 PROVE FALSE
    OBVIOUS
  <2>2. q * (2 * Q) >= (n + 1) * (2 * Q)
    BY <2>1, <1>1
  <2>3. PICK M \in Int : M = n * Q
    BY <1>1
  <2>4. (n + 1) * (2 * Q) = 2 * M + 2 * Q
    BY <2>3, <1>1
  <2> QED BY <2>2, <2>3, <2>4, <1>1, <1>3, <1>5
<1>8. ASSUME k = 0 PROVE q = 0
  BY <1>1, <1>2, <1>5, <1>8
<1> QED BY <1>1, <1>2, <1>4, <1>6, <1>7, <1>8 DEF Later

LEMMA LaterGrows ==
  ASSUME NEW n \in Nat, NEW m \in Nat, n <= m, NEW k \in 0..Quanta - 1
  PROVE  Later(n, k) <= Later(m, k) /\ n - Later(n, k) <= m - Later(m, k)
<1>1. PICK Q \in Nat : Q = Quanta /\ Q > 0
  BY AdmissionAssumption
<1>2. PICK N \in Nat : N = n * k
  BY <1>1
<1>3. PICK j \in Nat : m = n + j
  BY <1>1
<1>4. PICK J \in Nat : J = j * k
  BY <1>1
<1>5. m * k = N + J
  BY <1>1, <1>2, <1>3, <1>4
<1>6. PICK H \in Nat : H = j * Q
  BY <1>1
<1>7. J <= H
  BY <1>1, <1>4, <1>6
<1>8. PICK q \in Int : q = Later(n, k)
  BY LaterBounds
<1>9. PICK p \in Int : p = Later(m, k)
  BY LaterBounds
<1>10. q = (2 * N + Q - 1) \div (2 * Q)
  BY <1>1, <1>2, <1>8 DEF Later
<1>11. p = (2 * (N + J) + Q - 1) \div (2 * Q)
  BY <1>1, <1>5, <1>9 DEF Later
<1>12. q * (2 * Q) <= 2 * N + Q - 1 /\ 2 * N + Q - 1 < (q + 1) * (2 * Q)
  BY <1>1, <1>10
<1>13. p * (2 * Q) <= 2 * (N + J) + Q - 1
       /\ 2 * (N + J) + Q - 1 < (p + 1) * (2 * Q)
  BY <1>1, <1>11
<1>14. q <= p
  <2>1. q * (2 * Q) < (p + 1) * (2 * Q)
    BY <1>1, <1>12, <1>13
  <2>2. q < p + 1
    BY <2>1, <1>1
  <2> QED BY <2>2
<1>15. p <= q + j
  <2>1. p * (2 * Q) < (q + 1) * (2 * Q) + 2 * H
    BY <1>1, <1>7, <1>12, <1>13
  <2>2. (q + 1) * (2 * Q) + 2 * H = (q + 1 + j) * (2 * Q)
    BY <1>1, <1>6
  <2>3. p < q + 1 + j
    BY <2>1, <2>2, <1>1
  <2> QED BY <2>3
<1> QED BY <1>3, <1>8, <1>9, <1>14, <1>15

\* The diet of weights has Quanta - k quanta in deck a and k in the next.
Split(weights, a, k) ==
  /\ a \in 1..Decks /\ k \in 0..Quanta - 1 /\ (k > 0 => a < Decks)
  /\ weights = [d \in 1..Decks |-> IF d = a THEN Quanta - k
                                   ELSE IF d = a + 1 THEN k ELSE 0]

\* The diet of every request is split so.
LEMMA DietSplits ==
  ASSUME NEW r, Asks(r)
  PROVE  \E a, k : Split(r.weights, a, k)
<1>1. Dieted(r.weights)
  BY DEF Asks
<1>2. PICK a \in 1..Decks, k \in 0..Quanta - 1 :
        /\ k > 0 => a < Decks
        /\ r.weights = [d \in 1..Decks |->
                          IF d = a THEN Quanta - k
                          ELSE IF d = a + 1 THEN k ELSE 0]
  BY <1>1, Zenon DEF Dieted
<1>3. Split(r.weights, a, k)
  BY <1>2, Zenon DEF Split
<1> QED BY <1>3

\* Its values: those of two decks, or of one.
LEMMA TwoDecks ==
  ASSUME NEW f, NEW a, NEW k, a \in 1..Decks, k > 0 => a < Decks,
         k \in 0..Quanta - 1, f[a] \in Int, k > 0 => f[a + 1] \in Int,
         \A d \in 1..Decks : d # a /\ (k > 0 => d # a + 1) => f[d] = 0
  PROVE  Sum(f, 1..Decks) = f[a] + IF k > 0 THEN f[a + 1] ELSE 0
<1>1. Decks \in Nat /\ IsFiniteSet(1..Decks)
  <2>1. 1 \in Int /\ Decks \in Int /\ Decks \in Nat
    BY AdmissionAssumption
  <2> QED BY <2>1, FS_Interval
<1>2. CASE k > 0
  <2>1. a + 1 \in 1..Decks /\ a # a + 1
    BY <1>1, <1>2
  <2>2. \A d \in 1..Decks : d \notin {a, a + 1} => f[d] = 0
    BY <1>2
  <2>3. f[a + 1] \in Int
    BY <1>2
  <2>4. Sum(f, 1..Decks) = f[a] + f[a + 1]
    BY <1>1, <2>1, <2>2, <2>3, SumOfTwo
  <2> QED BY <2>4, <1>2
<1>3. CASE ~(k > 0)
  <2>1. \A d \in 1..Decks : d # a => f[d] = 0
    BY <1>3
  <2>2. Sum(f, 1..Decks) = f[a]
    BY <1>1, <2>1, SumOfOne
  <2> QED BY <2>2, <1>3
<1> QED BY <1>2, <1>3

\* The demand of the decks is a part of the quota.
LEMMA DemandBounds ==
  ASSUME NEW r, Asks(r)
  PROVE  /\ DietDemand(r) \in 0..r.quota
         /\ Cardinality(r.stash) \in Nat /\ IsFiniteSet(r.stash)
         /\ Cardinality(r.diet) \in Nat /\ IsFiniteSet(r.diet)
<1>1. /\ Cardinality(r.stash) \in Nat /\ IsFiniteSet(r.stash)
      /\ Cardinality(r.diet) \in Nat /\ IsFiniteSet(r.diet)
  BY AdmissionAssumption, FS_Subset, FS_CardinalityType DEF Asks
<1>2. PICK c \in Nat : c = Cardinality(r.stash)
  BY <1>1
<1>3. DietDemand(r) \in 0..r.quota
  BY <1>2, ShareBounds DEF DietDemand, Least
<1> QED BY <1>1, <1>3

\* The target such a diet gives n places.
SplitTarget(a, k, n) ==
  [d \in 1..Decks |-> IF d = a THEN n - Later(n, k)
                      ELSE IF d = a + 1 THEN Later(n, k) ELSE 0]

\* The largest remainder between two decks is the harder one's only if it is
\* more than a half.
LEMMA TargetSplits ==
  ASSUME NEW r, Asks(r), NEW a, NEW k, Split(r.weights, a, k),
         NEW n, n = DietDemand(r)
  PROVE  Target(r) = SplitTarget(a, k, n)
<1>1. /\ Decks \in Nat /\ a \in 1..Decks /\ (k > 0 => a < Decks)
      /\ k \in 0..Quanta - 1 /\ a \in Nat /\ k \in Nat
  BY AdmissionAssumption DEF Split
<1>2. PICK w : w = r.weights
  OBVIOUS
<1>4. PICK Q \in Nat : Q = Quanta /\ Q > 0
  BY AdmissionAssumption
<1>3. /\ w \in [1..Decks -> Nat] /\ w[a] = Quanta - k
      /\ (k > 0 => a + 1 \in 1..Decks /\ w[a + 1] = k)
      /\ \A d \in 1..Decks : d # a /\ (k > 0 => d # a + 1) => w[d] = 0
  <2>1. w = [d \in 1..Decks |-> IF d = a THEN Quanta - k
                                ELSE IF d = a + 1 THEN k ELSE 0]
    BY <1>2 DEF Split
  <2>2. Quanta - k \in Nat
    BY <1>1, <1>4
  <2>3. k > 0 => a + 1 \in 1..Decks
    BY <1>1
  <2> QED BY <2>1, <2>2, <2>3, <1>1
<1>5. Sum(w, 1..Decks) = Q
  <2>1. w[a] \in Int /\ (k > 0 => w[a + 1] \in Int)
    BY <1>1, <1>3
  <2>2. Sum(w, 1..Decks) = w[a] + IF k > 0 THEN w[a + 1] ELSE 0
    BY <1>1, <1>3, <2>1, TwoDecks
  <2> QED BY <2>2, <1>1, <1>3, <1>4
<1>6. n \in Nat
  BY DemandBounds, ShareBounds
<1>7. PICK N \in Nat : N = n * k
  BY <1>1, <1>6
<1>8. PICK f \in Int : f = N \div Q
  BY <1>4
<1>9. PICK z \in 0..Q - 1 : z = N % Q
  BY <1>4
<1>10. N = f * Q + z
  BY <1>4, <1>8, <1>9
<1>11. PICK exact : exact = [x \in 1..Decks |-> n * w[x]]
  OBVIOUS
<1>12. PICK whole : whole = [x \in 1..Decks |-> exact[x] \div Q]
  OBVIOUS
<1>13. PICK t \in 0..n : t = Later(n, k) /\ (k = 0 => t = 0)
  BY <1>1, <1>6, LaterBounds
<1>14. /\ exact[a] = n * Q - N
       /\ (k > 0 => exact[a + 1] = N)
       /\ \A d \in 1..Decks : d # a /\ (k > 0 => d # a + 1) => exact[d] = 0
  <2>1. exact[a] = n * (Q - k)
    BY <1>1, <1>3, <1>4, <1>11
  <2>2. n * (Q - k) = n * Q - n * k
    BY <1>1, <1>4, <1>6
  <2>3. k > 0 => exact[a + 1] = n * k
    BY <1>1, <1>3, <1>11
  <2>4. ASSUME NEW d \in 1..Decks, d # a /\ (k > 0 => d # a + 1)
        PROVE  exact[d] = 0
    <3>1. w[d] = 0
      BY <2>4, <1>3
    <3> QED BY <3>1, <1>6, <1>11
  <2> QED BY <2>1, <2>2, <2>3, <2>4, <1>7
<1>15. PICK rest : rest = [x \in 1..Decks |-> exact[x] % Q]
  OBVIOUS
<1>16. \A d \in 1..Decks : d # a /\ (k > 0 => d # a + 1) =>
         whole[d] = 0 /\ rest[d] = 0
  BY <1>4, <1>12, <1>14, <1>15
<1>17. k > 0 => whole[a + 1] = f /\ rest[a + 1] = z
  BY <1>3, <1>8, <1>9, <1>12, <1>14, <1>15
<1>18. k = 0 => N = 0 /\ f = 0 /\ z = 0
  BY <1>4, <1>6, <1>7, <1>8, <1>9
<1>19. t = IF 2 * z > Q THEN f + 1 ELSE f
  <2>1. t = (2 * N + Q - 1) \div (2 * Q)
    BY <1>4, <1>7, <1>13 DEF Later
  <2>2. 2 * Q \in Nat /\ 2 * N + Q - 1 \in Int
    BY <1>4
  <2>3. CASE 2 * z > Q
    <3>1. 2 * N + Q - 1 = (f + 1) * (2 * Q) + (2 * z - Q - 1)
      BY <1>4, <1>10
    <3>2. 2 * z - Q - 1 \in 0..(2 * Q) - 1 /\ f + 1 \in Int
      BY <2>3, <1>4
    <3> QED BY <2>1, <2>2, <2>3, <3>1, <3>2, Quotient
  <2>4. CASE ~(2 * z > Q)
    <3>1. 2 * N + Q - 1 = f * (2 * Q) + (2 * z + Q - 1)
      BY <1>4, <1>10
    <3>2. 2 * z + Q - 1 \in 0..(2 * Q) - 1 /\ f \in Int
      BY <2>4, <1>4
    <3> QED BY <2>1, <2>2, <2>4, <3>1, <3>2, Quotient
  <2> QED BY <2>3, <2>4
<1>20. whole[a] = (IF z = 0 THEN n - f ELSE n - f - 1)
       /\ rest[a] = (IF z = 0 THEN 0 ELSE Q - z)
  <2>1. PICK E \in Int : E = exact[a] /\ E = n * Q - N
    BY <1>4, <1>6, <1>14
  <2>2. whole[a] = E \div Q /\ rest[a] = E % Q
    BY <2>1, <1>1, <1>12, <1>15
  <2>3. CASE z = 0
    <3>1. E = (n - f) * Q + 0 /\ n - f \in Int /\ 0 \in 0..Q - 1
      BY <2>1, <2>3, <1>4, <1>6, <1>10
    <3> QED BY <2>2, <2>3, <3>1, <1>4, Quotient
  <2>4. CASE z # 0
    <3>1. E = (n - f - 1) * Q + (Q - z) /\ n - f - 1 \in Int
          /\ Q - z \in 0..Q - 1
      BY <2>1, <2>4, <1>4, <1>6, <1>10
    <3>2. E \div Q = n - f - 1 /\ E % Q = Q - z
      BY <3>1, <1>4, Quotient
    <3> QED BY <3>2, <2>2, <2>4, <3>1, <1>4, Quotient
  <2> QED BY <2>3, <2>4
<1>21. Sum(whole, 1..Decks) = IF z = 0 THEN n ELSE n - 1
  <2>1. whole[a] \in Int /\ (k > 0 => whole[a + 1] \in Int)
    BY <1>6, <1>17, <1>20
  <2>2. Sum(whole, 1..Decks) = whole[a] + IF k > 0 THEN whole[a + 1] ELSE 0
    BY <1>1, <1>16, <2>1, TwoDecks
  <2> QED BY <2>2, <1>1, <1>6, <1>17, <1>18, <1>20
<1>22. PICK spare \in 0..1 : /\ spare = n - Sum(whole, 1..Decks)
                             /\ spare = IF z = 0 THEN 0 ELSE 1
  BY <1>6, <1>21
<1> DEFINE Ahead(y, x) == \/ rest[y] > rest[x]
                          \/ rest[y] = rest[x] /\ y < x
           Behind(x) == {y \in 1..Decks : Ahead(y, x)}
<1>23. PICK target : target = Target(r)
  OBVIOUS
<1>24. target = [x \in 1..Decks |->
                   whole[x] + IF Cardinality(Behind(x)) < spare THEN 1 ELSE 0]
  <2>1. target = Shares(n, w, Q, 1..Decks, [d \in 1..Decks |-> d])
    BY <1>2, <1>5, <1>23 DEF Target
  <2>2. Shares(n, w, Q, 1..Decks, [d \in 1..Decks |-> d]) =
          [x \in 1..Decks |->
             whole[x] + IF Cardinality(
                {y \in 1..Decks :
                   \/ exact[y] % Q > exact[x] % Q
                   \/ exact[y] % Q = exact[x] % Q
                      /\ [d \in 1..Decks |-> d][y] < [d \in 1..Decks |-> d][x]})
                  < n - Sum(whole, 1..Decks) THEN 1 ELSE 0]
    BY <1>11, <1>12 DEF Shares
  <2>3. ASSUME NEW x \in 1..Decks
        PROVE  {y \in 1..Decks :
                   \/ exact[y] % Q > exact[x] % Q
                   \/ exact[y] % Q = exact[x] % Q
                      /\ [d \in 1..Decks |-> d][y] < [d \in 1..Decks |-> d][x]}
                = Behind(x)
    BY <1>15
  <2> QED BY <2>1, <2>2, <2>3, <1>22
<1>25. ASSUME NEW x \in 1..Decks
       PROVE  Cardinality(Behind(x)) < spare <=> (z # 0 /\ Behind(x) = {})
  <2>1. IsFiniteSet(1..Decks)
    <3>1. 1 \in Int /\ Decks \in Int
      BY <1>1
    <3> QED BY <3>1, FS_Interval
  <2>2. Behind(x) \in SUBSET (1..Decks)
    OBVIOUS
  <2> HIDE DEF Behind
  <2>3. IsFiniteSet(Behind(x))
    BY <2>1, <2>2, FS_Subset
  <2>4. Cardinality(Behind(x)) \in Nat
        /\ (Cardinality(Behind(x)) = 0 <=> Behind(x) = {})
    BY <2>3, FS_CardinalityType, FS_EmptySet
  <2> QED BY <2>4, <1>22
<1>26. ASSUME NEW x \in 1..Decks
       PROVE  target[x] = whole[x] + IF z # 0 /\ Behind(x) = {} THEN 1 ELSE 0
  <2> HIDE DEF Behind
  <2>1. target[x] = whole[x] + IF Cardinality(Behind(x)) < spare THEN 1 ELSE 0
    BY <1>24
  <2> QED BY <2>1, <1>25
<1>27. ASSUME NEW d \in 1..Decks
       PROVE  target[d] = IF d = a THEN n - t ELSE IF d = a + 1 THEN t ELSE 0
  <2>1. CASE d = a
    <3>1. CASE z = 0
      BY <2>1, <3>1, <1>4, <1>6, <1>19, <1>20, <1>26
    <3>2. CASE z # 0
      <4>1. k > 0 /\ a + 1 \in 1..Decks
        BY <3>2, <1>1, <1>18
      <4>2. Behind(a) = {} <=> ~(2 * z > Q)
        <5>1. a + 1 \in Behind(a) <=> 2 * z > Q
          BY <4>1, <3>2, <1>1, <1>4, <1>17, <1>20
        <5>2. ASSUME NEW y \in Behind(a), y # a + 1 PROVE FALSE
          <6>1. CASE y = a
            BY <6>1, <5>2, <1>1, <1>4, <1>20
          <6>2. CASE y # a
            BY <6>2, <5>2, <3>2, <1>4, <1>16, <1>20
          <6> QED BY <6>1, <6>2
        <5> HIDE DEF Behind
        <5> QED BY <5>1, <5>2
      <4>3. target[a] = whole[a] + IF Behind(a) = {} THEN 1 ELSE 0
        BY <3>2, <1>1, <1>26
      <4> HIDE DEF Behind
      <4> QED BY <4>2, <4>3, <2>1, <3>2, <1>4, <1>6, <1>19, <1>20
    <3> QED BY <3>1, <3>2
  <2>2. CASE d # a /\ d = a + 1 /\ k > 0
    <3>1. CASE z = 0
      BY <2>2, <3>1, <1>1, <1>4, <1>17, <1>19, <1>26
    <3>2. CASE z # 0
      <4>2. Behind(d) = {} <=> 2 * z > Q
        <5>1. a \in Behind(d) <=> ~(2 * z > Q)
          BY <2>2, <3>2, <1>1, <1>4, <1>17, <1>20
        <5>2. ASSUME NEW y \in Behind(d), y # a PROVE FALSE
          <6>1. CASE y = d
            BY <6>1, <5>2, <2>2, <1>1, <1>4, <1>17
          <6>2. CASE y # d
            BY <6>2, <5>2, <2>2, <3>2, <1>4, <1>16, <1>17
          <6> QED BY <6>1, <6>2
        <5> HIDE DEF Behind
        <5> QED BY <5>1, <5>2
      <4>3. target[d] = whole[d] + IF Behind(d) = {} THEN 1 ELSE 0
        BY <3>2, <1>26
      <4> HIDE DEF Behind
      <4> QED BY <4>2, <4>3, <2>2, <1>1, <1>4, <1>17, <1>19
    <3> QED BY <3>1, <3>2
  <2>3. CASE d # a /\ (k > 0 => d # a + 1)
    <3>1. whole[d] = 0 /\ rest[d] = 0
      BY <2>3, <1>16
    <3>2. z # 0 => a \in Behind(d)
      BY <3>1, <1>1, <1>4, <1>20
    <3>3. target[d] = 0
      <4> HIDE DEF Behind
      <4> QED BY <3>1, <3>2, <1>26
    <3>4. d = a + 1 => t = 0
      BY <2>3, <1>1, <1>13
    <3> QED BY <2>3, <3>3, <3>4
  <2> QED BY <2>1, <2>2, <2>3
<1>28. DOMAIN target = 1..Decks /\ target = [x \in 1..Decks |-> target[x]]
  BY <1>24
<1> HIDE DEF Behind
<1>29. target = [d \in 1..Decks |->
                   IF d = a THEN n - t ELSE IF d = a + 1 THEN t ELSE 0]
  BY <1>27, <1>28
<1> QED BY <1>13, <1>23, <1>29 DEF SplitTarget

-----------------------------------------------------------------------------
(* How the decks are given their places.                                   *)

\* The words of a deck are words of the diet.
LEMMA PoolBounds ==
  ASSUME NEW r, Asks(r), NEW d
  PROVE  /\ Pool(r, d) \in SUBSET r.diet /\ Pool(r, d) \in SUBSET Words
         /\ IsFiniteSet(Pool(r, d)) /\ Cardinality(Pool(r, d)) \in Nat
<1>1. Pool(r, d) \in SUBSET r.diet /\ r.diet \in SUBSET Words
  BY DEF Pool, Asks
<1> QED BY <1>1, DemandBounds, FS_Subset, FS_CardinalityType

\* What deck d may take when x of n places are left: up to its target while
\* decks are targeted, all that is left after the last of them.
Wanted(d, x, a, k, n) ==
  IF d < a THEN 0
  ELSE IF d = a THEN n - Later(n, k)
  ELSE IF d = a + 1 /\ Later(n, k) > 0 THEN Later(n, k) ELSE x

\* g spreads n places over the decks in turn.
Spreads(g, r, a, k, n) ==
  /\ g \in [0..Decks -> 0..n] /\ g[0] = 0
  /\ \A d \in 1..Decks :
       g[d] = g[d - 1] + Least(Wanted(d, n - g[d - 1], a, k, n),
                               Cardinality(Pool(r, d)))

\* The last targeted deck is the harder one if it gets a place.
LEMMA LastTargeted ==
  ASSUME NEW r, Asks(r), NEW a, NEW k, Split(r.weights, a, k),
         NEW n, n = DietDemand(r), n > 0
  PROVE  Max({0} \cup {d \in 1..Decks : Target(r)[d] > 0}) =
           IF Later(n, k) > 0 THEN a + 1 ELSE a
<1>1. /\ Decks \in Nat /\ a \in 1..Decks /\ (k > 0 => a < Decks)
      /\ k \in 0..Quanta - 1 /\ a \in Nat /\ k \in Nat
  BY AdmissionAssumption DEF Split
<1>2. n \in Nat
  BY DemandBounds, ShareBounds
<1>3. PICK t \in 0..n : t = Later(n, k) /\ (k = 0 => t = 0)
  BY <1>1, <1>2, LaterBounds
<1>4. PICK T : T = Target(r) /\ T = [d \in 1..Decks |->
                 IF d = a THEN n - t ELSE IF d = a + 1 THEN t ELSE 0]
  <2>1. Target(r) = SplitTarget(a, k, n)
    BY TargetSplits
  <2> QED BY <2>1, <1>3 DEF SplitTarget
<1>5. PICK M : M = {0} \cup {d \in 1..Decks : T[d] > 0}
  OBVIOUS
<1>6. PICK m : m = IF t > 0 THEN a + 1 ELSE a
  OBVIOUS
<1>7. m \in M /\ m \in Nat
  <2>1. CASE t > 0
    <3>1. a + 1 \in 1..Decks /\ T[a + 1] = t
      BY <2>1, <1>1, <1>3, <1>4
    <3> QED BY <3>1, <2>1, <1>1, <1>5, <1>6
  <2>2. CASE t = 0
    <3>1. T[a] = n
      BY <2>2, <1>1, <1>2, <1>4
    <3> QED BY <3>1, <2>2, <1>1, <1>5, <1>6
  <2> QED BY <2>1, <2>2, <1>3
<1>8. \A y \in M : y \in Nat /\ m >= y
  <2> SUFFICES ASSUME NEW y \in M PROVE y \in Nat /\ m >= y
    OBVIOUS
  <2>1. CASE y = 0
    BY <2>1, <1>7
  <2>2. CASE y \in 1..Decks /\ T[y] > 0
    BY <2>2, <1>1, <1>2, <1>3, <1>4, <1>6
  <2> QED BY <2>1, <2>2, <1>5
<1>9. PICK x : x = Max(M)
  OBVIOUS
<1>10. x \in M /\ \A y \in M : x >= y
  BY <1>7, <1>8, <1>9 DEF Max
<1>11. x = m
  BY <1>7, <1>8, <1>10
<1> QED BY <1>3, <1>4, <1>5, <1>6, <1>9, <1>11

\* The places the decks are given are spread so.
LEMMA GivenSpreads ==
  ASSUME NEW r, Asks(r), NEW a, NEW k, Split(r.weights, a, k),
         NEW n, n = DietDemand(r), n > 0
  PROVE  Spreads(Given(r, Target(r)), r, a, k, n)
<1>1. /\ Decks \in Nat /\ a \in 1..Decks /\ (k > 0 => a < Decks)
      /\ k \in 0..Quanta - 1 /\ a \in Nat /\ k \in Nat
  BY AdmissionAssumption DEF Split
<1>2. n \in Nat
  BY DemandBounds, ShareBounds
<1>3. PICK t \in 0..n : t = Later(n, k) /\ (k = 0 => t = 0)
  BY <1>1, <1>2, LaterBounds
<1>4. PICK T : T = Target(r) /\ T = [d \in 1..Decks |->
                 IF d = a THEN n - t ELSE IF d = a + 1 THEN t ELSE 0]
  <2>1. Target(r) = SplitTarget(a, k, n)
    BY TargetSplits
  <2> QED BY <2>1, <1>3 DEF SplitTarget
<1>5. PICK last : last = Max({0} \cup {d \in 1..Decks : T[d] > 0})
                  /\ last = IF t > 0 THEN a + 1 ELSE a
  BY <1>3, <1>4, LastTargeted
<1>6. PICK c \in [1..Decks -> Nat] :
         c = [d \in 1..Decks |-> Cardinality(Pool(r, d))]
  BY PoolBounds
<1> DEFINE step(d, x) == x + Least(IF d <= last THEN T[d] ELSE n - x, c[d])
           G == [d \in 1..Decks |-> [x \in Int |-> step(d, x)]]
           Table(h) == [d \in 0..Decks |->
              IF d = 0 THEN 0
              ELSE LET before == h[d - 1]
                       wanted == IF d <= last THEN T[d] ELSE n - before
                   IN  before + Least(wanted, Cardinality(Pool(r, d)))]
<1>7. \A d \in 1..Decks : T[d] \in Int
  BY <1>1, <1>2, <1>3, <1>4
<1>8. \A d \in 1..Decks, x \in Int : step(d, x) \in Int
  BY <1>2, <1>6, <1>7 DEF Least
<1>x. PICK X : X = Int
  OBVIOUS
<1>y. G \in [1..Decks -> [Int -> Int]]
  BY <1>8
<1> HIDE DEF G
<1>9. G \in [1..Decks -> [X -> X]] /\ 0 \in X
  BY <1>x, <1>y
<1> USE DEF G
<1>10. \A d \in 1..Decks, x \in Int : G[d][x] = step(d, x)
  OBVIOUS
<1> HIDE DEF G
<1>11. PICK g : Makes(g, 0, Decks, G, X)
  BY <1>1, <1>9, Recursion
<1>12. /\ g \in [0..Decks -> Int] /\ g[0] = 0
       /\ \A d \in 1..Decks : g[d] = G[d][g[d - 1]]
  BY <1>11, <1>x DEF Makes
<1>13. \A d \in 1..Decks : d - 1 \in 0..Decks /\ g[d - 1] \in Int
                           /\ d # 0 /\ d \in 0..Decks
  BY <1>1, <1>12
<1>14. \A d \in 1..Decks :
         g[d] = g[d - 1] + Least(IF d <= last THEN T[d] ELSE n - g[d - 1],
                                 Cardinality(Pool(r, d)))
  BY <1>6, <1>10, <1>12, <1>13
<1>15. g = Table(g)
  <2>1. ASSUME NEW d \in 0..Decks PROVE g[d] = Table(g)[d]
    <3>1. CASE d = 0
      BY <3>1, <1>12
    <3>2. CASE d # 0
      <4>1. d \in 1..Decks
        BY <3>2, <1>1
      <4> QED BY <4>1, <3>2, <1>14
    <3> QED BY <3>1, <3>2
  <2> QED BY <2>1, <1>12
<1>16. PICK h : h = CHOOSE x : x = Table(x)
  OBVIOUS
<1>17. h = Table(h)
  BY <1>15, <1>16, Zenon
<1>18. Given(r, T) = h
  <2>1. Given(r, T) = CHOOSE x : x = [d \in 0..Decks |->
              IF d = 0 THEN 0
              ELSE LET before == x[d - 1]
                       wanted == IF d <= last THEN T[d] ELSE DietDemand(r) - before
                   IN  before + Least(wanted, Cardinality(Pool(r, d)))]
    BY <1>5, Zenon DEF Given
  <2> QED BY <2>1, <1>16, Zenon
<1>19. \A d \in 0..Decks : h[d] = g[d]
  <2> DEFINE E == {d \in Nat : h[d] = g[d]}
  <2>1. 0 \in E
    BY <1>1, <1>12, <1>17
  <2>2. ASSUME NEW m \in 0..Decks - 1, m \in E PROVE m + 1 \in E
    <3>1. m + 1 \in 1..Decks /\ (m + 1) - 1 = m /\ m + 1 \in Nat
          /\ m + 1 \in 0..Decks /\ m + 1 # 0
      BY <1>1
    <3>2. h[m + 1] = h[m] + Least(IF m + 1 <= last THEN T[m + 1] ELSE n - h[m],
                                  Cardinality(Pool(r, m + 1)))
      BY <1>17, <3>1
    <3>3. g[m + 1] = g[m] + Least(IF m + 1 <= last THEN T[m + 1] ELSE n - g[m],
                                  Cardinality(Pool(r, m + 1)))
      BY <1>14, <3>1
    <3> QED BY <2>2, <3>1, <3>2, <3>3
  <2> HIDE DEF E
  <2>3. \A d \in 0..Decks : d \in E
    BY <2>1, <2>2, <1>1, InductionUpTo
  <2> QED BY <2>3 DEF E
<1>20. h = g
  <2>1. DOMAIN h = 0..Decks /\ DOMAIN g = 0..Decks
        /\ h = [d \in 0..Decks |-> h[d]] /\ g = [d \in 0..Decks |-> g[d]]
    BY <1>12, <1>17
  <2> QED BY <2>1, <1>19
<1>21. \A d \in 1..Decks :
         (IF d <= last THEN T[d] ELSE n - g[d - 1]) =
         Wanted(d, n - g[d - 1], a, k, n)
  <2> SUFFICES ASSUME NEW d \in 1..Decks
               PROVE  (IF d <= last THEN T[d] ELSE n - g[d - 1]) =
                      Wanted(d, n - g[d - 1], a, k, n)
    OBVIOUS
  <2>1. T[d] = IF d = a THEN n - t ELSE IF d = a + 1 THEN t ELSE 0
    BY <1>4
  <2> QED BY <2>1, <1>1, <1>3, <1>5 DEF Wanted
<1>22. \A d \in 1..Decks :
         g[d] = g[d - 1] + Least(Wanted(d, n - g[d - 1], a, k, n),
                                 Cardinality(Pool(r, d)))
  BY <1>14, <1>21
<1>23. \A d \in 0..Decks : g[d] \in 0..n
  <2> DEFINE E == {d \in Nat : /\ g[d] \in 0..n /\ (d < a => g[d] = 0)
                               /\ (d = a => g[d] <= n - t)}
  <2>1. 0 \in E
    BY <1>1, <1>2, <1>12
  <2>2. ASSUME NEW m \in 0..Decks - 1, m \in E PROVE m + 1 \in E
    <3>1. m + 1 \in 1..Decks /\ (m + 1) - 1 = m /\ m + 1 \in Nat
      BY <1>1
    <3>2. PICK p \in Nat : p = Cardinality(Pool(r, m + 1))
      BY PoolBounds
    <3>3. PICK x \in 0..n : /\ x = g[m] /\ (m < a => x = 0)
                            /\ (m = a => x <= n - t)
      BY <2>2
    <3>4. g[m + 1] = x + Least(Wanted(m + 1, n - x, a, k, n), p)
      BY <1>22, <3>1, <3>2, <3>3
    <3>5. CASE m + 1 < a
      <4>1. Wanted(m + 1, n - x, a, k, n) = 0
        BY <3>5 DEF Wanted
      <4>3. Least(0, p) = 0
        BY <3>2 DEF Least
      <4>4. x = 0
        BY <3>3, <3>5, <1>1
      <4>2. g[m + 1] = 0
        BY <4>1, <4>3, <4>4, <3>4
      <4> QED BY <4>2, <3>1, <3>5, <1>1, <1>2
    <3>6. CASE m + 1 = a
      <4>1. Wanted(m + 1, n - x, a, k, n) = n - t /\ x = 0
        BY <3>3, <3>6, <1>1, <1>3 DEF Wanted
      <4>3. Least(n - t, p) \in 0..n - t
        BY <3>2, <1>2, <1>3 DEF Least
      <4>2. g[m + 1] \in 0..n - t
        BY <4>1, <4>3, <3>4
      <4>4. g[m + 1] \in 0..n
        BY <4>2, <1>2, <1>3
      <4>5. ~(m + 1 < a)
        BY <3>1, <3>6, <1>1
      <4> QED BY <4>2, <4>4, <4>5, <3>1, <1>2, <1>3
    <3>7. CASE m + 1 > a
      <4>1. PICK y \in 0..n - x : y = Wanted(m + 1, n - x, a, k, n)
        <5>1. m + 1 = a + 1 => m = a
          BY <3>1, <1>1
        <5>2. n - x \in 0..n - x /\ (m = a => t \in 0..n - x)
          BY <3>3, <1>2
        <5>3. Wanted(m + 1, n - x, a, k, n) =
                IF m + 1 = a + 1 /\ t > 0 THEN t ELSE n - x
          BY <3>1, <3>7, <1>1, <1>3 DEF Wanted
        <5> QED BY <5>1, <5>2, <5>3
      <4>3. Least(y, p) \in 0..y
        BY <4>1, <3>2, <3>3, <1>2 DEF Least
      <4>2. g[m + 1] \in 0..n
        BY <4>1, <4>3, <3>3, <3>4, <1>2
      <4> QED BY <4>2, <3>1, <3>7, <1>1, <1>2
    <3> QED BY <3>5, <3>6, <3>7, <1>1
  <2> HIDE DEF E
  <2>3. \A d \in 0..Decks : d \in E
    BY <2>1, <2>2, <1>1, InductionUpTo
  <2> QED BY <2>3 DEF E
<1>24. g \in [0..Decks -> 0..n]
  BY <1>12, <1>23
<1>25. Spreads(g, r, a, k, n)
  BY <1>12, <1>22, <1>24 DEF Spreads
<1> QED BY <1>4, <1>18, <1>20, <1>25

-----------------------------------------------------------------------------
(* The words of several decks.                                             *)

\* Decks drawn one after another are all the words they drew.
LEMMA Flattened ==
  ASSUME NEW N \in Nat, N > 0, NEW s \in [1..N -> Seq(Words)]
  PROVE  /\ FlattenSeq(s) \in Seq(Words)
         /\ Range(FlattenSeq(s)) = UNION {Range(s[i]) : i \in 1..N}
<1>1. Len(s) = N
  <2>1. s \in Seq(Seq(Words))
    BY SeqDef
  <2>2. DOMAIN s = 1..Len(s) /\ Len(s) \in Nat /\ DOMAIN s = 1..N
    BY <2>1, LenProperties
  <2> QED BY <2>2
<1> DEFINE Y == Seq(Words)
           G == [i \in 1..N |-> [x \in Y |-> x \o s[i]]]
           Table(h) == [i \in 1..N |-> IF i = 1 THEN s[i] ELSE h[i - 1] \o s[i]]
<1>2. \A i \in 1..N, x \in Y : x \o s[i] \in Y
  BY ConcatProperties
<1>3. G \in [1..N -> [Y -> Y]] /\ <<>> \in Y
  BY <1>2, EmptySeq
<1>4. \A i \in 1..N, x \in Y : G[i][x] = x \o s[i]
  OBVIOUS
<1> HIDE DEF G, Y
<1>5. PICK f : Makes(f, <<>>, N, G, Y)
  BY <1>3, Recursion
<1>6. /\ f \in [0..N -> Y] /\ f[0] = <<>>
      /\ \A i \in 1..N : f[i] = G[i][f[i - 1]]
  BY <1>5 DEF Makes
<1>x. \A i \in 1..N : i - 1 \in 0..N /\ f[i - 1] \in Y
  BY <1>6
<1>7. \A i \in 1..N : i - 1 \in 0..N /\ f[i] = f[i - 1] \o s[i]
  BY <1>4, <1>6, <1>x
<1>8. f[1] = s[1]
  <2>1. 1 \in 1..N /\ 1 - 1 = 0
    OBVIOUS
  <2>2. f[1] = <<>> \o s[1] /\ s[1] \in Seq(Words)
    BY <2>1, <1>6, <1>7
  <2> QED BY <2>2, ConcatEmptySeq
<1>9. PICK g : g = [i \in 1..N |-> f[i]]
  OBVIOUS
<1>10. g = Table(g)
  <2>1. ASSUME NEW i \in 1..N PROVE g[i] = Table(g)[i]
    <3>1. CASE i = 1
      BY <3>1, <1>8, <1>9
    <3>2. CASE i # 1
      <4>1. i - 1 \in 1..N
        BY <3>2
      <4> QED BY <4>1, <3>2, <1>7, <1>9
    <3> QED BY <3>1, <3>2
  <2> QED BY <2>1, <1>9
<1>11. PICK h : h = CHOOSE x : x = Table(x)
  OBVIOUS
<1>12. h = Table(h)
  BY <1>10, <1>11, Zenon
<1>13. FlattenSeq(s) = h[N]
  <2>1. FlattenSeq(s) = (CHOOSE x : x = [i \in 1..Len(s) |->
                           IF i = 1 THEN s[i] ELSE x[i - 1] \o s[i]])[Len(s)]
    <3>1. Len(s) # 0
      BY <1>1
    <3> QED BY <3>1, Zenon DEF FlattenSeq
  <2> QED BY <2>1, <1>1, <1>11, Zenon
<1>14. \A i \in 0..N : i > 0 => h[i] = f[i]
  <2> DEFINE E == {i \in Nat : i > 0 => h[i] = f[i]}
  <2>1. 0 \in E
    OBVIOUS
  <2>2. ASSUME NEW n \in 0..N - 1, n \in E PROVE n + 1 \in E
    <3>1. n + 1 \in 1..N /\ (n + 1) - 1 = n /\ n + 1 \in Nat
      OBVIOUS
    <3>2. CASE n = 0
      BY <3>1, <3>2, <1>8, <1>12
    <3>3. CASE n # 0
      <4>0. n + 1 # 1 /\ n > 0
        BY <3>3
      <4>1. h[n + 1] = h[n] \o s[n + 1]
        BY <4>0, <3>1, <1>12
      <4>2. f[n + 1] = f[n] \o s[n + 1]
        BY <3>1, <1>7
      <4>3. h[n] = f[n]
        BY <4>0, <2>2
      <4> QED BY <4>1, <4>2, <4>3, <3>1
    <3> QED BY <3>2, <3>3
  <2> HIDE DEF E
  <2>3. \A i \in 0..N : i \in E
    BY <2>1, <2>2, InductionUpTo
  <2> QED BY <2>3 DEF E
<1>15. FlattenSeq(s) = f[N] /\ f[N] \in Y
  BY <1>6, <1>13, <1>14
<1> DEFINE U(i) == UNION {Range(s[j]) : j \in 1..i}
<1>16. \A i \in 0..N : Range(f[i]) = U(i)
  <2> DEFINE E == {i \in Nat : Range(f[i]) = U(i)}
  <2>1. 0 \in E
    <3>1. Range(<<>>) = {}
      BY DEF Range
    <3>2. U(0) = {}
      OBVIOUS
    <3> HIDE DEF U
    <3> QED BY <3>1, <3>2, <1>6
  <2>2. ASSUME NEW n \in 0..N - 1, n \in E PROVE n + 1 \in E
    <3>1. n + 1 \in 1..N /\ (n + 1) - 1 = n /\ n + 1 \in Nat /\ n \in 0..N
      OBVIOUS
    <3>2. f[n + 1] = f[n] \o s[n + 1]
      BY <3>1, <1>7
    <3>3. f[n] \in Seq(Words) /\ s[n + 1] \in Seq(Words)
      BY <3>1, <1>6 DEF Y
    <3>4. Range(f[n + 1]) = Range(f[n]) \cup Range(s[n + 1])
      BY <3>2, <3>3, RangeConcatenation
    <3>5. 1..n + 1 = (1..n) \cup {n + 1}
      BY <3>1
    <3>6. U(n + 1) = U(n) \cup Range(s[n + 1])
      BY <3>5
    <3> HIDE DEF U
    <3>7. Range(f[n]) = U(n)
      BY <2>2
    <3> QED BY <3>1, <3>4, <3>6, <3>7
  <2> HIDE DEF E
  <2>3. \A i \in 0..N : i \in E
    BY <2>1, <2>2, InductionUpTo
  <2> QED BY <2>3 DEF E
<1> QED BY <1>15, <1>16 DEF Y

Together(F, N) == UNION {F[d] : d \in 1..N}

\* A union is no larger than its parts allow, and as large if they are apart.
LEMMA UnionCounts ==
  ASSUME NEW N \in Nat, NEW F, NEW p \in [0..N -> Nat], p[0] = 0,
         \A d \in 1..N : F[d] \in SUBSET Words
  PROVE  /\ (\A d \in 1..N : Cardinality(F[d]) <= p[d] - p[d - 1])
              => Cardinality(Together(F, N)) <= p[N]
         /\ (\A d \in 1..N : Cardinality(F[d]) = p[d] - p[d - 1])
              /\ (\A d \in 1..N : \A e \in 1..N : d # e => F[d] \cap F[e] = {})
              => Cardinality(Together(F, N)) = p[N]
<1> DEFINE U(i) == UNION {F[d] : d \in 1..i}
           Small == \A d \in 1..N : Cardinality(F[d]) <= p[d] - p[d - 1]
           Exact == \A d \in 1..N : Cardinality(F[d]) = p[d] - p[d - 1]
           Separate == \A d \in 1..N : \A e \in 1..N : d # e => F[d] \cap F[e] = {}
           E == {i \in Nat : /\ Small => Cardinality(U(i)) <= p[i]
                             /\ Exact /\ Separate => Cardinality(U(i)) = p[i]}
<1>0. \A T \in SUBSET Words : IsFiniteSet(T) /\ Cardinality(T) \in Nat
  BY AdmissionAssumption, FS_Subset, FS_CardinalityType
<1>1. 0 \in E
  <2>1. U(0) = {}
    OBVIOUS
  <2>2. Cardinality(U(0)) = 0
    BY <2>1, FS_EmptySet
  <2> HIDE DEF U
  <2> QED BY <2>2
<1>2. ASSUME NEW n \in 0..N - 1, n \in E PROVE n + 1 \in E
  <2>1. n + 1 \in 1..N /\ (n + 1) - 1 = n /\ n + 1 \in Nat /\ n \in 0..N
        /\ n + 1 \in 0..N
    OBVIOUS
  <2>2. 1..n + 1 = (1..n) \cup {n + 1}
    BY <2>1
  <2>3. U(n + 1) = U(n) \cup F[n + 1]
    BY <2>2
  <2>4. U(n) \in SUBSET Words /\ F[n + 1] \in SUBSET Words
    <3>1. \A d \in 1..n : F[d] \in SUBSET Words
      BY <2>1
    <3> QED BY <2>1, <3>1
  <2>5. Separate => U(n) \cap F[n + 1] = {}
    <3> SUFFICES ASSUME Separate, NEW x \in U(n), x \in F[n + 1] PROVE FALSE
      OBVIOUS
    <3>1. PICK d \in 1..n : x \in F[d]
      OBVIOUS
    <3>2. d \in 1..N /\ d # n + 1
      BY <2>1
    <3> QED BY <3>1, <3>2, <2>1
  <2> HIDE DEF U
  <2>6. PICK a \in Nat : a = Cardinality(U(n))
    BY <2>4, <1>0
  <2>7. PICK b \in Nat : b = Cardinality(F[n + 1])
    BY <2>4, <1>0
  <2>8. PICK c \in Nat : c = Cardinality(U(n) \cap F[n + 1])
    BY <2>4, <1>0
  <2>9. Cardinality(U(n + 1)) = a + b - c
    BY <2>3, <2>4, <2>6, <2>7, <2>8, <1>0, FS_Union
  <2>10. Separate => c = 0
    BY <2>5, <2>8, FS_EmptySet
  <2>11. p[n] \in Nat /\ p[n + 1] \in Nat
    BY <2>1
  <2>12. (Small => b <= p[n + 1] - p[n]) /\ (Exact => b = p[n + 1] - p[n])
    BY <2>1, <2>7
  <2>13. (Small => a <= p[n]) /\ (Exact /\ Separate => a = p[n])
    BY <1>2, <2>6
  <2> HIDE DEF Small, Exact, Separate
  <2>14. Small => Cardinality(U(n + 1)) <= p[n + 1]
    BY <2>9, <2>11, <2>12, <2>13
  <2>15. Exact /\ Separate => Cardinality(U(n + 1)) = p[n + 1]
    BY <2>9, <2>10, <2>11, <2>12, <2>13
  <2> QED BY <2>1, <2>14, <2>15
<1> HIDE DEF E
<1>3. \A i \in 0..N : i \in E
  BY <1>1, <1>2, InductionUpTo
<1>4. N \in E
  BY <1>3
<1> QED BY <1>4 DEF E, Together

-----------------------------------------------------------------------------
(* The decks and the fallback behind them.                                 *)

\* A: the first m that are ready of a preferred-first list s of S; B: its
\* first m, ready or not.
Taken(s, A, B, S, pref, ready, m) ==
  /\ Take(Among(s, ready), m) \in Seq(Words)
  /\ A \in SUBSET (S \cap ready) /\ Cardinality(A) <= m
  /\ B \in SUBSET S /\ Cardinality(B) = Least(m, Cardinality(S))
  /\ B \cap ready \subseteq A
  /\ ready = Words => A = B
  /\ \A w \in B : w \in pref \/ Cardinality(S \cap pref) < m

\* The first of a preferred-first list, of all words and of the ready ones.
LEMMA ListTaken ==
  ASSUME NEW order, Lists(order, Words), NEW S \in SUBSET Words, NEW pref,
         NEW ready \in SUBSET Words, NEW m \in Nat,
         NEW s, s = PreferredFirst(order, S, pref),
         NEW A, A = Range(Take(Among(s, ready), m)),
         NEW B, B = Range(Take(s, m))
  PROVE  Taken(s, A, B, S, pref, ready, m)
<1>1. Lists(s, S)
  BY PreferredFirstLists
<1>2. PICK t : t = Among(s, ready)
  OBVIOUS
<1>3. Lists(t, S \cap ready)
  BY <1>1, <1>2, AmongLists
<1>4. s \in Seq(Words)
  BY <1>1 DEF Lists
<1>5. /\ B \in SUBSET S /\ Cardinality(B) = Least(m, Cardinality(S))
  BY <1>1, TakeLists
<1>6. /\ Lists(Take(t, m), A) /\ A \in SUBSET (S \cap ready)
      /\ Cardinality(A) = Least(m, Cardinality(S \cap ready))
  BY <1>2, <1>3, TakeLists
<1>7. Cardinality(S \cap ready) \in Nat
  BY <1>3, ListCount
<1>8. Cardinality(A) <= m
  BY <1>6, <1>7 DEF Least
<1>9. B \cap ready \subseteq A
  BY <1>4, FilterAdvances
<1>10. ready = Words => A = B
  BY <1>4, AmongAll
<1>11. ASSUME NEW w \in B, w \notin pref
       PROVE  Cardinality(S \cap pref) < m
  BY <1>11, TakePrefers
<1>12. Take(t, m) \in Seq(Words)
  BY <1>6 DEF Lists
<1> QED BY <1>2, <1>5, <1>6, <1>8, <1>9, <1>10, <1>11, <1>12 DEF Taken

\* g gives each deck a number of places it has words for.
Places(g, r) ==
  /\ g \in [0..Decks -> Nat] /\ g[0] = 0
  /\ \A d \in 1..Decks : g[d] - g[d - 1] \in 0..Cardinality(Pool(r, d))

\* x draws A and plans for B besides.
Deals(A, B, x, r, g) ==
  /\ x.drawn \in Seq(Words) /\ Range(x.drawn) = A /\ x.planned = A \cup B
  /\ A \in SUBSET (r.diet \cap r.ready) /\ Cardinality(A) <= g[Decks]
  /\ B \in SUBSET r.diet /\ Cardinality(B) = g[Decks]
  /\ B \cap r.ready \subseteq A
  /\ r.ready = Words => A = B
  /\ \A d \in 1..Decks : Cardinality(Pool(r, d) \cap B) >= g[d] - g[d - 1]
  /\ \A w \in B :
       \/ w \in r.preferred
       \/ \E d \in 1..Decks :
            /\ w \in Pool(r, d)
            /\ Cardinality(Pool(r, d) \cap r.preferred) < g[d] - g[d - 1]

\* What FromDecks draws and plans.
LEMMA DecksDeal ==
  ASSUME NEW r, Asks(r), NEW order, Lists(order, Words),
         NEW g, Places(g, r)
  PROVE  \E A, B : Deals(A, B, FromDecks(r, order, g), r, g)
<1>1. Decks \in Nat /\ Decks > 0
  BY AdmissionAssumption
<1>2. /\ g \in [0..Decks -> Nat] /\ g[0] = 0
      /\ \A d \in 1..Decks : g[d] - g[d - 1] \in 0..Cardinality(Pool(r, d))
  BY DEF Places
<1>3. PICK ready \in SUBSET Words : ready = r.ready
  BY DEF Asks
<1> DEFINE deck(d) == PreferredFirst(order, Pool(r, d), r.preferred)
           places(d) == g[d] - g[d - 1]
           drawn(d) == Take(Among(deck(d), ready), places(d))
           a(d) == Range(drawn(d))
           b(d) == Range(Take(deck(d), places(d)))
<1>4. ASSUME NEW d \in 1..Decks
      PROVE  /\ drawn(d) \in Seq(Words)
             /\ a(d) \in SUBSET (Pool(r, d) \cap ready)
             /\ Cardinality(a(d)) <= places(d)
             /\ b(d) \in SUBSET Pool(r, d) /\ Cardinality(b(d)) = places(d)
             /\ b(d) \cap ready \subseteq a(d)
             /\ ready = Words => a(d) = b(d)
             /\ \A w \in b(d) : w \in r.preferred
                     \/ Cardinality(Pool(r, d) \cap r.preferred) < places(d)
  <2>1. PICK S \in SUBSET Words : S = Pool(r, d)
    BY PoolBounds
  <2>2. PICK m \in Nat : m = places(d) /\ m <= Cardinality(S)
                         /\ Cardinality(S) \in Nat
    BY <2>1, <1>2, PoolBounds
  <2>3. PICK s : s = PreferredFirst(order, S, r.preferred)
    OBVIOUS
  <2>8. PICK c : c = Range(Take(Among(s, ready), m))
    OBVIOUS
  <2>9. PICK e : e = Range(Take(s, m))
    OBVIOUS
  <2>4. Taken(s, c, e, S, r.preferred, ready, m)
    BY <2>3, <2>8, <2>9, ListTaken
  <2>5. Least(m, Cardinality(S)) = m
    BY <2>2 DEF Least
  <2>6. s = deck(d)
    BY <2>1, <2>3
  <2>7. e = b(d) /\ c = a(d) /\ Take(Among(s, ready), m) = drawn(d)
    BY <2>2, <2>6, <2>8, <2>9
  <2> HIDE DEF a, b, drawn, deck, places
  <2> QED BY <2>1, <2>2, <2>4, <2>5, <2>7 DEF Taken
<1>5. PICK s : s = [d \in 1..Decks |-> drawn(d)]
  OBVIOUS
<1>6. s \in [1..Decks -> Seq(Words)]
  <2> HIDE DEF drawn
  <2> QED BY <1>4, <1>5
<1>7. /\ FlattenSeq(s) \in Seq(Words)
      /\ Range(FlattenSeq(s)) = UNION {Range(s[i]) : i \in 1..Decks}
  BY <1>1, <1>6, Flattened
<1> DEFINE A == UNION {a(d) : d \in 1..Decks}
           B == UNION {b(d) : d \in 1..Decks}
<1>8. UNION {Range(s[i]) : i \in 1..Decks} = A
  <2> HIDE DEF drawn
  <2> QED BY <1>5
<1>9. PICK x : x = FromDecks(r, order, g)
  OBVIOUS
<1>10. x.drawn = FlattenSeq(s) /\ x.planned = A \cup B
  <2>1. x.drawn = FlattenSeq([d \in 1..Decks |-> drawn(d)])
    BY <1>3, <1>9 DEF FromDecks
  <2>2. x.planned = UNION {a(d) \cup b(d) : d \in 1..Decks}
    BY <1>3, <1>9 DEF FromDecks
  <2>3. UNION {a(d) \cup b(d) : d \in 1..Decks} = A \cup B
    <3> HIDE DEF a, b
    <3> QED OBVIOUS
  <2> QED BY <2>1, <2>2, <2>3, <1>5
<1> HIDE DEF a, b, drawn, deck
<1>11. \A d \in 1..Decks : Pool(r, d) \in SUBSET r.diet
                           /\ Pool(r, d) \in SUBSET Words
  BY PoolBounds
<1>12. A \in SUBSET (r.diet \cap r.ready) /\ B \in SUBSET r.diet
  <2>1. \A d \in 1..Decks : /\ a(d) \in SUBSET (r.diet \cap r.ready)
                            /\ b(d) \in SUBSET r.diet
    BY <1>3, <1>4, <1>11
  <2> QED BY <2>1
<1>13. Cardinality(A) <= g[Decks]
  <2>1. \A d \in 1..Decks : a(d) \in SUBSET Words
    BY <1>4, <1>11
  <2>2. PICK F : F = [d \in 1..Decks |-> a(d)]
    OBVIOUS
  <2>3. \A d \in 1..Decks : F[d] \in SUBSET Words
    BY <2>1, <2>2
  <2>4. \A d \in 1..Decks : Cardinality(F[d]) <= g[d] - g[d - 1]
    BY <2>2, <1>4
  <2>5. Cardinality(Together(F, Decks)) <= g[Decks]
    <3>1. g \in [0..Decks -> Nat] /\ g[0] = 0 /\ Decks \in Nat
      BY <1>1, <1>2
    <3> QED BY <2>3, <2>4, <3>1, UnionCounts
  <2>6. Together(F, Decks) = A
    BY <2>2 DEF Together
  <2> QED BY <2>5, <2>6
<1>14. Cardinality(B) = g[Decks]
  <2>1. \A d \in 1..Decks : b(d) \in SUBSET Words
    BY <1>4, <1>11
  <2>2. PICK F : F = [d \in 1..Decks |-> b(d)]
    OBVIOUS
  <2>3. \A d \in 1..Decks : F[d] \in SUBSET Words
    BY <2>1, <2>2
  <2>4. \A d \in 1..Decks : Cardinality(F[d]) = g[d] - g[d - 1]
    BY <2>2, <1>4
  <2>5. \A d \in 1..Decks : \A e \in 1..Decks : d # e => F[d] \cap F[e] = {}
    <3>1. \A d \in 1..Decks : \A w \in F[d] : DeckOf[w] = d
      <4>1. \A d \in 1..Decks : \A w \in Pool(r, d) : DeckOf[w] = d
        BY DEF Pool
      <4> QED BY <4>1, <2>2, <1>4
    <3> QED BY <3>1
  <2>6. Cardinality(Together(F, Decks)) = g[Decks]
    BY <2>3, <2>4, <2>5, <1>1, <1>2, UnionCounts
  <2>7. Together(F, Decks) = B
    BY <2>2 DEF Together
  <2> QED BY <2>6, <2>7
<1>15. B \cap r.ready \subseteq A /\ (r.ready = Words => A = B)
  BY <1>3, <1>4
<1>16. ASSUME NEW d \in 1..Decks
       PROVE  Cardinality(Pool(r, d) \cap B) >= g[d] - g[d - 1]
  <2>1. b(d) \in SUBSET (Pool(r, d) \cap B)
    BY <1>4
  <2>2. IsFiniteSet(Pool(r, d) \cap B)
    BY PoolBounds, FS_Intersection
  <2>3. Cardinality(b(d)) <= Cardinality(Pool(r, d) \cap B)
        /\ IsFiniteSet(b(d))
    BY <2>1, <2>2, FS_Subset
  <2>4. Cardinality(Pool(r, d) \cap B) \in Nat /\ Cardinality(b(d)) \in Nat
    BY <2>2, <2>3, FS_CardinalityType
  <2> HIDE DEF B
  <2> QED BY <2>3, <2>4, <1>4
<1>17. ASSUME NEW w \in B
       PROVE  \/ w \in r.preferred
              \/ \E d \in 1..Decks :
                   /\ w \in Pool(r, d)
                   /\ Cardinality(Pool(r, d) \cap r.preferred) < g[d] - g[d - 1]
  <2>1. PICK d \in 1..Decks : w \in b(d)
    BY <1>17
  <2>2. w \in Pool(r, d) /\ (w \in r.preferred
                    \/ Cardinality(Pool(r, d) \cap r.preferred) < g[d] - g[d - 1])
    BY <2>1, <1>4
  <2> QED BY <2>2
<1> HIDE DEF A, B
<1>18. Deals(A, B, x, r, g)
  BY <1>7, <1>8, <1>10, <1>12, <1>13, <1>14, <1>15, <1>16, <1>17 DEF Deals
<1> QED BY <1>9, <1>18

\* Places spread over the decks are places the decks have words for.
LEMMA SpreadsPlaces ==
  ASSUME NEW r, Asks(r), NEW a, NEW k, Split(r.weights, a, k),
         NEW n \in Nat, NEW g, Spreads(g, r, a, k, n)
  PROVE  /\ Places(g, r) /\ g[Decks] \in 0..n
         /\ \A d \in 1..Decks :
              /\ g[d - 1] \in 0..n /\ g[d] \in 0..n
              /\ Wanted(d, n - g[d - 1], a, k, n) \in 0..n
<1>1. /\ Decks \in Nat /\ a \in 1..Decks /\ k \in 0..Quanta - 1
  BY AdmissionAssumption DEF Split
<1>2. g \in [0..Decks -> 0..n] /\ g[0] = 0
  BY DEF Spreads
<1>3. Later(n, k) \in 0..n
  BY <1>1, LaterBounds
<1>4. ASSUME NEW d \in 1..Decks
      PROVE  /\ g[d - 1] \in 0..n /\ g[d] \in 0..n
             /\ Wanted(d, n - g[d - 1], a, k, n) \in 0..n
             /\ g[d] - g[d - 1] \in 0..Cardinality(Pool(r, d))
  <2>1. d - 1 \in 0..Decks /\ d \in 0..Decks
    BY <1>1
  <2>2. PICK x \in 0..n : x = g[d - 1]
    BY <1>2, <2>1
  <2>3. PICK y \in 0..n : y = Wanted(d, n - x, a, k, n)
    BY <1>3 DEF Wanted
  <2>4. PICK p \in Nat : p = Cardinality(Pool(r, d))
    BY PoolBounds
  <2>5. g[d] = x + Least(y, p)
    BY <2>2, <2>3, <2>4 DEF Spreads
  <2>6. g[d] - x \in 0..p
    BY <2>5 DEF Least
  <2> QED BY <1>2, <2>1, <2>2, <2>3, <2>4, <2>6
<1>5. g \in [0..Decks -> Nat] /\ g[Decks] \in 0..n
  BY <1>1, <1>2
<1> QED BY <1>2, <1>4, <1>5 DEF Places

\* What a plan of the decks and the fallback does: it draws only what is ready
\* and no more than the quota, draws whatever it planned that is ready, plans
\* for as many words as there may be, keeps each deck's places, and plans for
\* a word that is not preferred only where the preferred ones run out.
DietDealt(z, r, g) ==
  /\ z.drawn \in Seq(Words) /\ Range(z.drawn) \in SUBSET (r.diet \cap r.ready)
  /\ Cardinality(Range(z.drawn)) <= DietDemand(r)
  /\ z.planned \in SUBSET r.diet
  /\ z.planned \cap r.ready \subseteq Range(z.drawn)
  /\ Cardinality(z.planned) >= Least(DietDemand(r), Cardinality(r.diet))
  /\ r.ready = Words => z.planned = Range(z.drawn)
  /\ \A d \in 1..Decks :
       Cardinality(Pool(r, d) \cap z.planned) >= g[d] - g[d - 1]
  /\ \A w \in z.planned :
       \/ w \in r.preferred
       \/ w \in r.ready /\ r.ready # Words
       \/ \E d \in 1..Decks :
            /\ w \in Pool(r, d)
            /\ Cardinality(Pool(r, d) \cap r.preferred) < g[d] - g[d - 1]
       \/ /\ g[Decks] < DietDemand(r)
          /\ Cardinality(r.diet \cap r.preferred) < DietDemand(r) + g[Decks]
          /\ r.ready = Words =>
               Cardinality(r.diet \cap r.preferred) < DietDemand(r)

\* What DietPlan draws and plans.
LEMMA DietDeals ==
  ASSUME NEW r, Asks(r), NEW order, Lists(order, Words),
         NEW a, NEW k, Split(r.weights, a, k), DietDemand(r) > 0,
         NEW g, g = Given(r, Target(r))
  PROVE  DietDealt(DietPlan(r, order), r, g)
<1>1. PICK n \in Nat : n = DietDemand(r)
  BY DemandBounds, ShareBounds
<1>2. Spreads(g, r, a, k, n)
  BY <1>1, GivenSpreads
<1>3. Places(g, r)
  BY <1>1, <1>2, SpreadsPlaces
<1>4. PICK h \in 0..n : h = g[Decks]
  BY <1>1, <1>2, SpreadsPlaces
<1>5. PICK x : x = FromDecks(r, order, g)
  OBVIOUS
<1>6. PICK A, B : Deals(A, B, x, r, g)
  BY <1>3, <1>5, DecksDeal
<1>7. /\ x.drawn \in Seq(Words) /\ Range(x.drawn) = A /\ x.planned = A \cup B
      /\ A \in SUBSET (r.diet \cap r.ready) /\ Cardinality(A) <= h
      /\ B \in SUBSET r.diet /\ Cardinality(B) = h
      /\ B \cap r.ready \subseteq A
      /\ r.ready = Words => A = B
  BY <1>4, <1>6 DEF Deals
<1>8. PICK D \in SUBSET Words : D = r.diet
  BY DEF Asks
<1>9. PICK ready \in SUBSET Words : ready = r.ready
  BY DEF Asks
<1>10. PICK pref : pref = r.preferred
  OBVIOUS
<1>11. PICK S \in SUBSET Words : S = D \ (A \cup B)
  OBVIOUS
<1>12. PICK m \in Nat : m = n - h
  BY <1>4
<1>13. PICK s : s = PreferredFirst(Corpus, S, pref)
  OBVIOUS
<1>14. PICK Y : Y = Range(Take(Among(s, ready), m))
  OBVIOUS
<1>15. PICK X : X = Range(Take(s, m))
  OBVIOUS
<1>16. Taken(s, Y, X, S, pref, ready, m)
  BY <1>13, <1>14, <1>15, OrdersList, ListTaken
<1>17. /\ Take(Among(s, ready), m) \in Seq(Words)
       /\ Y \in SUBSET (S \cap ready) /\ Cardinality(Y) <= m
       /\ X \in SUBSET S /\ Cardinality(X) = Least(m, Cardinality(S))
       /\ X \cap ready \subseteq Y
       /\ ready = Words => Y = X
       /\ \A w \in X : w \in pref \/ Cardinality(S \cap pref) < m
  BY <1>16 DEF Taken
<1>18. PICK z : z = DietPlan(r, order)
  OBVIOUS
<1>19. z.drawn = x.drawn \o Take(Among(s, ready), m)
       /\ z.planned = (A \cup B) \cup X
  BY <1>1, <1>4, <1>5, <1>7, <1>8, <1>9, <1>10, <1>11, <1>12, <1>13, <1>15,
     <1>18 DEF DietPlan, FromCorpus
<1>20. z.drawn \in Seq(Words) /\ Range(z.drawn) = A \cup Y
  BY <1>7, <1>14, <1>17, <1>19, ConcatProperties, RangeConcatenation
<1>f. \A T \in SUBSET Words : IsFiniteSet(T) /\ Cardinality(T) \in Nat
  BY AdmissionAssumption, FS_Subset, FS_CardinalityType
<1>21. A \cup Y \in SUBSET (D \cap ready)
  BY <1>7, <1>8, <1>9, <1>11, <1>17
<1>22. Cardinality(A \cup Y) <= n
  <2>1. A \in SUBSET Words /\ Y \in SUBSET Words /\ A \cap Y \in SUBSET Words
    BY <1>7, <1>8, <1>17
  <2>2. Cardinality(A \cup Y) =
          Cardinality(A) + Cardinality(Y) - Cardinality(A \cap Y)
    BY <2>1, <1>f, FS_Union
  <2>3. Cardinality(A) \in Nat /\ Cardinality(Y) \in Nat
        /\ Cardinality(A \cap Y) \in Nat
    BY <2>1, <1>f
  <2> QED BY <2>2, <2>3, <1>4, <1>7, <1>12, <1>17
<1>23. z.planned \in SUBSET D
  BY <1>7, <1>8, <1>11, <1>17, <1>19
<1>24. z.planned \cap ready \subseteq A \cup Y
  BY <1>7, <1>9, <1>17, <1>19
<1>25. Cardinality(z.planned) >= Least(n, Cardinality(D))
  <2>1. PICK P \in SUBSET Words : P = A \cup B
    BY <1>7, <1>8
  <2>2. PICK p \in Nat : p = Cardinality(P)
    BY <2>1, <1>f
  <2>3. p >= h
    <3>1. IsFiniteSet(P) /\ B \in SUBSET P
      BY <2>1, <1>f
    <3> QED BY <3>1, <2>2, <1>7, FS_Subset
  <2>4. PICK q \in Nat : q = Cardinality(D)
    BY <1>f
  <2>5. Cardinality(S) = q - p
    <3>1. D \cap P = P /\ S = D \ P /\ IsFiniteSet(D)
      BY <2>1, <1>7, <1>8, <1>11, <1>f
    <3>2. Cardinality(D \ P) = Cardinality(D) - Cardinality(D \cap P)
      BY <3>1, FS_Difference
    <3> QED BY <3>1, <3>2, <2>2, <2>4
  <2>6. PICK c \in Nat : c = Cardinality(S)
    BY <1>f
  <2>7. Cardinality(X) = Least(m, q - p)
    BY <2>5, <1>17
  <2>8. Cardinality(P \cup X) = p + Cardinality(X)
    <3>1. P \cap X = {} /\ IsFiniteSet(P) /\ IsFiniteSet(X)
      BY <2>1, <1>11, <1>17, <1>f
    <3>2. Cardinality(P \cap X) = 0
      BY <3>1, FS_EmptySet
    <3>3. Cardinality(P \cup X) =
            Cardinality(P) + Cardinality(X) - Cardinality(P \cap X)
      BY <3>1, FS_Union
    <3>4. Cardinality(X) \in Nat
      BY <3>1, FS_CardinalityType
    <3> QED BY <3>2, <3>3, <3>4, <2>2
  <2>9. z.planned = P \cup X
    BY <2>1, <1>19
  <2>10. c = q - p
    BY <2>5, <2>6
  <2> QED BY <2>2, <2>3, <2>4, <2>6, <2>7, <2>8, <2>9, <2>10, <1>4, <1>12
          DEF Least
<1>26. ready = Words => z.planned = A \cup Y
  BY <1>7, <1>9, <1>17, <1>19
<1>27. ASSUME NEW d \in 1..Decks
       PROVE  Cardinality(Pool(r, d) \cap z.planned) >= g[d] - g[d - 1]
  <2>1. Cardinality(Pool(r, d) \cap B) >= g[d] - g[d - 1]
    BY <1>6 DEF Deals
  <2>2. Pool(r, d) \cap B \in SUBSET (Pool(r, d) \cap z.planned)
    BY <1>19
  <2>3. IsFiniteSet(Pool(r, d) \cap z.planned)
    BY PoolBounds, FS_Intersection
  <2>4. Cardinality(Pool(r, d) \cap B) <= Cardinality(Pool(r, d) \cap z.planned)
        /\ IsFiniteSet(Pool(r, d) \cap B)
    BY <2>2, <2>3, FS_Subset
  <2>5. Cardinality(Pool(r, d) \cap B) \in Nat
        /\ Cardinality(Pool(r, d) \cap z.planned) \in Nat
    BY <2>3, <2>4, FS_CardinalityType
  <2>6. g[d] - g[d - 1] \in Int
    <3>1. d \in 0..Decks /\ d - 1 \in 0..Decks
      BY AdmissionAssumption
    <3> QED BY <3>1, <1>3 DEF Places
  <2> QED BY <2>1, <2>4, <2>5, <2>6
<1>28. ASSUME NEW w \in z.planned
       PROVE  \/ w \in pref
              \/ w \in ready /\ ready # Words
              \/ \E d \in 1..Decks :
                   /\ w \in Pool(r, d)
                   /\ Cardinality(Pool(r, d) \cap pref) < g[d] - g[d - 1]
              \/ /\ h < n
                 /\ Cardinality(D \cap pref) < n + h
                 /\ ready = Words => Cardinality(D \cap pref) < n
  <2>1. CASE w \in B
    BY <2>1, <1>6, <1>10 DEF Deals
  <2>2. CASE w \in A /\ w \notin B
    BY <2>2, <1>7, <1>9
  <2>3. CASE w \in X /\ w \notin pref
    <3>1. PICK P \in SUBSET Words : P = A \cup B
      BY <1>7, <1>8
    <3>2. PICK p \in Nat : p = Cardinality(P)
      BY <3>1, <1>f
    <3>3. p <= 2 * h /\ (ready = Words => p = h)
      <4>1. A \in SUBSET Words /\ B \in SUBSET Words
            /\ A \cap B \in SUBSET Words
        BY <1>7, <1>8
      <4>2. p = Cardinality(A) + Cardinality(B) - Cardinality(A \cap B)
        BY <4>1, <3>1, <3>2, <1>f, FS_Union
      <4>3. Cardinality(A) \in Nat /\ Cardinality(B) \in Nat
            /\ Cardinality(A \cap B) \in Nat
        BY <4>1, <1>f
      <4>4. p <= 2 * h
        BY <4>2, <4>3, <1>4, <1>7
      <4>5. ready = Words => P = B
        BY <3>1, <1>7, <1>9
      <4> QED BY <4>4, <4>5, <3>2, <1>7
    <3>4. PICK c \in Nat : c = Cardinality(S \cap pref)
      BY <1>f
    <3>5. c < m
      BY <2>3, <3>4, <1>17
    <3>6. D \cap pref \in SUBSET ((S \cap pref) \cup P)
      BY <3>1, <1>11
    <3>7. Cardinality((S \cap pref) \cup P) <= c + p
      <4>1. S \cap pref \in SUBSET Words /\ (S \cap pref) \cap P \in SUBSET Words
        OBVIOUS
      <4>2. Cardinality((S \cap pref) \cup P) =
              c + p - Cardinality((S \cap pref) \cap P)
        BY <4>1, <3>2, <3>4, <1>f, FS_Union
      <4>3. Cardinality((S \cap pref) \cap P) \in Nat
        BY <4>1, <1>f
      <4> QED BY <4>2, <4>3
    <3>8. (S \cap pref) \cup P \in SUBSET Words /\ D \cap pref \in SUBSET Words
      OBVIOUS
    <3>9. Cardinality(D \cap pref) <= Cardinality((S \cap pref) \cup P)
      BY <3>6, <3>8, <1>f, FS_Subset
    <3>10. PICK e \in Nat : e = Cardinality(D \cap pref)
      BY <3>8, <1>f
    <3>11. Cardinality((S \cap pref) \cup P) \in Nat
      BY <3>8, <1>f
    <3>12. e <= c + p
      BY <3>7, <3>9, <3>10, <3>11
    <3> QED BY <3>3, <3>5, <3>10, <3>12, <1>4, <1>12
  <2> QED BY <2>1, <2>2, <2>3, <1>19
<1>29. DietDealt(z, r, g)
  <2>1. /\ z.drawn \in Seq(Words)
        /\ Range(z.drawn) \in SUBSET (r.diet \cap r.ready)
        /\ Cardinality(Range(z.drawn)) <= DietDemand(r)
    BY <1>1, <1>8, <1>9, <1>20, <1>21, <1>22
  <2>2. /\ z.planned \in SUBSET r.diet
        /\ z.planned \cap r.ready \subseteq Range(z.drawn)
        /\ Cardinality(z.planned) >= Least(DietDemand(r), Cardinality(r.diet))
        /\ r.ready = Words => z.planned = Range(z.drawn)
    BY <1>1, <1>8, <1>9, <1>20, <1>23, <1>24, <1>25, <1>26
  <2> QED BY <2>1, <2>2, <1>1, <1>4, <1>8, <1>9, <1>10, <1>27, <1>28
          DEF DietDealt
<1> QED BY <1>18, <1>29

-----------------------------------------------------------------------------
(* The places of a session.                                                *)

\* A bucket's term of a sum, and whether it is in the set.
Part(f, T, b) == IF b \in T THEN f[b] ELSE 0
In(T, b) == IF b \in T THEN 1 ELSE 0

\* Sums over buckets, and how many there are in a set, by name.
LEMMA SumOfBuckets ==
  ASSUME NEW T \in SUBSET Buckets, NEW f, \A b \in T : f[b] \in Int
  PROVE  Sum(f, T) = Part(f, T, "review") + Part(f, T, "learning")
                       + Part(f, T, "unstudied")
<1>1. IsFiniteSet(T)
  <2>1. IsFiniteSet({"review"}) /\ IsFiniteSet({"review"} \cup {"learning"})
    BY FS_Singleton, FS_AddElement
  <2>2. IsFiniteSet(({"review"} \cup {"learning"}) \cup {"unstudied"})
    BY <2>1, FS_AddElement
  <2>3. Buckets = ({"review"} \cup {"learning"}) \cup {"unstudied"}
    BY DEF Buckets
  <2> QED BY <2>2, <2>3, FS_Subset
<1>2. ASSUME NEW U \in SUBSET T, NEW b
      PROVE  /\ Sum(f, U) = Part(f, U, b) + Sum(f, U \ {b})
             /\ U \ {b} \in SUBSET T /\ Sum(f, U) \in Int
             /\ Part(f, U, b) \in Int
  <2>1. IsFiniteSet(U) /\ \A x \in U : f[x] \in Int
    BY <1>1, FS_Subset
  <2>2. Sum(f, U) \in Int
    BY <2>1, SumRemove
  <2>3. CASE b \in U
    <3>1. Sum(f, U) = f[b] + Sum(f, U \ {b})
      BY <2>1, <2>3, SumRemove
    <3> QED BY <3>1, <2>1, <2>2, <2>3 DEF Part
  <2>4. CASE b \notin U
    <3>1. Sum(f, U \ {b}) = Sum(f, U)
      <4>1. U \ {b} = U
        BY <2>4
      <4> QED BY <4>1
    <3>2. Part(f, U, b) = 0 /\ U \ {b} \in SUBSET T
      BY <2>4 DEF Part
    <3> QED BY <3>1, <3>2, <2>2
  <2> QED BY <2>3, <2>4
<1>3. PICK U \in SUBSET T : U = T \ {"review"}
  OBVIOUS
<1>4. PICK V \in SUBSET T : V = U \ {"learning"}
  OBVIOUS
<1>5. PICK W \in SUBSET T : W = V \ {"unstudied"}
  OBVIOUS
<1>6. W = {}
  BY <1>3, <1>4, <1>5 DEF Buckets
<1>7. Sum(f, W) = 0
  BY <1>6, <1>1, FS_Subset, SumRemove
<1>8. Sum(f, T) = Part(f, T, "review") + Sum(f, U) /\ Sum(f, T) \in Int
      /\ Part(f, T, "review") \in Int /\ Sum(f, U) \in Int
  BY <1>2, <1>3
<1>9. Sum(f, U) = Part(f, U, "learning") + Sum(f, V) /\ Sum(f, V) \in Int
      /\ Part(f, U, "learning") \in Int
  BY <1>2, <1>4
<1>10. Sum(f, V) = Part(f, V, "unstudied") + Sum(f, W)
      /\ Part(f, V, "unstudied") \in Int
  BY <1>2, <1>5
<1>11. Part(f, U, "learning") = Part(f, T, "learning")
       /\ Part(f, V, "unstudied") = Part(f, T, "unstudied")
  BY <1>3, <1>4 DEF Part
<1> QED BY <1>7, <1>8, <1>9, <1>10, <1>11

LEMMA CountOfBuckets ==
  ASSUME NEW T \in SUBSET Buckets
  PROVE  Cardinality(T) = In(T, "review") + In(T, "learning")
                            + In(T, "unstudied")
<1>1. ASSUME NEW U \in SUBSET Buckets
      PROVE  IsFiniteSet(U) /\ Cardinality(U) \in Nat
  <2>1. IsFiniteSet({"review"}) /\ IsFiniteSet({"review"} \cup {"learning"})
    BY FS_Singleton, FS_AddElement
  <2>2. IsFiniteSet(({"review"} \cup {"learning"}) \cup {"unstudied"})
    BY <2>1, FS_AddElement
  <2>3. Buckets = ({"review"} \cup {"learning"}) \cup {"unstudied"}
    BY DEF Buckets
  <2> QED BY <2>2, <2>3, FS_Subset, FS_CardinalityType
<1>2. ASSUME NEW U \in SUBSET Buckets, NEW b
      PROVE  Cardinality(U) = In(U, b) + Cardinality(U \ {b})
             /\ U \ {b} \in SUBSET Buckets
  <2>1. Cardinality(U \ {b}) = IF b \in U THEN Cardinality(U) - 1
                               ELSE Cardinality(U)
    BY <1>1, FS_RemoveElement
  <2> QED BY <2>1, <1>1 DEF In
<1>3. PICK U \in SUBSET Buckets : U = T \ {"review"}
  OBVIOUS
<1>4. PICK V \in SUBSET Buckets : V = U \ {"learning"}
  OBVIOUS
<1>5. PICK W \in SUBSET Buckets : W = V \ {"unstudied"}
  OBVIOUS
<1>6. Cardinality(W) = 0
  <2>1. W = {}
    BY <1>3, <1>4, <1>5 DEF Buckets
  <2> QED BY <2>1, FS_EmptySet
<1>7. Cardinality(T) = In(T, "review") + Cardinality(U)
  BY <1>2, <1>3
<1>8. Cardinality(U) = In(U, "learning") + Cardinality(V)
  BY <1>2, <1>4
<1>9. Cardinality(V) = In(V, "unstudied") + Cardinality(W)
  BY <1>2, <1>5
<1>10. In(U, "learning") = In(T, "learning")
       /\ In(V, "unstudied") = In(T, "unstudied")
  BY <1>3, <1>4 DEF In
<1>11. \A b : In(T, b) \in Nat
  BY DEF In
<1> QED BY <1>6, <1>7, <1>8, <1>9, <1>10, <1>11

\* Whether a bucket that takes part (p is 1) has a larger remainder than
\* another, or as large a one and comes first (first is 1); and whether a
\* bucket with k of them ahead gets one of s places.
Before(p, y, x, first) ==
  IF p = 1 /\ (y > x \/ (y = x /\ first = 1)) THEN 1 ELSE 0
Extra(o, k, s) == IF o = 1 /\ k < s THEN 1 ELSE 0

\* Three remainders modulo t that add up to s wholes.
Wholes(t, s, x, y, z, o, p, q) ==
  /\ t \in Nat /\ t > 0 /\ s \in Int
  /\ x \in 0..t - 1 /\ y \in 0..t - 1 /\ z \in 0..t - 1
  /\ x + y + z = t * s
  /\ o \in 0..1 /\ p \in 0..1 /\ q \in 0..1
  /\ (o = 0 => x = 0) /\ (p = 0 => y = 0) /\ (q = 0 => z = 0)

\* Exactly s of them have fewer than s ahead.
LEMMA RanksFill ==
  ASSUME NEW t, NEW s, NEW x, NEW y, NEW z, NEW o, NEW p, NEW q,
         Wholes(t, s, x, y, z, o, p, q)
  PROVE  /\ s \in 0..2
         /\ Extra(o, Before(p, y, x, 0) + Before(q, z, x, 0), s)
              + Extra(p, Before(o, x, y, 1) + Before(q, z, y, 0), s)
              + Extra(q, Before(o, x, z, 1) + Before(p, y, z, 1), s)
            = s
<1>t. /\ t \in Nat /\ t > 0 /\ s \in Int
      /\ x \in 0..t - 1 /\ y \in 0..t - 1 /\ z \in 0..t - 1
      /\ o \in 0..1 /\ p \in 0..1 /\ q \in 0..1
      /\ (o = 0 => x = 0) /\ (p = 0 => y = 0) /\ (q = 0 => z = 0)
  BY DEF Wholes
<1>w. x + y + z = t * s
  BY DEF Wholes
<1>1. s \in 0..2
  <2>1. s >= 3 => t * s >= 3 * t
    BY <1>t
  <2>2. s < 0 => t * s < 0
    BY <1>t
  <2> QED BY <2>1, <2>2, <1>w, <1>t
<1>2. CASE s = 0
  <2>1. x = 0 /\ y = 0 /\ z = 0
    BY <1>2, <1>w, <1>t
  <2> QED BY <2>1, <1>1, <1>t, <1>2 DEF Extra, Before
<1>3. CASE s = 1
  <2>1. x + y + z = t
    BY <1>3, <1>w, <1>t
  <2> QED BY <2>1, <1>1, <1>t, <1>3 DEF Extra, Before
<1>4. CASE s = 2
  <2>1. x + y + z = t + t
    BY <1>4, <1>w, <1>t
  <2> QED BY <2>1, <1>1, <1>t, <1>4 DEF Extra, Before
<1>5. s = 0 \/ s = 1 \/ s = 2
  BY <1>1
<1> QED BY <1>2, <1>3, <1>4, <1>5, Zenon

\* The places of the open buckets add up to what is shared, each its exact
\* share rounded down or up.
SharesFilled(c, n, t, open) ==
  /\ c \in [open -> Nat] /\ Sum(c, open) = n
  /\ \A b \in open : /\ n * BucketWeight[b] < (c[b] + 1) * t
                     /\ (c[b] - 1) * t <= n * BucketWeight[b]

\* The weight of a set of buckets, out of a hundred.
LEMMA WeightOfBuckets ==
  ASSUME NEW open \in SUBSET Buckets, NEW t, t = Sum(BucketWeight, open)
  PROVE  /\ t = 50 * In(open, "review") + 30 * In(open, "learning")
                  + 20 * In(open, "unstudied")
         /\ t \in 0..100 /\ (open # {} => t > 0)
<1>1. \A b \in open : BucketWeight[b] \in Int
  BY DEF BucketWeight, Buckets
<1>2. t = Part(BucketWeight, open, "review")
            + Part(BucketWeight, open, "learning")
            + Part(BucketWeight, open, "unstudied")
  BY <1>1, SumOfBuckets
<1>3. t = 50 * In(open, "review") + 30 * In(open, "learning")
            + 20 * In(open, "unstudied")
  BY <1>2 DEF Part, In, BucketWeight
<1>4. open # {} => \/ "review" \in open \/ "learning" \in open
                   \/ "unstudied" \in open
  BY DEF Buckets
<1>5. /\ In(open, "review") \in 0..1 /\ ("review" \in open => In(open, "review") = 1)
      /\ In(open, "learning") \in 0..1
      /\ ("learning" \in open => In(open, "learning") = 1)
      /\ In(open, "unstudied") \in 0..1
      /\ ("unstudied" \in open => In(open, "unstudied") = 1)
  BY DEF In
<1> QED BY <1>3, <1>4, <1>5


\* A number is its quotient and its remainder.
LEMMA DivMod ==
  ASSUME NEW e \in Int, NEW t \in Int, t > 0
  PROVE  /\ e \div t \in Int /\ e % t \in 0..t - 1
         /\ e = t * (e \div t) + (e % t)
OBVIOUS

\* The largest remainders fill every place that is shared.
LEMMA SharesFill ==
  ASSUME NEW open \in SUBSET Buckets, open # {}, NEW n \in Nat,
         NEW t, t = Sum(BucketWeight, open),
         NEW c, c = Shares(n, BucketWeight, t, open, BucketPlace)
  PROVE  SharesFilled(c, n, t, open)
<1>t. t \in Nat /\ t > 0
  BY WeightOfBuckets
<1>1. t = 50 * In(open, "review") + 30 * In(open, "learning")
               + 20 * In(open, "unstudied")
  BY WeightOfBuckets
<1>2. PICK exact : exact = [b \in open |-> n * BucketWeight[b]]
  OBVIOUS
<1>3. PICK whole : whole = [b \in open |-> exact[b] \div t]
  OBVIOUS
<1>4. PICK rest : rest = [b \in open |-> exact[b] % t]
  OBVIOUS
<1>w. /\ BucketWeight["review"] = 50 /\ BucketWeight["learning"] = 30
      /\ BucketWeight["unstudied"] = 20
      /\ \A b \in Buckets : BucketWeight[b] \in Nat
  BY DEF BucketWeight, Buckets
<1>5. ASSUME NEW b \in open
      PROVE  /\ exact[b] = n * BucketWeight[b] /\ exact[b] \in Nat
             /\ whole[b] \in Nat /\ rest[b] \in 0..t - 1
             /\ exact[b] = whole[b] * t + rest[b]
  <2>1. PICK e \in Nat : e = exact[b] /\ exact[b] = n * BucketWeight[b]
    BY <1>2, <1>w
  <2>2. whole[b] = e \div t /\ rest[b] = e % t
    BY <2>1, <1>3, <1>4
  <2>3. e \div t \in Int /\ e % t \in 0..t - 1 /\ e = t * (e \div t) + (e % t)
    <3>1. PICK y \in Int : y = t /\ y > 0
      BY <1>t
    <3>2. e \in Int
      BY <2>1
    <3>3. e \div y \in Int /\ e % y \in 0..y - 1 /\ e = y * (e \div y) + (e % y)
      BY <3>1, <3>2, DivMod
    <3> QED BY <3>1, <3>3
  <2>4. PICK k \in Int : k = e \div t
    BY <2>3
  <2>5. PICK h \in 0..t - 1 : h = e % t
    BY <2>3
  <2>6. e = t * k + h
    BY <2>3, <2>4, <2>5
  <2>7. k \in Nat
    <3>1. k <= -1 => t * k <= -t
      BY <1>t
    <3> QED BY <3>1, <2>6, <1>t
  <2>8. e = k * t + h
    BY <2>6, <1>t
  <2>9. whole[b] = k /\ rest[b] = h /\ exact[b] = e
    BY <2>1, <2>2, <2>4, <2>5
  <2>10. exact[b] = whole[b] * t + rest[b]
    BY <2>8, <2>9
  <2> QED BY <2>1, <2>5, <2>7, <2>9, <2>10
<1> DEFINE R(b) == IF b \in open THEN rest[b] ELSE 0
           Q(b) == IF b \in open THEN whole[b] ELSE 0
<1>6. \A b : R(b) \in 0..t - 1 /\ Q(b) \in Nat /\ (b \notin open => R(b) = 0)
  BY <1>t, <1>5
<1>7. ASSUME NEW b \in Buckets
      PROVE  n * BucketWeight[b] * In(open, b) = Q(b) * t + R(b)
  <2>1. CASE b \in open
    <3>1. Q(b) = whole[b] /\ R(b) = rest[b] /\ In(open, b) = 1
      BY <2>1 DEF In
    <3>2. PICK e \in Nat : e = n * BucketWeight[b]
      BY <1>w
    <3>3. e = whole[b] * t + rest[b]
      BY <2>1, <3>2, <1>5
    <3>4. e * 1 = e
      BY <3>2
    <3> QED BY <3>1, <3>2, <3>3, <3>4
  <2>2. CASE b \notin open
    <3>1. Q(b) = 0 /\ R(b) = 0 /\ In(open, b) = 0
      BY <2>2 DEF In
    <3>2. PICK e \in Nat : e = n * BucketWeight[b]
      BY <1>w
    <3> QED BY <3>1, <3>2, <1>t
  <2> QED BY <2>1, <2>2
<1>r. \A a \in open : exact[a] % t = R(a)
  BY <1>4
<1>q. \A b : Part(whole, open, b) = Q(b)
  BY DEF Part
<1> HIDE DEF R, Q
<1>8. PICK x \in 0..t - 1 : x = R("review")
  BY <1>6
<1>9. PICK y \in 0..t - 1 : y = R("learning")
  BY <1>6
<1>10. PICK z \in 0..t - 1 : z = R("unstudied")
  BY <1>6
<1>11. PICK u \in Nat : u = Q("review")
  BY <1>6
<1>12. PICK v \in Nat : v = Q("learning")
  BY <1>6
<1>13. PICK w \in Nat : w = Q("unstudied")
  BY <1>6
<1>m. PICK m \in Nat : m = u + v + w
  OBVIOUS
<1>14. PICK s \in Int : s = n - m
  OBVIOUS
<1>16. PICK o \in 0..1 : o = In(open, "review")
  BY DEF In
<1>17. PICK p \in 0..1 : p = In(open, "learning")
  BY DEF In
<1>18. PICK q \in 0..1 : q = In(open, "unstudied")
  BY DEF In
<1>15. x + y + z = t * s
  <2>1. n * 50 * o = u * t + x
    <3>1. n * BucketWeight["review"] * o = Q("review") * t + R("review")
      BY <1>7, <1>16 DEF Buckets
    <3> QED BY <3>1, <1>w, <1>8, <1>11
  <2>2. n * 30 * p = v * t + y
    <3>1. n * BucketWeight["learning"] * p = Q("learning") * t + R("learning")
      BY <1>7, <1>17 DEF Buckets
    <3> QED BY <3>1, <1>w, <1>9, <1>12
  <2>3. n * 20 * q = w * t + z
    <3>1. n * BucketWeight["unstudied"] * q
            = Q("unstudied") * t + R("unstudied")
      BY <1>7, <1>18 DEF Buckets
    <3> QED BY <3>1, <1>w, <1>10, <1>13
  <2>4. t = 50 * o + 30 * p + 20 * q
    BY <1>1, <1>16, <1>17, <1>18
  <2>5. n * t = n * 50 * o + n * 30 * p + n * 20 * q
    BY <2>4, <1>t
  <2>6. m * t = u * t + v * t + w * t
    BY <1>m, <1>t
  <2>7. PICK k \in Int : k = x + y + z
    BY <1>t
  <2>8. n * t = m * t + k
    <3>1. n * 50 * o \in Nat /\ n * 30 * p \in Nat /\ n * 20 * q \in Nat
      OBVIOUS
    <3>2. u * t \in Nat /\ v * t \in Nat /\ w * t \in Nat /\ m * t \in Nat
      BY <1>t
    <3>3. n * t = (u * t + x) + (v * t + y) + (w * t + z)
      BY <2>1, <2>2, <2>3, <2>5
    <3>4. PICK i \in Nat : i = u * t
      BY <3>2
    <3>5. PICK j \in Nat : j = v * t
      BY <3>2
    <3>6. PICK h \in Nat : h = w * t
      BY <3>2
    <3>7. n * t = (i + x) + (j + y) + (h + z)
      BY <3>3, <3>4, <3>5, <3>6
    <3>8. m * t = i + j + h
      BY <2>6, <3>4, <3>5, <3>6
    <3> QED BY <3>7, <3>8, <2>7
  <2>9. k = t * (n - m)
    <3>1. PICK l \in Int : l = n - m
      BY <1>m
    <3>2. n = l + m
      BY <3>1, <1>m
    <3>3. (l + m) * t = l * t + m * t
      BY <3>1, <1>m, <1>t
    <3>4. PICK a \in Int : a = l * t
      BY <3>1, <1>t
    <3>5. PICK b \in Int : b = m * t
      BY <1>m, <1>t
    <3>6. a + b = b + k
      BY <3>2, <3>3, <3>4, <3>5, <2>8
    <3>7. k = a
      BY <3>6, <3>4, <3>5, <2>7
    <3>8. l * t = t * l
      BY <3>1, <1>t
    <3> QED BY <3>1, <3>4, <3>7, <3>8
  <2> QED BY <2>7, <2>9, <1>14
<1>i. /\ o = 1 <=> "review" \in open
      /\ p = 1 <=> "learning" \in open
      /\ q = 1 <=> "unstudied" \in open
  BY <1>16, <1>17, <1>18 DEF In
<1>19. (o = 0 => x = 0) /\ (p = 0 => y = 0) /\ (q = 0 => z = 0)
  BY <1>6, <1>8, <1>9, <1>10, <1>16, <1>17, <1>18 DEF In
<1>20. /\ s \in 0..2
       /\ Extra(o, Before(p, y, x, 0) + Before(q, z, x, 0), s)
              + Extra(p, Before(o, x, y, 1) + Before(q, z, y, 0), s)
              + Extra(q, Before(o, x, z, 1) + Before(p, y, z, 1), s)
            = s
  <2>1. Wholes(t, s, x, y, z, o, p, q)
    BY <1>t, <1>15, <1>19 DEF Wholes
  <2> QED BY <2>1, RanksFill
<1> DEFINE Ahead(b) == {a \in open :
              \/ exact[a] % t > exact[b] % t
              \/ exact[a] % t = exact[b] % t /\ BucketPlace[a] < BucketPlace[b]}
           extra(b) == IF Cardinality(Ahead(b)) < s THEN 1 ELSE 0
<1>21. Sum(whole, open) = m
  <2>1. \A b \in open : whole[b] \in Int
    BY <1>5
  <2>2. Sum(whole, open) = Part(whole, open, "review")
           + Part(whole, open, "learning") + Part(whole, open, "unstudied")
    BY <2>1, SumOfBuckets
  <2> QED BY <2>2, <1>q, <1>m, <1>11, <1>12, <1>13
<1>22. c = [b \in open |-> whole[b] + extra(b)]
  BY <1>2, <1>3, <1>14, <1>21 DEF Shares
<1>23. ASSUME NEW b \in open
       PROVE  /\ Cardinality(Ahead(b)) = In(Ahead(b), "review")
                  + In(Ahead(b), "learning") + In(Ahead(b), "unstudied")
              /\ \A a \in Buckets : a \in Ahead(b) <=>
                   /\ a \in open
                   /\ \/ R(a) > R(b)
                      \/ R(a) = R(b) /\ BucketPlace[a] < BucketPlace[b]
  <2>1. Ahead(b) \in SUBSET Buckets
    OBVIOUS
  <2>3. \A a \in Buckets : a \in Ahead(b) <=>
                   /\ a \in open
                   /\ \/ R(a) > R(b)
                      \/ R(a) = R(b) /\ BucketPlace[a] < BucketPlace[b]
    BY <1>r
  <2> HIDE DEF Ahead
  <2> QED BY <2>1, <2>3, CountOfBuckets
<1>24. \A b \in open : extra(b) \in 0..1
  OBVIOUS
<1> HIDE DEF Ahead
<1>p. /\ BucketPlace["review"] = 1 /\ BucketPlace["learning"] = 2
      /\ BucketPlace["unstudied"] = 3
  BY DEF BucketPlace
<1>b. "review" \in Buckets /\ "learning" \in Buckets /\ "unstudied" \in Buckets
  BY DEF Buckets
<1>25. o = 1 => extra("review") =
                  Extra(o, Before(p, y, x, 0) + Before(q, z, x, 0), s)
  <2> SUFFICES ASSUME o = 1 PROVE Cardinality(Ahead("review")) =
                 Before(p, y, x, 0) + Before(q, z, x, 0)
    BY DEF Extra
  <2>1. In(Ahead("review"), "review") = 0
    <3>1. "review" \notin Ahead("review")
      BY <1>i, <1>23, <1>p, <1>8, <1>b
    <3> QED BY <3>1 DEF In
  <2>2. In(Ahead("review"), "learning") = Before(p, y, x, 0)
    <3>1. "learning" \in Ahead("review") <=> p = 1 /\ y > x
      BY <1>i, <1>8, <1>9, <1>23, <1>p, <1>b
    <3> QED BY <3>1 DEF In, Before
  <2>3. In(Ahead("review"), "unstudied") = Before(q, z, x, 0)
    <3>1. "unstudied" \in Ahead("review") <=> q = 1 /\ z > x
      BY <1>i, <1>8, <1>10, <1>23, <1>p, <1>b
    <3> QED BY <3>1 DEF In, Before
  <2>4. Before(p, y, x, 0) \in Nat /\ Before(q, z, x, 0) \in Nat
    BY DEF Before
  <2>5. Cardinality(Ahead("review")) = In(Ahead("review"), "review")
          + In(Ahead("review"), "learning") + In(Ahead("review"), "unstudied")
    BY <1>i, <1>23
  <2> QED BY <2>1, <2>2, <2>3, <2>4, <2>5
<1>26. p = 1 => extra("learning") =
                  Extra(p, Before(o, x, y, 1) + Before(q, z, y, 0), s)
  <2> SUFFICES ASSUME p = 1 PROVE Cardinality(Ahead("learning")) =
                 Before(o, x, y, 1) + Before(q, z, y, 0)
    BY DEF Extra
  <2>1. In(Ahead("learning"), "learning") = 0
    <3>1. "learning" \notin Ahead("learning")
      BY <1>i, <1>23, <1>p, <1>9, <1>b
    <3> QED BY <3>1 DEF In
  <2>2. In(Ahead("learning"), "review") = Before(o, x, y, 1)
    <3>1. "review" \in Ahead("learning") <=> o = 1 /\ (x > y \/ x = y)
      BY <1>i, <1>8, <1>9, <1>23, <1>p, <1>b
    <3> QED BY <3>1 DEF In, Before
  <2>3. In(Ahead("learning"), "unstudied") = Before(q, z, y, 0)
    <3>1. "unstudied" \in Ahead("learning") <=> q = 1 /\ z > y
      BY <1>i, <1>9, <1>10, <1>23, <1>p, <1>b
    <3> QED BY <3>1 DEF In, Before
  <2>4. Before(o, x, y, 1) \in Nat /\ Before(q, z, y, 0) \in Nat
    BY DEF Before
  <2>5. Cardinality(Ahead("learning")) = In(Ahead("learning"), "review")
          + In(Ahead("learning"), "learning")
          + In(Ahead("learning"), "unstudied")
    BY <1>i, <1>23
  <2> QED BY <2>1, <2>2, <2>3, <2>4, <2>5
<1>27. q = 1 => extra("unstudied") =
                  Extra(q, Before(o, x, z, 1) + Before(p, y, z, 1), s)
  <2> SUFFICES ASSUME q = 1 PROVE Cardinality(Ahead("unstudied")) =
                 Before(o, x, z, 1) + Before(p, y, z, 1)
    BY DEF Extra
  <2>1. In(Ahead("unstudied"), "unstudied") = 0
    <3>1. "unstudied" \notin Ahead("unstudied")
      BY <1>i, <1>23, <1>p, <1>10, <1>b
    <3> QED BY <3>1 DEF In
  <2>2. In(Ahead("unstudied"), "review") = Before(o, x, z, 1)
    <3>1. "review" \in Ahead("unstudied") <=> o = 1 /\ (x > z \/ x = z)
      BY <1>i, <1>8, <1>10, <1>23, <1>p, <1>b
    <3> QED BY <3>1 DEF In, Before
  <2>3. In(Ahead("unstudied"), "learning") = Before(p, y, z, 1)
    <3>1. "learning" \in Ahead("unstudied") <=> p = 1 /\ (y > z \/ y = z)
      BY <1>i, <1>9, <1>10, <1>23, <1>p, <1>b
    <3> QED BY <3>1 DEF In, Before
  <2>4. Before(o, x, z, 1) \in Nat /\ Before(p, y, z, 1) \in Nat
    BY DEF Before
  <2>5. Cardinality(Ahead("unstudied")) = In(Ahead("unstudied"), "review")
          + In(Ahead("unstudied"), "learning")
          + In(Ahead("unstudied"), "unstudied")
    BY <1>i, <1>23
  <2> QED BY <2>1, <2>2, <2>3, <2>4, <2>5
<1> HIDE DEF extra
<1>28. c \in [open -> Nat] /\ \A b \in open : c[b] = whole[b] + extra(b)
  BY <1>5, <1>22, <1>24
<1>29. Sum(c, open) = n
  <2>1. \A b \in open : c[b] \in Int
    BY <1>28
  <2>2. Sum(c, open) = Part(c, open, "review") + Part(c, open, "learning")
                         + Part(c, open, "unstudied")
    BY <2>1, SumOfBuckets
  <2>8. PICK i \in Nat :
          i = Extra(o, Before(p, y, x, 0) + Before(q, z, x, 0), s)
    BY DEF Extra
  <2>9. PICK j \in Nat :
          j = Extra(p, Before(o, x, y, 1) + Before(q, z, y, 0), s)
    BY DEF Extra
  <2>10. PICK k \in Nat :
           k = Extra(q, Before(o, x, z, 1) + Before(p, y, z, 1), s)
    BY DEF Extra
  <2>3. Part(c, open, "review") = u + i
    <3>1. CASE o = 1
      BY <3>1, <2>8, <1>q, <1>11, <1>i, <1>25, <1>28 DEF Part
    <3>2. CASE o = 0
      BY <3>2, <2>8, <1>q, <1>11, <1>i DEF Part, Extra
    <3> QED BY <3>1, <3>2
  <2>4. Part(c, open, "learning") = v + j
    <3>1. CASE p = 1
      BY <3>1, <2>9, <1>q, <1>12, <1>i, <1>26, <1>28 DEF Part
    <3>2. CASE p = 0
      BY <3>2, <2>9, <1>q, <1>12, <1>i DEF Part, Extra
    <3> QED BY <3>1, <3>2
  <2>5. Part(c, open, "unstudied") = w + k
    <3>1. CASE q = 1
      BY <3>1, <2>10, <1>q, <1>13, <1>i, <1>27, <1>28 DEF Part
    <3>2. CASE q = 0
      BY <3>2, <2>10, <1>q, <1>13, <1>i DEF Part, Extra
    <3> QED BY <3>1, <3>2
  <2>11. i + j + k = s
    BY <2>8, <2>9, <2>10, <1>20
  <2> QED BY <2>2, <2>3, <2>4, <2>5, <2>11, <1>14, <1>m
<1>30. ASSUME NEW b \in open
       PROVE  /\ n * BucketWeight[b] < (c[b] + 1) * t
              /\ (c[b] - 1) * t <= n * BucketWeight[b]
  <2>1. PICK e \in Nat : e = n * BucketWeight[b]
    BY <1>w
  <2>2. PICK f \in Nat : f = whole[b]
    BY <1>5
  <2>3. PICK h \in 0..t - 1 : h = rest[b]
    BY <1>5
  <2>4. PICK g \in 0..1 : g = extra(b)
    BY <1>24
  <2>5. e = f * t + h /\ c[b] = f + g
    BY <2>1, <2>2, <2>3, <2>4, <1>5, <1>28
  <2>6. (f + g + 1) * t = f * t + g * t + t /\ g * t >= 0
    BY <1>t
  <2>7. (f + g - 1) * t <= f * t
    BY <1>t
  <2>8. e < (f + g + 1) * t /\ (f + g - 1) * t <= e
    BY <2>5, <2>6, <2>7, <1>t
  <2> QED BY <2>1, <2>5, <2>8
<1> QED BY <1>28, <1>29, <1>30 DEF SharesFilled

\* A sum over a set is that over a part and over the rest.
LEMMA SumSplits ==
  ASSUME NEW T \in SUBSET Buckets, NEW U \in SUBSET T, NEW f,
         \A b \in T : f[b] \in Int
  PROVE  /\ Sum(f, T) = Sum(f, U) + Sum(f, T \ U)
         /\ Sum(f, T) \in Int /\ Sum(f, U) \in Int /\ Sum(f, T \ U) \in Int
<1>1. Sum(f, T) = Part(f, T, "review") + Part(f, T, "learning")
                    + Part(f, T, "unstudied")
  BY SumOfBuckets
<1>2. Sum(f, U) = Part(f, U, "review") + Part(f, U, "learning")
                    + Part(f, U, "unstudied")
  BY SumOfBuckets
<1>3. PICK V \in SUBSET Buckets : V = T \ U
  OBVIOUS
<1>4. Sum(f, V) = Part(f, V, "review") + Part(f, V, "learning")
                    + Part(f, V, "unstudied")
  BY <1>3, SumOfBuckets
<1>5. ASSUME NEW b
      PROVE  /\ Part(f, T, b) = Part(f, U, b) + Part(f, V, b)
             /\ Part(f, T, b) \in Int /\ Part(f, U, b) \in Int
             /\ Part(f, V, b) \in Int
  <2>1. CASE b \in U
    BY <2>1, <1>3 DEF Part
  <2>2. CASE b \in T /\ b \notin U
    BY <2>2, <1>3 DEF Part
  <2>3. CASE b \notin T
    BY <2>3, <1>3 DEF Part
  <2> QED BY <2>1, <2>2, <2>3
<1>6. Sum(f, T) = Sum(f, U) + Sum(f, V)
  BY <1>1, <1>2, <1>4, <1>5
<1>7. Sum(f, T) \in Int /\ Sum(f, U) \in Int /\ Sum(f, V) \in Int
  BY <1>1, <1>2, <1>4, <1>5
<1> QED BY <1>3, <1>6, <1>7

\* Shared places in the middle of allocateSessionBucketSlots: what is open does
\* not fit into what is left, and what is left is at least its weight.
Fits(counts, s) ==
  /\ s.open \in SUBSET Buckets /\ s.open # {} /\ s.left \in Nat
  /\ Sum(counts, Buckets \ s.open) + s.left = MaxItems
  /\ Sum(counts, s.open) > s.left
  /\ 100 * s.left >= MaxItems * Sum(BucketWeight, s.open)

\* The buckets TakeWhole takes: those their share has room for.
Small(counts, s) ==
  {b \in s.open :
     counts[b] * Sum(BucketWeight, s.open) <= s.left * BucketWeight[b]}

\* Taking a bucket whole leaves the others at least their weight.
LEMMA WeightLeft ==
  ASSUME NEW t \in Nat, NEW w \in Nat, NEW l \in Nat, NEW a \in Nat,
         NEW m \in Nat, t > 0, w <= t, a * t <= l * w, 100 * l >= m * t
  PROVE  /\ a <= l /\ (w = t => a = l \/ a < l)
         /\ 100 * (l - a) >= m * (t - w)
<1>1. l * w <= l * t
  OBVIOUS
<1>2. a <= l
  <2>1. a * t <= l * t
    <3>1. a * t \in Nat /\ l * w \in Nat /\ l * t \in Nat
      OBVIOUS
    <3> QED BY <3>1, <1>1
  <2>2. a > l => a * t > l * t
    OBVIOUS
  <2> QED BY <2>1, <2>2
<1>3. PICK k \in Nat : k = l - a
  BY <1>2
<1>4. PICK u \in Nat : u = t - w
  OBVIOUS
<1>5. k * t >= l * u
  <2>1. k * t = l * t - a * t /\ l * u = l * t - l * w
    BY <1>2, <1>3, <1>4
  <2>2. a * t \in Nat /\ l * w \in Nat /\ l * t \in Nat
    OBVIOUS
  <2> QED BY <2>1, <2>2
<1>6. 100 * k * t >= m * u * t
  <2>1. 100 * l * u >= m * t * u
    <3>1. PICK p \in Nat : p = 100 * l
      OBVIOUS
    <3>2. PICK q \in Nat : q = m * t
      OBVIOUS
    <3>3. p * u >= q * u
      BY <3>1, <3>2, <1>4
    <3> QED BY <3>1, <3>2, <3>3
  <2>2. m * t * u = m * u * t
    BY <1>4
  <2>3. 100 * k * t >= 100 * l * u
    <3>1. PICK p \in Nat : p = k * t
      BY <1>3
    <3>2. PICK q \in Nat : q = l * u
      BY <1>4
    <3>3. p >= q
      BY <1>5, <3>1, <3>2
    <3>4. 100 * p >= 100 * q
      BY <3>3
    <3> QED BY <3>1, <3>2, <3>4, <1>3, <1>4
  <2>4. 100 * k * t \in Nat /\ m * u * t \in Nat /\ 100 * l * u \in Nat
    BY <1>3, <1>4
  <2> QED BY <2>1, <2>2, <2>3, <2>4
<1>7. 100 * k >= m * u
  <2>1. PICK p \in Nat : p = 100 * k
    BY <1>3
  <2>2. PICK q \in Nat : q = m * u
    BY <1>4
  <2>3. p * t >= q * t
    BY <1>6, <2>1, <2>2
  <2>4. p < q => p * t < q * t
    OBVIOUS
  <2> QED BY <2>1, <2>2, <2>3, <2>4
<1> QED BY <1>2, <1>3, <1>4, <1>7

\* Taking whole what is small keeps that.
LEMMA TakenWhole ==
  ASSUME NEW counts \in [Buckets -> Nat], NEW s, Fits(counts, s),
         NEW z, z = TakeWhole(counts, s)
  PROVE  /\ Fits(counts, z) /\ z.open = s.open \ Small(counts, s)
         /\ Small(counts, s) = {} => z.left = s.left
<1>1. PICK O \in SUBSET Buckets : O = s.open
  BY DEF Fits
<1>2. PICK l \in Nat : l = s.left
  BY DEF Fits
<1>3. PICK t : t = Sum(BucketWeight, O)
  OBVIOUS
<1>4. PICK K \in SUBSET O : K = Small(counts, s)
  BY <1>1 DEF Small
<1>5. PICK P \in SUBSET Buckets : P = O \ K
  OBVIOUS
<1>6. PICK a : a = Sum(counts, K)
  OBVIOUS
<1>7. z.open = P /\ z.left = l - a
  BY <1>1, <1>2, <1>3, <1>4, <1>5, <1>6 DEF TakeWhole, Small
<1>8. /\ \A b \in Buckets : BucketWeight[b] \in Nat /\ counts[b] \in Nat
      /\ \A b : Part(BucketWeight, K, b) \in Nat /\ Part(counts, K, b) \in Nat
  <2>1. \A b \in Buckets : BucketWeight[b] \in Nat
    BY DEF BucketWeight, Buckets
  <2> QED BY <2>1 DEF Part
<1>9. PICK w : w = Sum(BucketWeight, K)
  OBVIOUS
<1>10. t \in Nat /\ t > 0
  <2>1. O # {}
    BY <1>1 DEF Fits
  <2> QED BY <2>1, <1>3, WeightOfBuckets
<1>11. w \in Nat
  BY <1>9, WeightOfBuckets
<1>12. t = w + Sum(BucketWeight, P) /\ Sum(BucketWeight, P) \in Nat
  <2>1. t = w + Sum(BucketWeight, P)
    BY <1>3, <1>5, <1>8, <1>9, SumSplits
  <2> QED BY <2>1, WeightOfBuckets
<1>13. a = Part(counts, K, "review") + Part(counts, K, "learning")
             + Part(counts, K, "unstudied")
  BY <1>6, <1>8, SumOfBuckets
<1>14. w = Part(BucketWeight, K, "review") + Part(BucketWeight, K, "learning")
             + Part(BucketWeight, K, "unstudied")
  BY <1>8, <1>9, SumOfBuckets
<1>15. \A b : Part(counts, K, b) * t <= l * Part(BucketWeight, K, b)
  <2> SUFFICES ASSUME NEW b
               PROVE  Part(counts, K, b) * t <= l * Part(BucketWeight, K, b)
    OBVIOUS
  <2>1. CASE b \in K
    <3>1. counts[b] * t <= l * BucketWeight[b]
      BY <2>1, <1>1, <1>2, <1>3, <1>4 DEF Small
    <3> QED BY <2>1, <3>1 DEF Part
  <2>2. CASE b \notin K
    BY <2>2, <1>10 DEF Part
  <2> QED BY <2>1, <2>2
<1>16. a \in Nat /\ a * t <= l * w
  <2>1. PICK p \in Nat : p = Part(counts, K, "review")
    BY <1>8
  <2>2. PICK q \in Nat : q = Part(counts, K, "learning")
    BY <1>8
  <2>3. PICK u \in Nat : u = Part(counts, K, "unstudied")
    BY <1>8
  <2>4. PICK i \in Nat : i = Part(BucketWeight, K, "review")
    BY <1>8
  <2>5. PICK j \in Nat : j = Part(BucketWeight, K, "learning")
    BY <1>8
  <2>6. PICK k \in Nat : k = Part(BucketWeight, K, "unstudied")
    BY <1>8
  <2>7. p * t <= l * i /\ q * t <= l * j /\ u * t <= l * k
    BY <2>1, <2>2, <2>3, <2>4, <2>5, <2>6, <1>15
  <2>8. a = p + q + u /\ w = i + j + k
    BY <2>1, <2>2, <2>3, <2>4, <2>5, <2>6, <1>13, <1>14
  <2>9. a * t = p * t + q * t + u * t /\ l * w = l * i + l * j + l * k
    BY <2>8, <1>10
  <2>10. /\ p * t \in Nat /\ q * t \in Nat /\ u * t \in Nat
         /\ l * i \in Nat /\ l * j \in Nat /\ l * k \in Nat
    BY <1>10
  <2> QED BY <2>7, <2>8, <2>9, <2>10
<1>17. 100 * l >= MaxItems * t
  BY <1>1, <1>2, <1>3 DEF Fits
<1>18. MaxItems \in Nat
  BY AdmissionAssumption
<1>19. a <= l /\ 100 * (l - a) >= MaxItems * (t - w)
  <2>1. w <= t
    BY <1>10, <1>11, <1>12
  <2> QED BY <2>1, <1>10, <1>11, <1>16, <1>17, <1>18, WeightLeft
<1>20. Sum(counts, O) = a + Sum(counts, P) /\ Sum(counts, P) \in Int
       /\ Sum(counts, O) \in Int
  BY <1>5, <1>6, <1>8, SumSplits
<1>21. Sum(counts, O) > l
  BY <1>1, <1>2 DEF Fits
<1>22. Sum(counts, P) > l - a
  BY <1>16, <1>20, <1>21
<1>23. P # {}
  <2>1. ASSUME P = {} PROVE FALSE
    <3>1. Sum(counts, P) = 0
      <4>1. Sum(counts, P) = Part(counts, P, "review")
              + Part(counts, P, "learning") + Part(counts, P, "unstudied")
        BY <1>8, SumOfBuckets
      <4> QED BY <4>1, <2>1 DEF Part
    <3> QED BY <3>1, <1>16, <1>19, <1>22
  <2> QED BY <2>1
<1>24. Sum(counts, Buckets \ P) + (l - a) = MaxItems
  <2>1. PICK V \in SUBSET Buckets : V = Buckets \ P
    OBVIOUS
  <2>2. Sum(counts, V) = Sum(counts, K) + Sum(counts, V \ K)
        /\ Sum(counts, V \ K) \in Int
    <3>1. K \in SUBSET V
      BY <2>1, <1>5
    <3>2. \A b \in V : counts[b] \in Int
      BY <1>8
    <3> QED BY <3>1, <3>2, SumSplits
  <2>3. V \ K = Buckets \ O
    BY <2>1, <1>5
  <2>4. Sum(counts, Buckets \ O) + l = MaxItems
    BY <1>1, <1>2 DEF Fits
  <2>5. Sum(counts, V) = a + Sum(counts, Buckets \ O)
        /\ Sum(counts, Buckets \ O) \in Int
    BY <2>2, <2>3, <1>6
  <2> QED BY <2>1, <2>4, <2>5, <1>16
<1>25. l - a \in Nat
  BY <1>16, <1>19
<1>26. 100 * (l - a) >= MaxItems * Sum(BucketWeight, P)
  BY <1>10, <1>11, <1>12, <1>19
<1>27. Fits(counts, z)
  BY <1>7, <1>22, <1>23, <1>24, <1>25, <1>26 DEF Fits
<1>28. Small(counts, s) = {} => a = 0
  <2>1. Small(counts, s) = {} => \A b : Part(counts, K, b) = 0
    BY <1>4 DEF Part
  <2> QED BY <2>1, <1>13
<1> QED BY <1>1, <1>2, <1>4, <1>5, <1>7, <1>27, <1>28

\* After two rounds no bucket is small: one of three that do not fit is left.
LEMMA NoneSmall ==
  ASSUME NEW counts \in [Buckets -> Nat], NEW s, Fits(counts, s),
         NEW y, y = TakeWhole(counts, s), NEW z, z = TakeWhole(counts, y)
  PROVE  Fits(counts, z) /\ Small(counts, z) = {}
<1>1. /\ Fits(counts, y) /\ y.open = s.open \ Small(counts, s)
      /\ Small(counts, s) = {} => y.left = s.left
  BY TakenWhole
<1>2. /\ Fits(counts, z) /\ z.open = y.open \ Small(counts, y)
      /\ Small(counts, y) = {} => z.left = y.left
  BY <1>1, TakenWhole
<1>3. CASE Small(counts, y) = {}
  <2>1. z.open = y.open /\ z.left = y.left
    BY <1>2, <1>3
  <2>2. Small(counts, z) = Small(counts, y)
    BY <2>1 DEF Small
  <2> QED BY <1>2, <1>3, <2>2
<1>4. CASE Small(counts, s) = {}
  <2>1. y.open = s.open /\ y.left = s.left
    BY <1>1, <1>4
  <2>2. Small(counts, y) = Small(counts, s)
    BY <2>1 DEF Small
  <2> QED BY <1>3, <1>4, <2>2
<1>5. CASE Small(counts, s) # {} /\ Small(counts, y) # {}
  <2>1. PICK a : a \in Small(counts, s)
    BY <1>5
  <2>2. PICK b : b \in Small(counts, y)
    BY <1>5
  <2>3. s.open \in SUBSET Buckets /\ z.open # {}
    BY <1>2 DEF Fits
  <2>4. a \in s.open /\ b \in y.open
    BY <2>1, <2>2 DEF Small
  <2>5. /\ a \in Buckets /\ b \in Buckets /\ a # b
        /\ z.open \subseteq Buckets \ {a, b}
    BY <1>1, <1>2, <2>1, <2>2, <2>3, <2>4
  <2>6. PICK d : d \in z.open
    BY <2>3
  <2>7. z.open = {d} /\ d \in Buckets
    BY <2>5, <2>6 DEF Buckets
  <2>8. BucketWeight[d] \in Nat /\ BucketWeight[d] > 0 /\ counts[d] \in Nat
    BY <2>7 DEF BucketWeight, Buckets
  <2>9. Sum(counts, z.open) = counts[d]
        /\ Sum(BucketWeight, z.open) = BucketWeight[d]
    <3>1. PICK T : T = {d}
      OBVIOUS
    <3>2. IsFiniteSet(T) /\ d \in T /\ \A x \in T : x = d
      BY <3>1, FS_Singleton
    <3> QED BY <2>7, <2>8, <3>1, <3>2, SumOfOne
  <2>10. counts[d] > z.left /\ z.left \in Nat
    BY <1>2, <2>9 DEF Fits
  <2>11. counts[d] * BucketWeight[d] > z.left * BucketWeight[d]
    BY <2>8, <2>10
  <2>12. \A x \in z.open : ~(counts[x] * Sum(BucketWeight, z.open)
                               <= z.left * BucketWeight[x])
    <3>1. PICK p \in Nat : p = counts[d] * BucketWeight[d]
      BY <2>8
    <3>2. PICK q \in Nat : q = z.left * BucketWeight[d]
      BY <2>8, <2>10
    <3>3. ~(p <= q)
      BY <2>11, <3>1, <3>2
    <3> QED BY <2>7, <2>9, <3>1, <3>2, <3>3
  <2> QED BY <1>2, <2>12 DEF Small
<1> QED BY <1>3, <1>4, <1>5

\* The share of a bucket that is not small is within its count, and its weight.
LEMMA PlacesEnough ==
  ASSUME NEW t \in Nat, t > 0, NEW w \in Nat, NEW l \in Nat, NEW k \in Nat,
         NEW c \in Nat, NEW m \in Nat,
         k * t > l * w, l * w < (c + 1) * t, (c - 1) * t <= l * w,
         100 * l >= m * t
  PROVE  c <= k /\ 100 * (c + 1) > m * w
<1>1. PICK p \in Nat : p = l * w
  OBVIOUS
<1>2. c <= k
  <2>1. c > k => (c - 1) * t >= k * t
    OBVIOUS
  <2>2. (c - 1) * t \in Int /\ k * t \in Int
    OBVIOUS
  <2> QED BY <2>1, <2>2, <1>1
<1>3. PICK d \in Nat : d = c + 1
  OBVIOUS
<1>4. m * w * t < 100 * d * t
  <2>1. m * t * w <= 100 * l * w
    <3>1. PICK a \in Nat : a = m * t
      OBVIOUS
    <3>2. PICK b \in Nat : b = 100 * l
      OBVIOUS
    <3>3. a * w <= b * w
      BY <3>1, <3>2
    <3> QED BY <3>1, <3>2, <3>3
  <2>2. 100 * (l * w) < 100 * (d * t)
    <3>1. PICK q \in Nat : q = d * t
      BY <1>3
    <3>2. p < q
      BY <1>1, <1>3, <3>1
    <3> QED BY <3>1, <3>2, <1>1
  <2>3. 100 * (l * w) = 100 * l * w /\ 100 * (d * t) = 100 * d * t
        /\ m * t * w = m * w * t
    BY <1>3
  <2>4. 100 * l * w \in Nat /\ 100 * d * t \in Nat /\ m * w * t \in Nat
    BY <1>3
  <2> QED BY <2>1, <2>2, <2>3, <2>4
<1>5. 100 * d > m * w
  <2>1. PICK a \in Nat : a = m * w
    OBVIOUS
  <2>2. PICK b \in Nat : b = 100 * d
    BY <1>3
  <2>3. a * t < b * t
    BY <1>4, <2>1, <2>2
  <2>4. a >= b => a * t >= b * t
    OBVIOUS
  <2> QED BY <2>1, <2>2, <2>3, <2>4
<1> QED BY <1>2, <1>3, <1>5

\* What allocateSessionBucketSlots promises: every place is used, no bucket
\* gets more than it has, and none is cut below its weight.
Allotted(slots, counts) ==
  /\ slots \in [Buckets -> Nat]
  /\ Sum(slots, Buckets) = Least(MaxItems, Sum(counts, Buckets))
  /\ \A b \in Buckets :
       /\ slots[b] <= counts[b]
       /\ slots[b] < counts[b] =>
            100 * (slots[b] + 1) > MaxItems * BucketWeight[b]

\* And Slots keeps that promise.
LEMMA SlotsAllot ==
  ASSUME NEW counts \in [Buckets -> Nat], NEW slots, slots = Slots(counts)
  PROVE  Allotted(slots, counts)
<1>1. Sum(counts, Buckets) \in Nat /\ MaxItems \in Nat
  <2>1. Sum(counts, Buckets) = Part(counts, Buckets, "review")
          + Part(counts, Buckets, "learning") + Part(counts, Buckets, "unstudied")
    BY SumOfBuckets
  <2>2. \A b : Part(counts, Buckets, b) \in Nat
    BY DEF Part
  <2> QED BY <2>1, <2>2, AdmissionAssumption
<1>2. CASE Sum(counts, Buckets) <= MaxItems
  BY <1>1, <1>2 DEF Slots, Allotted, Least
<1>3. CASE Sum(counts, Buckets) > MaxItems
  <2>1. PICK s : s = [ open |-> {b \in Buckets : counts[b] > 0},
                       left |-> MaxItems ]
    OBVIOUS
  <2>2. PICK y : y = TakeWhole(counts, s)
    OBVIOUS
  <2>3. PICK z : z = TakeWhole(counts, y)
    OBVIOUS
  <2>4. slots = Cut(counts, z)
    BY <1>1, <1>3, <2>1, <2>2, <2>3 DEF Slots
  <2>5. Fits(counts, s)
    <3>1. PICK O \in SUBSET Buckets : O = {b \in Buckets : counts[b] > 0}
      OBVIOUS
    <3>2. s.open = O /\ s.left = MaxItems
      BY <2>1, <3>1
    <3>3. PICK V \in SUBSET Buckets : V = Buckets \ O
      OBVIOUS
    <3>4. Sum(counts, V) = 0
      <4>1. Sum(counts, V) = Part(counts, V, "review")
              + Part(counts, V, "learning") + Part(counts, V, "unstudied")
        BY SumOfBuckets
      <4>2. \A b : Part(counts, V, b) = 0
        BY <3>1, <3>3 DEF Part
      <4> QED BY <4>1, <4>2
    <3>5. Sum(counts, Buckets) = Sum(counts, O) + Sum(counts, V)
          /\ Sum(counts, O) \in Int
      <4>1. Buckets \in SUBSET Buckets /\ \A b \in Buckets : counts[b] \in Int
        OBVIOUS
      <4>2. /\ Sum(counts, Buckets) = Sum(counts, O) + Sum(counts, Buckets \ O)
            /\ Sum(counts, O) \in Int
        BY <4>1, SumSplits
      <4> QED BY <4>2, <3>3
    <3>6. Sum(counts, O) > MaxItems
      BY <1>1, <1>3, <3>4, <3>5
    <3>7. O # {}
      <4>1. ASSUME O = {} PROVE FALSE
        <5>1. Sum(counts, O) = Part(counts, O, "review")
              + Part(counts, O, "learning") + Part(counts, O, "unstudied")
          BY SumOfBuckets
        <5> QED BY <4>1, <5>1, <3>6, <1>1 DEF Part
      <4> QED BY <4>1
    <3>8. 100 * MaxItems >= MaxItems * Sum(BucketWeight, O)
      <4>1. PICK t \in 0..100 : t = Sum(BucketWeight, O)
        BY WeightOfBuckets
      <4> QED BY <4>1, <1>1
    <3> QED BY <1>1, <3>2, <3>3, <3>4, <3>6, <3>7, <3>8 DEF Fits
  <2>6. Fits(counts, z) /\ Small(counts, z) = {}
    BY <2>2, <2>3, <2>5, NoneSmall
  <2>7. PICK O \in SUBSET Buckets : O = z.open /\ O # {}
    BY <2>6 DEF Fits
  <2>8. PICK l \in Nat : l = z.left
    BY <2>6 DEF Fits
  <2>9. PICK t \in Nat : t = Sum(BucketWeight, O) /\ t > 0
    BY <2>7, WeightOfBuckets
  <2>10. PICK c : c = Shares(l, BucketWeight, t, O, BucketPlace)
    OBVIOUS
  <2>11. SharesFilled(c, l, t, O)
    BY <2>7, <2>9, <2>10, SharesFill
  <2>12. slots = [b \in Buckets |-> IF b \in O THEN c[b] ELSE counts[b]]
    BY <2>4, <2>7, <2>8, <2>9, <2>10 DEF Cut
  <2>13. slots \in [Buckets -> Nat]
    BY <2>11, <2>12 DEF SharesFilled
  <2>14. Sum(slots, Buckets) = MaxItems
    <3>1. PICK V \in SUBSET Buckets : V = Buckets \ O
      OBVIOUS
    <3>2. Sum(slots, Buckets) = Sum(slots, O) + Sum(slots, V)
          /\ Sum(slots, V) \in Int
      <4>1. Buckets \in SUBSET Buckets /\ \A b \in Buckets : slots[b] \in Int
        BY <2>13
      <4>2. /\ Sum(slots, Buckets) = Sum(slots, O) + Sum(slots, Buckets \ O)
            /\ Sum(slots, Buckets \ O) \in Int
        BY <4>1, SumSplits
      <4> QED BY <4>2, <3>1
    <3>3. Sum(slots, O) = Sum(c, O)
      <4>1. Sum(slots, O) = Part(slots, O, "review")
              + Part(slots, O, "learning") + Part(slots, O, "unstudied")
        BY <2>13, SumOfBuckets
      <4>2. Sum(c, O) = Part(c, O, "review")
              + Part(c, O, "learning") + Part(c, O, "unstudied")
        BY <2>11, SumOfBuckets DEF SharesFilled
      <4>3. \A b : Part(slots, O, b) = Part(c, O, b)
        BY <2>12 DEF Part
      <4> QED BY <4>1, <4>2, <4>3
    <3>4. Sum(slots, V) = Sum(counts, V)
      <4>1. Sum(slots, V) = Part(slots, V, "review")
              + Part(slots, V, "learning") + Part(slots, V, "unstudied")
        BY <2>13, SumOfBuckets
      <4>2. Sum(counts, V) = Part(counts, V, "review")
              + Part(counts, V, "learning") + Part(counts, V, "unstudied")
        BY SumOfBuckets
      <4>3. \A b : Part(slots, V, b) = Part(counts, V, b)
        BY <2>12, <3>1 DEF Part
      <4> QED BY <4>1, <4>2, <4>3
    <3>5. Sum(c, O) = l
      BY <2>11 DEF SharesFilled
    <3>6. Sum(counts, V) + l = MaxItems
      BY <2>6, <2>7, <2>8, <3>1 DEF Fits
    <3> QED BY <3>2, <3>3, <3>4, <3>5, <3>6
  <2>15. Least(MaxItems, Sum(counts, Buckets)) = MaxItems
    BY <1>1, <1>3 DEF Least
  <2>16. ASSUME NEW b \in Buckets
         PROVE  /\ slots[b] <= counts[b]
                /\ slots[b] < counts[b] =>
                     100 * (slots[b] + 1) > MaxItems * BucketWeight[b]
    <3>1. CASE b \in O
      <4>1. PICK k \in Nat : k = counts[b]
        OBVIOUS
      <4>2. PICK e \in Nat : e = c[b]
        BY <2>11, <3>1 DEF SharesFilled
      <4>3. PICK w \in Nat : w = BucketWeight[b]
        BY DEF BucketWeight, Buckets
      <4>4. l * w < (e + 1) * t /\ (e - 1) * t <= l * w
        BY <2>11, <3>1, <4>2, <4>3 DEF SharesFilled
      <4>5. k * t > l * w
        <5>1. ~(k * t <= l * w)
          BY <2>6, <2>7, <2>8, <2>9, <3>1, <4>1, <4>3 DEF Small
        <5>2. k * t \in Nat /\ l * w \in Nat
          OBVIOUS
        <5> QED BY <5>1, <5>2
      <4>6. 100 * l >= MaxItems * t
        BY <2>6, <2>7, <2>8, <2>9 DEF Fits
      <4>7. e <= k /\ 100 * (e + 1) > MaxItems * w
        BY <1>1, <2>9, <4>4, <4>5, <4>6, PlacesEnough
      <4> QED BY <2>12, <3>1, <4>1, <4>2, <4>3, <4>7
    <3>2. CASE b \notin O
      BY <3>2, <2>12
    <3> QED BY <3>1, <3>2
  <2> QED BY <2>13, <2>14, <2>15, <2>16 DEF Allotted
<1> QED BY <1>1, <1>2, <1>3

\* The plans for a session are allotted by it.
LEMMA PlansAllot ==
  ASSUME NEW offered \in SUBSET Words, studied \in SUBSET Words,
         NEW p \in Plans(offered)
  PROVE  Allotted(p.slots, p.counts)
<1>1. PICK load \in Loads, learning \in 0..Cardinality(studied) :
         p = Planned(offered, load.due, learning, load.cues)
  BY DEF Plans
<1>2. PICK due \in Nat : due = load.due
  BY <1>1, ReserveAssumption
<1>3. PICK cues \in Nat : cues = load.cues
  BY <1>1, ReserveAssumption
<1>4. learning \in Nat
  <2>1. Cardinality(studied) \in Nat
    BY AdmissionAssumption, FS_Subset, FS_CardinalityType
  <2> QED BY <1>1, <2>1
<1>5. PICK new \in Nat : new = Cardinality(offered)
  BY AdmissionAssumption, FS_Subset, FS_CardinalityType
<1>6. PICK first \in [Buckets -> Nat] :
        first = [review |-> due, learning |-> learning, unstudied |-> new]
  <2>1. PICK f : f = [review |-> due, learning |-> learning, unstudied |-> new]
    OBVIOUS
  <2>2. /\ DOMAIN f = {"review", "learning", "unstudied"}
        /\ f["review"] = due /\ f["learning"] = learning
        /\ f["unstudied"] = new /\ f = [x \in DOMAIN f |-> f[x]]
    BY <2>1
  <2>3. \A b \in Buckets : f[b] \in Nat
    BY <2>2, <1>4 DEF Buckets
  <2>4. f \in [Buckets -> Nat]
    BY <2>2, <2>3 DEF Buckets
  <2> QED BY <2>1, <2>4
<1>7. PICK slots : slots = Slots(first)
  OBVIOUS
<1>8. slots \in [Buckets -> Nat]
  BY <1>6, <1>7, SlotsAllot DEF Allotted
<1>9. PICK counts : counts = [slots EXCEPT !.review = @ + cues]
  OBVIOUS
<1>10. counts \in [Buckets -> Nat]
  <2>1. slots.review \in Nat
    BY <1>8 DEF Buckets
  <2> QED BY <1>8, <1>9, <2>1
<1>11. p = [counts |-> counts, slots |-> Slots(counts)]
  BY <1>1, <1>2, <1>3, <1>5, <1>6, <1>7, <1>9 DEF Planned
<1> QED BY <1>10, <1>11, SlotsAllot

-----------------------------------------------------------------------------
(* Plans.                                                                  *)

\* What a plan has of the decks and the fallback: nothing where the stash takes
\* every place.
DietPart(r, order) ==
  IF DietDemand(r) > 0 THEN DietPlan(r, order)
  ELSE [drawn |-> <<>>, planned |-> {}]

\* What the two sides of a plan come to: the words drawn from the stash (D) and
\* from the decks (E), and those their places are planned for (P and Q).
Sides(p, r, P, D, Q, E) ==
  /\ p.new \in Seq(Words) /\ Range(p.new) = D \cup E
  /\ p.asked = (P \cup Q) \ r.ready
  /\ P \in SUBSET r.stash /\ D \in SUBSET (r.stash \cap r.ready)
  /\ Cardinality(P) = Least(Share(r), Cardinality(r.stash))
  /\ Cardinality(D) = Least(Share(r), Cardinality(r.stash \cap r.ready))
  /\ P \cap r.ready \subseteq D
  /\ Q \in SUBSET r.diet /\ E \in SUBSET (r.diet \cap r.ready)
  /\ Cardinality(E) <= DietDemand(r)
  /\ Q \cap r.ready \subseteq E
  /\ Cardinality(Q) >= Least(DietDemand(r), Cardinality(r.diet))
  /\ r.ready = Words => Q = E

\* What a plan draws and asks for.
LEMMA PlanSides ==
  ASSUME NEW r, Asks(r), NEW order, Lists(order, Words),
         NEW p, p = Plan(r, order),
         NEW P, P = Range(StashPlanned(r, order)),
         NEW D, D = Range(StashDrawn(r, order)),
         NEW Q, Q = DietPart(r, order).planned,
         NEW E, E = Range(DietPart(r, order).drawn)
  PROVE  Sides(p, r, P, D, Q, E)
<1>1. PICK z : z = DietPart(r, order)
  OBVIOUS
<1>2. /\ z.drawn \in Seq(Words) /\ E \in SUBSET (r.diet \cap r.ready)
      /\ Cardinality(E) <= DietDemand(r)
      /\ Q \in SUBSET r.diet /\ Q \cap r.ready \subseteq E
      /\ Cardinality(Q) >= Least(DietDemand(r), Cardinality(r.diet))
      /\ r.ready = Words => Q = E
  <2>1. CASE DietDemand(r) > 0
    <3>1. PICK a, k : Split(r.weights, a, k)
      BY DietSplits
    <3>2. PICK g : g = Given(r, Target(r))
      OBVIOUS
    <3>3. DietDealt(DietPlan(r, order), r, g)
      BY <2>1, <3>1, <3>2, DietDeals
    <3>4. z = DietPlan(r, order)
      BY <1>1, <2>1 DEF DietPart
    <3> QED BY <1>1, <3>3, <3>4 DEF DietDealt
  <2>2. CASE ~(DietDemand(r) > 0)
    <3>1. z = [drawn |-> <<>>, planned |-> {}]
      BY <1>1, <2>2 DEF DietPart
    <3>2. DietDemand(r) = 0
      BY <2>2, DemandBounds, ShareBounds
    <3>3. Q = {} /\ E = {} /\ z.drawn = <<>>
      BY <1>1, <3>1 DEF Range
    <3>4. Cardinality({}) = 0
      BY FS_EmptySet
    <3>5. Cardinality(r.diet) \in Nat
      BY DemandBounds
    <3> QED BY <3>2, <3>3, <3>4, <3>5 DEF Least
  <2> QED BY <2>1, <2>2
<1>3. /\ P \in SUBSET r.stash /\ D \in SUBSET (r.stash \cap r.ready)
      /\ Cardinality(P) = Least(Share(r), Cardinality(r.stash))
      /\ Cardinality(D) = Least(Share(r), Cardinality(r.stash \cap r.ready))
      /\ P \cap r.ready \subseteq D
      /\ StashDrawn(r, order) \in Seq(Words)
  <2>1. Range(StashPlanned(r, order)) = P /\ Range(StashDrawn(r, order)) = D
    OBVIOUS
  <2> QED BY <2>1, StashCounts
<1>4. p = [new |-> StashDrawn(r, order) \o z.drawn,
           asked |-> (P \cup z.planned) \ r.ready]
  BY <1>1 DEF Plan, Beside, DietPart
<1>5. PICK d \in Seq(Words) : d = StashDrawn(r, order)
  BY <1>3
<1>6. PICK e \in Seq(Words) : e = z.drawn
  BY <1>2
<1>7. d \o e \in Seq(Words) /\ Range(d \o e) = Range(d) \cup Range(e)
  BY ConcatProperties, RangeConcatenation
<1> QED BY <1>1, <1>2, <1>3, <1>4, <1>5, <1>6, <1>7 DEF Sides

-----------------------------------------------------------------------------
(* The types of the state.                                                 *)

\* A session's record in each status.
SessionRecords ==
  [status : {"none", "closed"}]
    \cup [status : {"open"}, new : SUBSET Words, mine : SUBSET Words]

\* What every state of the reserve is: a word of the stash or a dismissed one
\* is the learner's, the tops are words, each once, and the diet's quanta are in
\* one deck or in two neighbours.
Types ==
  /\ unstudied \in SUBSET Words /\ studied \in SUBSET Words
  /\ stash \in SUBSET (unstudied \cup studied)
  /\ dismissed \in SUBSET (unstudied \cup studied)
  /\ tops \in Seq(Words) /\ IsInjective(tops)
  /\ \E weights : Dieted(weights) /\
       settings \in [limit : Nat, source : {"mixed", "stash_only"},
                     weights : {weights}]
  /\ prep \in [Words -> {"none", "queued", "ready", "paused"}]
  /\ reserve \in SUBSET Words /\ taught \in Nat
  /\ sessions \in [1..MaxStarts -> SessionRecords]
  /\ settled \in BOOLEAN

\* A diet of one deck.
LEMMA OnlyDeckDiets ==
  ASSUME NEW d \in 1..Decks
  PROVE  Dieted(OnlyDeck(d))
<1>1. Quanta \in Nat /\ Quanta > 0
  BY AdmissionAssumption
<1>2. OnlyDeck(d) = [e \in 1..Decks |-> IF e = d THEN Quanta - 0
                                        ELSE IF e = d + 1 THEN 0 ELSE 0]
  BY <1>1 DEF OnlyDeck
<1>3. OnlyDeck(d) \in [1..Decks -> 0..Quanta]
  BY <1>1 DEF OnlyDeck
<1>4. 0 \in 0..Quanta - 1
  BY <1>1
<1> QED BY <1>2, <1>3, <1>4 DEF Dieted

\* A nudge moves a quantum between neighbours, or the diet as a whole.
LEMMA NudgeDiets ==
  ASSUME NEW weights, Dieted(weights), NEW direction \in {"harder", "easier"}
  PROVE  Dieted(Nudged(weights, direction))
<1>1. PICK N \in Nat : N = Decks
  BY AdmissionAssumption
<1>2. PICK Q \in Nat : Q = Quanta /\ Q > 0
  BY AdmissionAssumption
<1>3. PICK a \in 1..N, k \in 0..Q - 1 :
        /\ k > 0 => a < N
        /\ weights = [d \in 1..N |-> IF d = a THEN Q - k
                                     ELSE IF d = a + 1 THEN k ELSE 0]
  <2>1. PICK a \in 1..Decks, k \in 0..Quanta - 1 :
          /\ k > 0 => a < Decks
          /\ weights = [d \in 1..Decks |-> IF d = a THEN Quanta - k
                                           ELSE IF d = a + 1 THEN k ELSE 0]
    BY DEF Dieted
  <2> QED BY <2>1, <1>1, <1>2, Zenon
<1>4. PICK M : M = {d \in 1..N : weights[d] > 0}
  OBVIOUS
<1>5. M = IF k > 0 THEN {a, a + 1} ELSE {a}
  BY <1>1, <1>2, <1>3, <1>4
<1>6. Min(M) = a
  <2>1. a \in M /\ \A d \in M : d \in Nat /\ a <= d
    BY <1>3, <1>5
  <2>2. PICK x : x = Min(M)
    OBVIOUS
  <2>3. x \in M /\ \A d \in M : x <= d
    BY <2>1, <2>2 DEF Min
  <2> QED BY <2>1, <2>2, <2>3
<1>7. PICK b : b = IF k > 0 THEN a + 1 ELSE a
  OBVIOUS
<1>8. Max(M) = b
  <2>1. b \in M /\ \A d \in M : d \in Nat /\ d <= b
    BY <1>3, <1>5, <1>7
  <2>2. PICK x : x = Max(M)
    OBVIOUS
  <2>3. x \in M /\ \A d \in M : x >= d
    BY <2>1, <2>2 DEF Max
  <2> QED BY <2>1, <2>2, <2>3
<1>9. PICK from : from = IF direction = "harder" THEN a ELSE b
  OBVIOUS
<1>10. PICK to : to = IF direction = "harder" THEN a + 1 ELSE b - 1
  OBVIOUS
<1>11. Nudged(weights, direction) =
         IF to \notin 1..N THEN weights
         ELSE [weights EXCEPT ![from] = @ - 1, ![to] = @ + 1]
  <2>1. from = IF direction = "harder" THEN Min(M) ELSE Max(M)
    BY <1>6, <1>8, <1>9
  <2>2. to = IF direction = "harder" THEN from + 1 ELSE from - 1
    BY <1>9, <1>10
  <2> QED BY <2>1, <2>2, <1>1, <1>4 DEF Nudged
<1>12. CASE to \notin 1..N
  BY <1>11, <1>12
<1>13. CASE to \in 1..N
  <2>1. PICK moved : moved = [weights EXCEPT ![from] = @ - 1, ![to] = @ + 1]
    OBVIOUS
  <2>2. from \in 1..N /\ from # to
    BY <1>3, <1>7, <1>9, <1>10
  <2>3. moved = [d \in 1..N |-> IF d = from THEN weights[d] - 1
                                ELSE IF d = to THEN weights[d] + 1
                                ELSE weights[d]]
    BY <2>1, <2>2, <1>3, <1>13
  <2>4. \E c \in 1..N, j \in 0..Q - 1 :
          /\ j > 0 => c < N
          /\ moved = [d \in 1..N |-> IF d = c THEN Q - j
                                     ELSE IF d = c + 1 THEN j ELSE 0]
    <3>1. CASE direction = "harder" /\ k + 1 < Q
      <4>1. moved = [d \in 1..N |-> IF d = a THEN Q - (k + 1)
                                     ELSE IF d = a + 1 THEN k + 1 ELSE 0]
        BY <3>1, <2>3, <1>2, <1>3, <1>9, <1>10
      <4>2. a \in 1..N /\ k + 1 \in 0..Q - 1 /\ a < N
        BY <3>1, <1>1, <1>2, <1>3, <1>10, <1>13
      <4> QED BY <4>1, <4>2
    <3>2. CASE direction = "harder" /\ k + 1 = Q
      <4>3. PICK c \in 1..N : c = a + 1
        BY <3>2, <1>10, <1>13
      <4>4. PICK j \in 0..Q - 1 : j = 0
        BY <1>2
      <4>1. moved = [d \in 1..N |-> IF d = c THEN Q - j
                                     ELSE IF d = c + 1 THEN j ELSE 0]
        BY <3>2, <4>3, <4>4, <2>3, <1>2, <1>3, <1>9, <1>10
      <4>2. ~(j > 0)
        BY <4>4
      <4> QED BY <4>1, <4>2
    <3>3. CASE direction = "easier" /\ k > 0
      <4>1. moved = [d \in 1..N |-> IF d = a THEN Q - (k - 1)
                                     ELSE IF d = a + 1 THEN k - 1 ELSE 0]
        BY <3>3, <2>3, <1>2, <1>3, <1>7, <1>9, <1>10
      <4>2. k - 1 \in 0..Q - 1 /\ a < N
        BY <3>3, <1>2, <1>3
      <4> QED BY <4>1, <4>2, <1>3
    <3>4. CASE direction = "easier" /\ k = 0 /\ Q > 1
      <4>1. moved = [d \in 1..N |-> IF d = a - 1 THEN Q - (Q - 1)
                                     ELSE IF d = a - 1 + 1 THEN Q - 1 ELSE 0]
        BY <3>4, <2>3, <1>2, <1>3, <1>7, <1>9, <1>10
      <4>2. a - 1 \in 1..N /\ Q - 1 \in 0..Q - 1 /\ a - 1 < N
        BY <3>4, <1>1, <1>2, <1>3, <1>7, <1>10, <1>13
      <4> QED BY <4>1, <4>2
    <3>5. CASE direction = "easier" /\ k = 0 /\ Q = 1
      <4>3. PICK c \in 1..N : c = a - 1
        BY <3>5, <1>3, <1>7, <1>10, <1>13
      <4>4. PICK j \in 0..Q - 1 : j = 0
        BY <1>2
      <4>1. moved = [d \in 1..N |-> IF d = c THEN Q - j
                                     ELSE IF d = c + 1 THEN j ELSE 0]
        BY <3>5, <4>3, <4>4, <2>3, <1>2, <1>3, <1>7, <1>9, <1>10
      <4>2. ~(j > 0)
        BY <4>4
      <4> QED BY <4>1, <4>2
    <3> QED BY <3>1, <3>2, <3>3, <3>4, <3>5, <1>2, <1>3
  <2>5. moved \in [1..N -> 0..Q]
    BY <2>4, <1>2
  <2>6. Dieted(moved)
    <3>1. PICK c \in 1..N, j \in 0..Q - 1 :
            /\ j > 0 => c < N
            /\ moved = [d \in 1..N |-> IF d = c THEN Q - j
                                       ELSE IF d = c + 1 THEN j ELSE 0]
      BY <2>4
    <3>2. N = Decks /\ Q = Quanta
      BY <1>1, <1>2
    <3>3. c \in 1..Decks /\ j \in 0..Quanta - 1 /\ (j > 0 => c < Decks)
      BY <3>1, <3>2
    <3>4. moved = [d \in 1..Decks |-> IF d = c THEN Quanta - j
                                       ELSE IF d = c + 1 THEN j ELSE 0]
      BY <3>1, <3>2, Zenon
    <3>5. moved \in [1..Decks -> 0..Quanta]
      BY <2>5, <3>2, Zenon
    <3> QED BY <3>3, <3>4, <3>5 DEF Dieted
  <2>7. Nudged(weights, direction) = moved
    BY <2>1, <1>11, <1>13
  <2> QED BY <2>6, <2>7
<1> QED BY <1>12, <1>13

\* A request is a plan's.
LEMMA RequestAsks ==
  ASSUME Types, NEW quota \in Nat, NEW ready \in SUBSET Words, NEW excluded
  PROVE  Asks(Request(quota, ready, excluded))
<1>1. PICK r : r = Request(quota, ready, excluded)
  OBVIOUS
<1>2. /\ r.stash = StashWords \ excluded /\ r.diet = DietWords \ excluded
      /\ r.tops = tops /\ r.source = settings.source
      /\ r.weights = settings.weights /\ r.quota = quota /\ r.ready = ready
  BY <1>1 DEF Request
<1>3. /\ settings.source \in {"mixed", "stash_only"}
      /\ Dieted(settings.weights)
      /\ tops \in Seq(Words) /\ IsInjective(tops)
  BY DEF Types
<1>4. /\ StashWords \in SUBSET Words /\ DietWords \in SUBSET Words
      /\ StashWords \cap DietWords = {}
  BY DEF Types, StashWords, DietWords
<1> QED BY <1>1, <1>2, <1>3, <1>4 DEF Asks

\* The reserve is of words.
LEMMA CandidateWords ==
  ASSUME Types, NEW members \in Candidates
  PROVE  members \in SUBSET Words
<1>1. PICK order \in Shuffles :
        members = Range(Plan(Request(2 * settings.limit, Words,
                                     Blocked \ reserve), order).new)
  BY DEF Candidates
<1>2. 2 * settings.limit \in Nat
  BY DEF Types
<1>3. PICK r : r = Request(2 * settings.limit, Words, Blocked \ reserve)
  OBVIOUS
<1>4. Asks(r)
  BY <1>2, <1>3, RequestAsks
<1>5. PICK p : p = Plan(r, order)
  OBVIOUS
<1>6. PICK P, D, Q, E : Sides(p, r, P, D, Q, E)
  BY <1>4, <1>5, OrdersList, PlanSides
<1>7. r.stash \in SUBSET Words /\ r.diet \in SUBSET Words
  BY <1>4 DEF Asks
<1> QED BY <1>1, <1>3, <1>5, <1>6, <1>7 DEF Sides

\* What a session is composed of.
LEMMA ComposedAsks ==
  ASSUME Types, NEW members, NEW r, r = Composed(members)
  PROVE  /\ Asks(r) /\ r.stash = StashWords /\ r.diet = DietWords
         /\ r.tops = tops /\ r.source = settings.source
         /\ r.weights = settings.weights /\ r.ready = Ready
         /\ r.preferred = members
         /\ r.quota = IF settings.limit > taught THEN settings.limit - taught
                      ELSE 0
         /\ r.quota \in Nat
<1>1. settings.limit \in Nat /\ taught \in Nat
  BY DEF Types
<1>2. PICK q \in Nat : q = IF settings.limit > taught
                           THEN settings.limit - taught ELSE 0
  BY <1>1
<1>3. Ready \in SUBSET Words
  BY DEF Ready
<1>4. PICK t : t = Request(q, Ready, {})
  OBVIOUS
<1>5. Asks(t)
  BY <1>3, <1>4, RequestAsks, Types
<1>6. r = [t EXCEPT !.preferred = members]
  BY <1>2, <1>4 DEF Composed
<1>7. t = [ stash |-> StashWords, diet |-> DietWords, tops |-> tops,
            source |-> settings.source, weights |-> settings.weights,
            quota |-> q, preferred |-> reserve, ready |-> Ready ]
  <2>1. StashWords \ {} = StashWords /\ DietWords \ {} = DietWords
    OBVIOUS
  <2> QED BY <1>4, <2>1 DEF Request
<1>8. r = [ stash |-> StashWords, diet |-> DietWords, tops |-> tops,
            source |-> settings.source, weights |-> settings.weights,
            quota |-> q, preferred |-> members, ready |-> Ready ]
  BY <1>6, <1>7
<1>9. Asks(r)
  BY <1>5, <1>7, <1>8 DEF Asks
<1> QED BY <1>2, <1>8, <1>9

\* What is taken of a sequence is in it.
LEMMA TakeRange ==
  ASSUME NEW s \in Seq(Words), NEW n \in Nat
  PROVE  Range(Take(s, n)) \subseteq Range(s)
<1>1. PICK t : t = Take(s, n)
  OBVIOUS
<1>2. PICK k \in 0..Len(s) : DOMAIN t = 1..k /\ \A i \in 1..k : t[i] = s[i]
  BY <1>1, TakeValues
<1>3. DOMAIN s = 1..Len(s) /\ Len(s) \in Nat
  BY LenProperties
<1> QED BY <1>1, <1>2, <1>3 DEF Range

\* A visit enrols words of the decks: they stay words of the decks, and the
\* stash keeps its own.
LEMMA EnrolmentKeeps ==
  ASSUME Types, NEW new \in Seq(Words),
         Range(new) \in SUBSET (StashWords \cup DietWords),
         Previews \/ Starts(new), UNCHANGED <<studied, stash, dismissed>>
  PROVE  /\ unstudied' \in SUBSET Words /\ unstudied \subseteq unstudied'
         /\ sessions' \in [1..MaxStarts -> SessionRecords]
         /\ StashWords' = StashWords /\ DietWords' = DietWords
<1>1. CASE Previews
  BY <1>1 DEF Previews, Types, StashWords, DietWords
<1>2. CASE Starts(new)
  <2>1. PICK i \in DOMAIN sessions, p \in Plans(Range(new)) :
          /\ sessions' = [sessions EXCEPT ![i] =
                     [status |-> "open",
                      new |-> Range(Take(new, p.slots.unstudied)),
                      mine |-> Range(Take(new, p.slots.unstudied))]]
          /\ unstudied' = unstudied \cup Range(Take(new, p.slots.unstudied))
    BY <1>2 DEF Starts
  <2>2. Range(new) \in SUBSET Words /\ studied \in SUBSET Words
    BY DEF Types, StashWords, DietWords
  <2>3. PICK n \in Nat : n = p.slots.unstudied
    <3>1. Allotted(p.slots, p.counts)
      BY <2>1, <2>2, PlansAllot
    <3>2. p.slots["unstudied"] \in Nat
      BY <3>1 DEF Allotted, Buckets
    <3> QED BY <3>2
  <2>4. PICK A : A = Range(Take(new, n))
    OBVIOUS
  <2>5. A \in SUBSET Range(new)
    BY <2>4, TakeRange
  <2>6. A \in SUBSET Words /\ A \in SUBSET (StashWords \cup DietWords)
    BY <2>2, <2>5
  <2>7. unstudied' = unstudied \cup A
        /\ sessions' = [sessions EXCEPT ![i] =
                          [status |-> "open", new |-> A, mine |-> A]]
    BY <2>1, <2>3, <2>4
  <2>8. [status |-> "open", new |-> A, mine |-> A] \in SessionRecords
    BY <2>6 DEF SessionRecords
  <2>9. sessions' \in [1..MaxStarts -> SessionRecords]
    BY <2>1, <2>7, <2>8 DEF Types
  <2>10. StashWords' = StashWords /\ DietWords' = DietWords
    BY <2>6, <2>7 DEF Types, StashWords, DietWords
  <2> QED BY <2>6, <2>7, <2>9, <2>10 DEF Types
<1> QED BY <1>1, <1>2

\* Queueing makes nothing ready, and nothing that failed.
LEMMA EnqueuedKeeps ==
  ASSUME Types, NEW members, prep' = Enqueued(members)
  PROVE  /\ prep' \in [Words -> {"none", "queued", "ready", "paused"}]
         /\ Ready' = Ready /\ Blocked' = Blocked
<1>1. prep' = [w \in Words |-> IF w \in members /\ prep[w] = "none"
                               THEN "queued" ELSE prep[w]]
  BY DEF Enqueued
<1> QED BY <1>1 DEF Types, Ready, Blocked

\* A visit, by what it composes: the request and the sides of the plan.
Visits(r, p, P, D, Q, E) ==
  /\ Asks(r) /\ r.stash = StashWords /\ r.diet = DietWords
  /\ r.tops = tops /\ r.source = settings.source
  /\ r.weights = settings.weights /\ r.ready = Ready
  /\ r.preferred = reserve'
  /\ r.quota = IF settings.limit > taught THEN settings.limit - taught ELSE 0
  /\ r.quota \in Nat
  /\ reserve' \in Candidates /\ prep' = Enqueued(reserve')
  /\ \E order \in Shuffles :
       /\ p = Plan(r, order)
       /\ P = Range(StashPlanned(r, order)) /\ D = Range(StashDrawn(r, order))
       /\ Q = DietPart(r, order).planned
       /\ E = Range(DietPart(r, order).drawn)
  /\ Sides(p, r, P, D, Q, E)
  /\ composed' = [quota |-> r.quota, asked |-> p.asked,
                  offered |-> Range(p.new)]
  /\ Previews \/ Starts(p.new)
  /\ UNCHANGED <<studied, stash, dismissed, tops, settings, taught, spent>>
  /\ settled' = TRUE

\* Every visit is one of those.
LEMMA VisitSides ==
  ASSUME Types, Visit
  PROVE  \E r, p, P, D, Q, E : Visits(r, p, P, D, Q, E)
<1>1. PICK members \in Candidates :
        /\ reserve' = members /\ prep' = Enqueued(members)
        /\ \E r \in {Composed(members)} :
           \E plan \in {Plan(r, order) : order \in Shuffles} :
             /\ composed' = [ quota |-> r.quota, asked |-> plan.asked,
                              offered |-> Range(plan.new) ]
             /\ Previews \/ Starts(plan.new)
  BY DEF Visit
<1>2. PICK r : r = Composed(members)
  OBVIOUS
<1>3. PICK order \in Shuffles :
        /\ composed' = [ quota |-> r.quota, asked |-> Plan(r, order).asked,
                         offered |-> Range(Plan(r, order).new) ]
        /\ Previews \/ Starts(Plan(r, order).new)
  BY <1>1, <1>2
<1>4. PICK p : p = Plan(r, order)
  OBVIOUS
<1>5. PICK P, D, Q, E :
        /\ P = Range(StashPlanned(r, order))
        /\ D = Range(StashDrawn(r, order))
        /\ Q = DietPart(r, order).planned
        /\ E = Range(DietPart(r, order).drawn)
  OBVIOUS
<1>6. Asks(r)
  BY <1>2, ComposedAsks
<1>7. Sides(p, r, P, D, Q, E)
  BY <1>4, <1>5, <1>6, OrdersList, PlanSides
<1>8. /\ r.stash = StashWords /\ r.diet = DietWords
      /\ r.tops = tops /\ r.source = settings.source
      /\ r.weights = settings.weights /\ r.ready = Ready
      /\ r.preferred = reserve'
      /\ r.quota = IF settings.limit > taught THEN settings.limit - taught
                   ELSE 0
      /\ r.quota \in Nat
  BY <1>1, <1>2, ComposedAsks
<1>9. /\ UNCHANGED <<studied, stash, dismissed, tops, settings, taught, spent>>
      /\ settled' = TRUE
  BY DEF Visit
<1>10. \E o \in Shuffles :
       /\ p = Plan(r, o)
       /\ P = Range(StashPlanned(r, o)) /\ D = Range(StashDrawn(r, o))
       /\ Q = DietPart(r, o).planned
       /\ E = Range(DietPart(r, o).drawn)
  BY <1>4, <1>5
<1>11. /\ reserve' \in Candidates /\ prep' = Enqueued(reserve')
       /\ composed' = [quota |-> r.quota, asked |-> p.asked,
                       offered |-> Range(p.new)]
       /\ Previews \/ Starts(p.new)
  BY <1>1, <1>3, <1>4
<1>12. Visits(r, p, P, D, Q, E)
  BY <1>6, <1>7, <1>8, <1>9, <1>10, <1>11 DEF Visits
<1> QED BY <1>12

\* A visit keeps the types, the words each side has, and what is ready.
LEMMA VisitTypes ==
  ASSUME Types, Visit
  PROVE  /\ Types' /\ StashWords' = StashWords /\ DietWords' = DietWords
         /\ Ready' = Ready /\ Blocked' = Blocked /\ tops' = tops
         /\ settings' = settings
<1>1. PICK r, p, P, D, Q, E : Visits(r, p, P, D, Q, E)
  BY VisitSides
<1>2. /\ p.new \in Seq(Words)
      /\ Range(p.new) \in SUBSET (StashWords \cup DietWords)
  BY <1>1 DEF Visits, Sides
<1>3. PICK new \in Seq(Words) : new = p.new
  BY <1>2
<1>4. UNCHANGED <<studied, stash, dismissed, tops, settings, taught, spent>>
  BY <1>1 DEF Visits
<1>5. Previews \/ Starts(new)
  BY <1>1, <1>3 DEF Visits
<1>6. /\ unstudied' \in SUBSET Words /\ unstudied \subseteq unstudied'
      /\ sessions' \in [1..MaxStarts -> SessionRecords]
      /\ StashWords' = StashWords /\ DietWords' = DietWords
  BY <1>2, <1>3, <1>4, <1>5, EnrolmentKeeps
<1>7. reserve' \in SUBSET Words /\ prep' = Enqueued(reserve')
  BY <1>1, CandidateWords DEF Visits
<1>8. /\ prep' \in [Words -> {"none", "queued", "ready", "paused"}]
      /\ Ready' = Ready /\ Blocked' = Blocked
  BY <1>7, EnqueuedKeeps
<1>9. settled' = TRUE
  BY <1>1 DEF Visits
<1>10. Types'
  BY <1>4, <1>6, <1>7, <1>8, <1>9 DEF Types
<1> QED BY <1>4, <1>6, <1>8, <1>10

\* The first state, a close and an act of the learner have the types.
LEMMA InitTypes ==
  ASSUME Init
  PROVE  Types
<1>1. Dieted(OnlyDeck(1))
  <2>1. 1 \in 1..Decks
    BY AdmissionAssumption
  <2> QED BY <2>1, OnlyDeckDiets
<1>2. FirstLimit \in Nat /\ InitialStash \in SUBSET Words
  BY ReserveAssumption
<1>3. settings = [limit |-> FirstLimit, source |-> "mixed",
                  weights |-> OnlyDeck(1)]
  BY DEF Init
<1>4. PICK weights : weights = OnlyDeck(1)
  OBVIOUS
<1>5. /\ Dieted(weights)
      /\ settings \in [limit : Nat, source : {"mixed", "stash_only"},
                       weights : {weights}]
  BY <1>1, <1>2, <1>3, <1>4
<1>6. tops \in Seq(Words) /\ IsInjective(tops)
  <2>1. tops = <<>> /\ <<>> \in Seq(Words)
    BY DEF Init
  <2> QED BY <2>1 DEF IsInjective
<1>7. prep \in [Words -> {"none", "queued", "ready", "paused"}]
      /\ sessions \in [1..MaxStarts -> SessionRecords]
  BY DEF Init, NoSession, SessionRecords
<1>8. /\ unstudied \in SUBSET Words /\ studied \in SUBSET Words
      /\ stash \in SUBSET (unstudied \cup studied)
      /\ dismissed \in SUBSET (unstudied \cup studied)
      /\ reserve \in SUBSET Words /\ taught \in Nat /\ settled \in BOOLEAN
  BY <1>2 DEF Init
<1> QED BY <1>5, <1>6, <1>7, <1>8 DEF Types

LEMMA CloseTypes ==
  ASSUME Types, NEW i \in Open, NEW lessons \in SUBSET sessions[i].new,
         Close(i, lessons)
  PROVE  Types'
<1>1. sessions[i] \in [status : {"open"}, new : SUBSET Words,
                       mine : SUBSET Words] /\ i \in DOMAIN sessions
  BY DEF Types, Open, SessionRecords
<1>2. PICK moved \in SUBSET Words :
        /\ sessions' =
             [j \in DOMAIN sessions |->
                IF j = i THEN [status |-> "closed"]
                ELSE IF sessions[j].status = "open"
                     THEN [sessions[j] EXCEPT !.mine = @ \ moved]
                ELSE sessions[j]]
        /\ studied' = studied \cup moved /\ unstudied' = unstudied \ moved
        /\ settled' = (settled /\ moved = {})
  BY <1>1 DEF Close
<1>3. /\ taught' = taught + Cardinality(lessons)
      /\ UNCHANGED <<stash, dismissed, tops, settings, prep, reserve, spent>>
  BY DEF Close
<1>4. taught' \in Nat
  <2>1. lessons \in SUBSET Words
    BY <1>1
  <2>2. Cardinality(lessons) \in Nat
    BY <2>1, AdmissionAssumption, FS_Subset, FS_CardinalityType
  <2> QED BY <2>2, <1>3 DEF Types
<1>5. sessions' \in [1..MaxStarts -> SessionRecords]
  <2>1. ASSUME NEW j \in 1..MaxStarts
        PROVE  (IF j = i THEN [status |-> "closed"]
                ELSE IF sessions[j].status = "open"
                     THEN [sessions[j] EXCEPT !.mine = @ \ moved]
                ELSE sessions[j]) \in SessionRecords
    <3>1. sessions[j] \in SessionRecords
      BY DEF Types
    <3>2. [status |-> "closed"] \in SessionRecords
      BY DEF SessionRecords
    <3>3. sessions[j].status = "open" =>
            [sessions[j] EXCEPT !.mine = @ \ moved] \in SessionRecords
      BY <3>1 DEF SessionRecords
    <3> QED BY <3>1, <3>2, <3>3
  <2>2. DOMAIN sessions = 1..MaxStarts
    BY DEF Types
  <2> QED BY <1>2, <2>1, <2>2
<1>6. settled' \in BOOLEAN
  BY <1>2 DEF Types
<1>7. /\ unstudied' \in SUBSET Words /\ studied' \in SUBSET Words
      /\ stash' \in SUBSET (unstudied' \cup studied')
      /\ dismissed' \in SUBSET (unstudied' \cup studied')
  BY <1>2, <1>3 DEF Types
<1> QED BY <1>3, <1>4, <1>5, <1>6, <1>7 DEF Types

LEMMA LearnerTypes ==
  ASSUME Types, Learner
  PROVE  Types' /\ settled' = FALSE
<1>1. ASSUME NEW w \in Words, ChangeWord(w)
      PROVE  /\ sessions' \in [1..MaxStarts -> SessionRecords]
             /\ UNCHANGED <<prep, reserve, taught, tops, settings>>
             /\ settled' = FALSE
  <2>1. /\ sessions' = [i \in DOMAIN sessions |->
                    IF sessions[i].status = "open"
                    THEN [sessions[i] EXCEPT !.mine = @ \ {w}]
                    ELSE sessions[i]]
        /\ UNCHANGED <<prep, reserve, taught, tops, settings>>
        /\ settled' = FALSE
    BY <1>1 DEF ChangeWord, Acts
  <2>2. ASSUME NEW j \in 1..MaxStarts
        PROVE  (IF sessions[j].status = "open"
                THEN [sessions[j] EXCEPT !.mine = @ \ {w}]
                ELSE sessions[j]) \in SessionRecords
    <3>1. sessions[j] \in SessionRecords
      BY DEF Types
    <3>2. sessions[j].status = "open" =>
            [sessions[j] EXCEPT !.mine = @ \ {w}] \in SessionRecords
      BY <3>1 DEF SessionRecords
    <3> QED BY <3>1, <3>2
  <2>3. DOMAIN sessions = 1..MaxStarts
    BY DEF Types
  <2> QED BY <2>1, <2>2, <2>3
<1>2. ASSUME NEW w \in Words, AddToStash(w) PROVE Types' /\ settled' = FALSE
  BY <1>1, <1>2 DEF AddToStash, Types
<1>3. ASSUME NEW w \in Words, LeaveStash(w) PROVE Types' /\ settled' = FALSE
  BY <1>1, <1>3 DEF LeaveStash, Types
<1>4. ASSUME NEW w \in Words, Dismiss(w) PROVE Types' /\ settled' = FALSE
  BY <1>1, <1>4 DEF Dismiss, Types
<1>5. ASSUME NEW w \in Words, ChangeMode(w) PROVE Types' /\ settled' = FALSE
  BY <1>1, <1>5 DEF ChangeMode, Types
<1>6. ASSUME NEW w \in Words, MoveToTop(w) PROVE Types' /\ settled' = FALSE
  <2>1. tops' = <<w>> \o Among(tops, Words \ {w})
        /\ UNCHANGED <<unstudied, studied, stash, dismissed, settings, sessions>>
        /\ UNCHANGED <<prep, reserve, taught>> /\ settled' = FALSE
    BY <1>6 DEF MoveToTop, Acts, words
  <2>2. Lists(tops, Range(tops))
    BY DEF Types, Lists
  <2>3. PICK t : t = Among(tops, Words \ {w})
    OBVIOUS
  <2>4. Lists(t, Range(tops) \cap (Words \ {w}))
    BY <2>2, <2>3, AmongLists
  <2>5. Lists(<<w>>, {w})
    <3>1. <<w>> \in Seq(Words) /\ Range(<<w>>) = {w} /\ IsInjective(<<w>>)
      BY DEF Range, IsInjective
    <3> QED BY <3>1 DEF Lists
  <2>6. {w} \cap (Range(tops) \cap (Words \ {w})) = {}
    OBVIOUS
  <2>7. Lists(<<w>> \o t, {w} \cup (Range(tops) \cap (Words \ {w})))
    BY <2>4, <2>5, <2>6, ConcatLists
  <2>8. tops' \in Seq(Words) /\ IsInjective(tops')
    BY <2>1, <2>3, <2>7 DEF Lists
  <2> QED BY <2>1, <2>8 DEF Types
<1>7. ASSUME NEW chosen, Choose(chosen), NEW weights, Dieted(weights),
             chosen \in [limit : Nat, source : {"mixed", "stash_only"},
                         weights : {weights}]
      PROVE  Types' /\ settled' = FALSE
  BY <1>7 DEF Choose, Acts, Types, words
<1>8. PICK old : /\ Dieted(old)
                 /\ settings \in [limit : Nat, source : {"mixed", "stash_only"},
                                  weights : {old}]
  BY DEF Types
<1>9. CASE \E limit \in Limits : Choose([settings EXCEPT !.limit = limit])
  <2>1. PICK limit \in Limits : Choose([settings EXCEPT !.limit = limit])
    BY <1>9
  <2>2. limit \in Nat
    BY ReserveAssumption
  <2>3. [settings EXCEPT !.limit = limit] \in
          [limit : Nat, source : {"mixed", "stash_only"}, weights : {old}]
    BY <1>8, <2>2
  <2> QED BY <1>7, <1>8, <2>1, <2>3
<1>10. CASE \E source \in {"mixed", "stash_only"} :
              Choose([settings EXCEPT !.source = source])
  <2>1. PICK source \in {"mixed", "stash_only"} :
          Choose([settings EXCEPT !.source = source])
    BY <1>10
  <2>3. [settings EXCEPT !.source = source] \in
          [limit : Nat, source : {"mixed", "stash_only"}, weights : {old}]
    BY <1>8
  <2> QED BY <1>7, <1>8, <2>1, <2>3
<1>11. CASE \E direction \in {"harder", "easier"} :
              Choose([settings EXCEPT !.weights = Nudged(@, direction)])
  <2>1. PICK direction \in {"harder", "easier"} :
          Choose([settings EXCEPT !.weights = Nudged(@, direction)])
    BY <1>11
  <2>2. PICK new : new = Nudged(old, direction)
    OBVIOUS
  <2>3. Dieted(new)
    BY <1>8, <2>2, NudgeDiets
  <2>4. [settings EXCEPT !.weights = Nudged(@, direction)] =
          [settings EXCEPT !.weights = new]
    <3>1. settings.weights = old
      BY <1>8
    <3> QED BY <2>2, <3>1
  <2>5. [settings EXCEPT !.weights = new] \in
          [limit : Nat, source : {"mixed", "stash_only"}, weights : {new}]
    BY <1>8
  <2>6. Choose([settings EXCEPT !.weights = new])
    BY <2>1, <2>4
  <2> QED BY <1>7, <2>3, <2>5, <2>6
<1>12. CASE \E d \in 1..Decks :
              Choose([settings EXCEPT !.weights = OnlyDeck(d)])
  <2>1. PICK d \in 1..Decks :
          Choose([settings EXCEPT !.weights = OnlyDeck(d)])
    BY <1>12
  <2>2. PICK new : new = OnlyDeck(d)
    OBVIOUS
  <2>3. Dieted(new)
    BY <2>2, OnlyDeckDiets
  <2>5. [settings EXCEPT !.weights = new] \in
          [limit : Nat, source : {"mixed", "stash_only"}, weights : {new}]
    BY <1>8
  <2>6. Choose([settings EXCEPT !.weights = new])
    BY <2>1, <2>2
  <2> QED BY <1>7, <2>3, <2>5, <2>6
<1> QED BY <1>2, <1>3, <1>4, <1>5, <1>6, <1>9, <1>10, <1>11, <1>12
        DEF Learner, ChangeSettings

\* Every step keeps the types.
LEMMA NextTypes ==
  ASSUME Types, Next
  PROVE  Types'
<1>1. CASE Visit
  BY <1>1, VisitTypes
<1>2. CASE Reconcile
  <2>1. PICK members \in Candidates :
          reserve' = members /\ prep' = Enqueued(members)
    BY <1>2 DEF Reconcile
  <2>2. members \in SUBSET Words
    BY CandidateWords
  <2>3. prep' \in [Words -> {"none", "queued", "ready", "paused"}]
    BY <2>1, EnqueuedKeeps
  <2>4. UNCHANGED <<unstudied, studied, stash, dismissed, tops, settings,
                    taught, sessions>> /\ settled' = TRUE
    BY <1>2 DEF Reconcile, words
  <2> QED BY <2>1, <2>2, <2>3, <2>4 DEF Types
<1>3. CASE NewDay
  BY <1>3 DEF NewDay, Types, words
<1>4. CASE Learner
  BY <1>4, LearnerTypes
<1>5. CASE \E i \in Open : \E lessons \in SUBSET sessions[i].new :
             Close(i, lessons)
  BY <1>5, CloseTypes
<1>6. CASE \E w \in Words : \/ Prepared(w) \/ Fails(w)
                            \/ RetryPreparation(w) \/ DemandElsewhere(w)
  <2>1. PICK w \in Words : \/ Prepared(w) \/ Fails(w)
                           \/ RetryPreparation(w) \/ DemandElsewhere(w)
    BY <1>6
  <2>2. PICK to \in {"queued", "ready", "paused"} :
          prep' = [prep EXCEPT ![w] = to]
    BY <2>1 DEF Prepared, Fails, RetryPreparation, DemandElsewhere, Preparation
  <2>3. prep' \in [Words -> {"none", "queued", "ready", "paused"}]
    BY <2>2 DEF Types
  <2>4. UNCHANGED <<unstudied, studied, stash, dismissed, tops, settings,
                    reserve, taught, sessions>> /\ settled' \in BOOLEAN
    BY <2>1 DEF Prepared, Fails, RetryPreparation, DemandElsewhere,
                Preparation, Apart, words, Types
  <2> QED BY <2>3, <2>4 DEF Types
<1> QED BY <1>1, <1>2, <1>3, <1>4, <1>5, <1>6 DEF Next

-----------------------------------------------------------------------------
(* What a session is offered.                                              *)

\* What a session offers of the stash and of the decks.
LEMMA OfferedShares ==
  ASSUME Types, NEW r, NEW p, NEW P, NEW D, NEW Q, NEW E,
         Visits(r, p, P, D, Q, E), NEW offered, offered = Range(p.new)
  PROVE  /\ offered \in SUBSET Ready
         /\ offered \cap StashWords = D /\ offered \cap DietWords = E
         /\ Cardinality(D) <= Share(r)
         /\ Cardinality(E) <= r.quota - Least(Share(r), Cardinality(StashWords))
         /\ \/ Range(tops) \cap StashWords \cap Ready \subseteq offered
            \/ D \subseteq Range(tops) \cap StashWords \cap Ready
<1>1. /\ Asks(r) /\ r.stash = StashWords /\ r.diet = DietWords
      /\ r.tops = tops /\ r.source = settings.source /\ r.ready = Ready
  BY DEF Visits
<1>2. /\ offered = D \cup E
      /\ D \in SUBSET (StashWords \cap Ready)
      /\ Cardinality(D) = Least(Share(r), Cardinality(StashWords \cap Ready))
      /\ E \in SUBSET (DietWords \cap Ready)
      /\ Cardinality(E) <= DietDemand(r)
  BY <1>1 DEF Visits, Sides
<1>3. StashWords \cap DietWords = {}
  BY DEF StashWords, DietWords
<1>4. offered \cap StashWords = D /\ offered \cap DietWords = E
  BY <1>2, <1>3
<1>5. PICK n \in Nat : n = Share(r) /\ r.quota \in Nat /\ n <= r.quota
  BY <1>1, ShareBounds
<1>6. Cardinality(D) <= Share(r)
  <2>1. Cardinality(StashWords \cap Ready) \in Nat
    <3>1. StashWords \cap Ready \in SUBSET Words
      BY DEF Ready
    <3> QED BY <3>1, AdmissionAssumption, FS_Subset, FS_CardinalityType
  <2> QED BY <2>1, <1>2, <1>5 DEF Least
<1>7. Cardinality(E) <= r.quota - Least(Share(r), Cardinality(StashWords))
  <2>1. PICK c \in Nat : c = Cardinality(StashWords)
    BY <1>1, DemandBounds
  <2>2. DietDemand(r) <= r.quota - Least(n, c) /\ DietDemand(r) \in Nat
    BY <2>1, <1>1, <1>5 DEF DietDemand, Least
  <2>3. PICK e \in Nat : e = Cardinality(E)
    <3>1. E \in SUBSET Words
      BY <1>2 DEF Ready
    <3> QED BY <3>1, AdmissionAssumption, FS_Subset, FS_CardinalityType
  <2>4. Least(n, c) \in Nat
    BY <2>1 DEF Least
  <2> QED BY <2>1, <2>2, <2>3, <2>4, <1>2, <1>5
<1>8. PICK order \in Shuffles :
        P = Range(StashPlanned(r, order)) /\ D = Range(StashDrawn(r, order))
  BY DEF Visits
<1>9. PICK L : L = Range(r.tops) \cap r.stash
  OBVIOUS
<1>10. L \cap r.ready \subseteq D \/ D \subseteq L \cap r.ready
  <2>1. Lists(order, Words)
    BY OrdersList
  <2>2. PICK F : F = Range(Take(Among(r.tops, r.stash), Share(r)))
    OBVIOUS
  <2>3. Leads(r, P, D, L, F)
    BY <2>1, <2>2, <1>1, <1>8, <1>9, StashLeaders
  <2> QED BY <2>3 DEF Leads
<1>11. L \cap r.ready = Range(tops) \cap StashWords \cap Ready
  BY <1>1, <1>9
<1> QED BY <1>2, <1>4, <1>6, <1>7, <1>10, <1>11

\* So a visit keeps the shares.
LEMMA VisitShares ==
  ASSUME Types, Visit
  PROVE  SharesAreKept'
<1>1. PICK r, p, P, D, Q, E : Visits(r, p, P, D, Q, E)
  BY VisitSides
<1>2. PICK offered : offered = Range(p.new)
  OBVIOUS
<1>3. /\ offered \in SUBSET Ready
      /\ offered \cap StashWords = D /\ offered \cap DietWords = E
      /\ Cardinality(D) <= Share(r)
      /\ Cardinality(E) <= r.quota - Least(Share(r), Cardinality(StashWords))
      /\ \/ Range(tops) \cap StashWords \cap Ready \subseteq offered
         \/ D \subseteq Range(tops) \cap StashWords \cap Ready
  BY <1>1, <1>2, OfferedShares
<1>4. /\ StashWords' = StashWords /\ DietWords' = DietWords /\ Ready' = Ready
      /\ tops' = tops /\ settings' = settings /\ Types'
  BY VisitTypes
<1>5. composed'.quota = r.quota /\ composed'.offered = offered
      /\ r.source = settings.source /\ studied' = studied
  BY <1>1, <1>2 DEF Visits
<1>6. PICK t : t = Request(composed.quota, {}, {})'
  OBVIOUS
<1>7. Share(t) = Share(r)
  <2>1. t.source = r.source /\ t.quota = r.quota
    BY <1>4, <1>5, <1>6 DEF Request
  <2> QED BY <2>1 DEF Share
<1>8. Plans(offered)' = Plans(offered)
  BY <1>5 DEF Plans
<1>9. ASSUME NEW plan \in Plans(offered)
      PROVE  /\ Sum(plan.slots, Buckets) =
                  Least(MaxItems, Sum(plan.counts, Buckets))
             /\ \A b \in Buckets :
                  /\ plan.slots[b] <= plan.counts[b]
                  /\ plan.slots[b] < plan.counts[b] =>
                       100 * (plan.slots[b] + 1) > MaxItems * BucketWeight[b]
  <2>1. offered \in SUBSET Words /\ studied \in SUBSET Words
    BY <1>3 DEF Ready, Types
  <2> QED BY <2>1, PlansAllot DEF Allotted
<1> QED BY <1>3, <1>4, <1>5, <1>6, <1>7, <1>8, <1>9 DEF SharesAreKept

\* Neither side of a quota takes the other's places, ready words at the top are
\* passed over only for others at the top, and the places of a session are used
\* with no bucket cut below its weight.
THEOREM SpecKeepsShares == Spec => []SharesAreKept
<1>1. ASSUME Init PROVE Types /\ SharesAreKept
  BY <1>1, InitTypes DEF Init, SharesAreKept
<1>2. ASSUME Types /\ SharesAreKept, [Next]_vars
      PROVE  (Types /\ SharesAreKept)'
  <2>1. CASE UNCHANGED vars
    <3>1. Types'
      BY <1>2, <2>1 DEF vars, words, Types
    <3>2. SharesAreKept'
      BY <1>2, <2>1 DEF vars, words, SharesAreKept, Plans, Request, StashWords,
                        DietWords, Ready
    <3> QED BY <3>1, <3>2
  <2>2. CASE Visit
    BY <1>2, <2>2, VisitShares, VisitTypes
  <2>3. CASE Next /\ composed' = Uncomposed
    BY <1>2, <2>3, NextTypes DEF SharesAreKept
  <2>4. Next => Visit \/ composed' = Uncomposed
    BY DEF Next
  <2> QED BY <1>2, <2>1, <2>2, <2>3, <2>4
<1> QED BY <1>1, <1>2, PTL DEF Spec

-----------------------------------------------------------------------------
(* What stays of a reserve when it is planned again.                       *)

\* The deck's places of a request, readiness aside.
DeckPlaces(r, d) ==
  Given(r, Target(r))[d] - Given(r, Target(r))[d - 1]

\* R fills what r asks for: the stash's share and the decks' demand, as far as
\* there are words, among them the first tops and each deck's places.
Fills(R, r) ==
  /\ R \in SUBSET (r.stash \cup r.diet)
  /\ Cardinality(R \cap r.stash) = Least(Share(r), Cardinality(r.stash))
  /\ Range(Take(Among(r.tops, r.stash), Share(r))) \subseteq R
  /\ Cardinality(R \cap r.diet) = Least(DietDemand(r), Cardinality(r.diet))
  /\ DietDemand(r) > 0 =>
       \A d \in 1..Decks : Cardinality(R \cap Pool(r, d)) >= DeckPlaces(r, d)

\* Words are finitely many: their sets have sizes that order them.
LEMMA Counted ==
  ASSUME NEW S \in SUBSET Words
  PROVE  /\ IsFiniteSet(S) /\ Cardinality(S) \in Nat
         /\ \A T \in SUBSET S :
              /\ IsFiniteSet(T) /\ Cardinality(T) \in Nat
              /\ Cardinality(T) <= Cardinality(S)
              /\ Cardinality(T) = Cardinality(S) => T = S
<1>1. IsFiniteSet(S) /\ Cardinality(S) \in Nat
  BY AdmissionAssumption, FS_Subset, FS_CardinalityType
<1> SUFFICES ASSUME NEW T \in SUBSET S
             PROVE  /\ IsFiniteSet(T) /\ Cardinality(T) \in Nat
                    /\ Cardinality(T) <= Cardinality(S)
                    /\ Cardinality(T) = Cardinality(S) => T = S
  BY <1>1
<1> QED BY <1>1, FS_Subset, FS_CardinalityType

\* A plan that takes words as if all were ready.
LEMMA PlanFills ==
  ASSUME NEW r, Asks(r), r.ready = Words, NEW order, Lists(order, Words),
         NEW R, R = Range(Plan(r, order).new)
  PROVE  Fills(R, r)
<1>1. PICK p : p = Plan(r, order)
  OBVIOUS
<1>2. PICK P : P = Range(StashPlanned(r, order))
  OBVIOUS
<1>3. PICK D : D = Range(StashDrawn(r, order))
  OBVIOUS
<1>4. PICK Q : Q = DietPart(r, order).planned
  OBVIOUS
<1>5. PICK E : E = Range(DietPart(r, order).drawn)
  OBVIOUS
<1>6. Sides(p, r, P, D, Q, E)
  BY <1>1, <1>2, <1>3, <1>4, <1>5, PlanSides
<1>7. PICK S \in SUBSET Words : S = r.stash
  BY DEF Asks
<1>8. PICK T \in SUBSET Words : T = r.diet
  BY DEF Asks
<1>9. S \cap T = {}
  BY <1>7, <1>8 DEF Asks
<1>10. /\ R = D \cup E /\ P \in SUBSET S /\ D \in SUBSET S
       /\ Cardinality(P) = Least(Share(r), Cardinality(S))
       /\ Cardinality(D) = Least(Share(r), Cardinality(S \cap Words))
       /\ P \cap Words \subseteq D /\ Q \in SUBSET T /\ E \in SUBSET T
       /\ Cardinality(E) <= DietDemand(r)
       /\ Cardinality(Q) >= Least(DietDemand(r), Cardinality(T))
       /\ Q = E
  BY <1>1, <1>6, <1>7, <1>8 DEF Sides
<1>11. S \cap Words = S /\ P \cap Words = P
  BY <1>10
<1>12. P = D
  <2>1. P \in SUBSET D /\ D \in SUBSET Words
    BY <1>10, <1>11
  <2>2. Cardinality(P) = Cardinality(D)
    BY <1>10, <1>11
  <2> QED BY <2>1, <2>2, Counted
<1>13. R \cap S = D /\ R \cap T = E
  BY <1>9, <1>10
<1>14. Cardinality(R \cap S) = Least(Share(r), Cardinality(S))
  BY <1>10, <1>12, <1>13
<1>15. Cardinality(R \cap T) = Least(DietDemand(r), Cardinality(T))
  <2>1. PICK n \in Nat : n = DietDemand(r)
    BY DemandBounds, ShareBounds
  <2>2. PICK c \in Nat : c = Cardinality(T)
    BY Counted
  <2>3. PICK e \in Nat : e = Cardinality(E) /\ e <= c
    BY <2>2, <1>10, Counted
  <2> QED BY <2>1, <2>2, <2>3, <1>10, <1>13 DEF Least
<1>16. PICK F : F = Range(Take(Among(r.tops, r.stash), Share(r)))
  OBVIOUS
<1>17. F \subseteq R
  <2>1. PICK L : L = Range(r.tops) \cap r.stash
    OBVIOUS
  <2>2. Leads(r, P, D, L, F)
    BY <1>2, <1>3, <1>16, <2>1, StashLeaders
  <2> QED BY <2>2, <1>10, <1>12 DEF Leads
<1>18. ASSUME DietDemand(r) > 0, NEW d \in 1..Decks
       PROVE  Cardinality(R \cap Pool(r, d)) >= DeckPlaces(r, d)
  <2>1. PICK g : g = Given(r, Target(r))
    OBVIOUS
  <2>2. PICK a, k : Split(r.weights, a, k)
    BY DietSplits
  <2>3. DietDealt(DietPlan(r, order), r, g)
    BY <1>18, <2>1, <2>2, DietDeals
  <2>4. DietPlan(r, order).planned = Q
    BY <1>4, <1>18 DEF DietPart
  <2>5. Cardinality(Pool(r, d) \cap Q) >= g[d] - g[d - 1]
    BY <2>3, <2>4 DEF DietDealt
  <2>6. Pool(r, d) \cap Q = R \cap Pool(r, d)
    <3>1. Pool(r, d) \in SUBSET T
      BY <1>8, PoolBounds
    <3> QED BY <3>1, <1>10, <1>13
  <2> QED BY <2>1, <2>5, <2>6 DEF DeckPlaces
<1> QED BY <1>7, <1>8, <1>10, <1>14, <1>15, <1>16, <1>17, <1>18 DEF Fills

\* Planned again with its members preferred, it is the same.
LEMMA FilledStays ==
  ASSUME NEW r, Asks(r), r.ready = Words, NEW R, r.preferred = R, Fills(R, r),
         NEW order, Lists(order, Words)
  PROVE  Range(Plan(r, order).new) = R
<1>1. PICK X : X = Range(Plan(r, order).new)
  OBVIOUS
<1>2. Fills(X, r)
  BY <1>1, PlanFills
<1>3. PICK S \in SUBSET Words : S = r.stash
  BY DEF Asks
<1>4. PICK T \in SUBSET Words : T = r.diet
  BY DEF Asks
<1>5. /\ R \in SUBSET (S \cup T) /\ X \in SUBSET (S \cup T)
      /\ Cardinality(R \cap S) = Least(Share(r), Cardinality(S))
      /\ Cardinality(X \cap S) = Least(Share(r), Cardinality(S))
      /\ Cardinality(R \cap T) = Least(DietDemand(r), Cardinality(T))
      /\ Cardinality(X \cap T) = Least(DietDemand(r), Cardinality(T))
  BY <1>2, <1>3, <1>4 DEF Fills
<1>6. PICK p : p = Plan(r, order)
  OBVIOUS
<1>7. PICK P : P = Range(StashPlanned(r, order))
  OBVIOUS
<1>8. PICK D : D = Range(StashDrawn(r, order))
  OBVIOUS
<1>9. PICK Q : Q = DietPart(r, order).planned
  OBVIOUS
<1>10. PICK E : E = Range(DietPart(r, order).drawn)
  OBVIOUS
<1>11. Sides(p, r, P, D, Q, E)
  BY <1>6, <1>7, <1>8, <1>9, <1>10, PlanSides
<1>12. S \cap T = {}
  BY <1>3, <1>4 DEF Asks
<1>13. /\ X = D \cup E /\ P \in SUBSET S /\ D \in SUBSET S
       /\ Cardinality(P) = Least(Share(r), Cardinality(S))
       /\ Cardinality(D) = Least(Share(r), Cardinality(S \cap Words))
       /\ P \cap Words \subseteq D /\ E \in SUBSET T /\ Q = E
  BY <1>1, <1>3, <1>4, <1>6, <1>11 DEF Sides
<1>14. P = D
  <2>1. P \in SUBSET D /\ D \in SUBSET Words /\ S \cap Words = S
    BY <1>13
  <2> QED BY <2>1, <1>13, Counted
<1>15. X \cap S = P /\ X \cap T = Q
  BY <1>12, <1>13, <1>14
<1>16. X \cap S \subseteq R
  <2>1. PICK L : L = Range(r.tops) \cap r.stash
    OBVIOUS
  <2>2. PICK F : F = Range(Take(Among(r.tops, r.stash), Share(r)))
    OBVIOUS
  <2>3. Leads(r, P, D, L, F)
    BY <1>7, <1>8, <2>1, <2>2, StashLeaders
  <2>4. F \subseteq R
    BY <2>2 DEF Fills
  <2>5. ASSUME NEW w \in P, Cardinality(S \cap R) < Share(r)
        PROVE  w \in R
    <3>1. PICK n \in Nat : n = Share(r)
      BY ShareBounds
    <3>2. PICK c \in Nat : c = Cardinality(S)
      BY Counted
    <3>3. S \cap R = R \cap S
      OBVIOUS
    <3>4. Least(n, c) < n
      BY <3>1, <3>2, <3>3, <2>5, <1>5
    <3>5. Least(n, c) = c
      BY <3>4 DEF Least
    <3>6. Cardinality(R \cap S) = Cardinality(S)
      BY <3>1, <3>2, <3>5, <1>5
    <3>7. R \cap S \in SUBSET S
      OBVIOUS
    <3>8. R \cap S = S
      BY <3>6, <3>7, Counted
    <3> QED BY <3>8, <1>13
  <2>6. \A w \in P : \/ w \in F
                     \/ w \in R
                     \/ Cardinality(S \cap R) < Share(r)
    BY <2>3, <1>3 DEF Leads
  <2> QED BY <2>4, <2>5, <2>6, <1>15
<1>17. X \cap T \subseteq R
  <2>1. CASE DietDemand(r) > 0
    <3>1. PICK g : g = Given(r, Target(r))
      OBVIOUS
    <3>2. PICK a, k : Split(r.weights, a, k)
      BY DietSplits
    <3>3. DietDealt(DietPlan(r, order), r, g)
      BY <2>1, <3>1, <3>2, DietDeals
    <3>4. DietPlan(r, order).planned = Q
      BY <1>9, <2>1 DEF DietPart
    <3>5. \A w \in Q :
            \/ w \in R
            \/ \E d \in 1..Decks : /\ w \in Pool(r, d)
                  /\ Cardinality(Pool(r, d) \cap R) < g[d] - g[d - 1]
            \/ Cardinality(T \cap R) < DietDemand(r)
      BY <3>3, <3>4, <1>4 DEF DietDealt
    <3>6. ASSUME NEW d \in 1..Decks
          PROVE  ~(Cardinality(Pool(r, d) \cap R) < g[d] - g[d - 1])
      <4>1. Cardinality(R \cap Pool(r, d)) >= DeckPlaces(r, d)
        BY <2>1 DEF Fills
      <4>2. Pool(r, d) \cap R = R \cap Pool(r, d)
        OBVIOUS
      <4>3. Cardinality(R \cap Pool(r, d)) \in Nat
        <5>1. R \cap Pool(r, d) \in SUBSET Words
          BY <1>5
        <5> QED BY <5>1, Counted
      <4>4. DeckPlaces(r, d) = g[d] - g[d - 1]
        BY <3>1 DEF DeckPlaces
      <4>5. DeckPlaces(r, d) \in Int
        <5>1. PICK n \in Nat : n = DietDemand(r)
          BY DemandBounds, ShareBounds
        <5>2. Spreads(g, r, a, k, n)
          BY <2>1, <3>1, <3>2, <5>1, GivenSpreads
        <5>3. g[d - 1] \in 0..n /\ g[d] \in 0..n
          BY <3>2, <5>2, SpreadsPlaces
        <5> QED BY <4>4, <5>3
      <4>6. PICK x \in Int : x = DeckPlaces(r, d) /\ x = g[d] - g[d - 1]
        BY <4>4, <4>5
      <4>7. PICK y \in Nat : /\ y = Cardinality(R \cap Pool(r, d))
                             /\ y = Cardinality(Pool(r, d) \cap R)
        BY <4>2, <4>3
      <4>8. y >= x
        BY <4>1, <4>6, <4>7
      <4> QED BY <4>6, <4>7, <4>8
    <3>7. ASSUME NEW w \in Q, Cardinality(T \cap R) < DietDemand(r)
          PROVE  w \in R
      <4>1. PICK n \in Nat : n = DietDemand(r)
        BY DemandBounds, ShareBounds
      <4>2. PICK c \in Nat : c = Cardinality(T)
        BY Counted
      <4>3. T \cap R = R \cap T
        OBVIOUS
      <4>4. Least(n, c) < n
        BY <4>1, <4>2, <4>3, <3>7, <1>5
      <4>5. Least(n, c) = c
        BY <4>4 DEF Least
      <4>6. Cardinality(R \cap T) = Cardinality(T)
        BY <4>1, <4>2, <4>5, <1>5
      <4>7. R \cap T \in SUBSET T
        OBVIOUS
      <4>8. R \cap T = T
        BY <4>6, <4>7, Counted
      <4> QED BY <4>8, <1>13
    <3> QED BY <3>5, <3>6, <3>7, <1>15
  <2>2. CASE ~(DietDemand(r) > 0)
    BY <1>9, <1>15, <2>2 DEF DietPart
  <2> QED BY <2>1, <2>2
<1>18. X \cap S = R \cap S
  <2>1. X \cap S \in SUBSET (R \cap S) /\ R \cap S \in SUBSET Words
    BY <1>16
  <2>2. Cardinality(X \cap S) = Cardinality(R \cap S)
    BY <1>5
  <2> QED BY <2>1, <2>2, Counted
<1>19. X \cap T = R \cap T
  <2>1. X \cap T \in SUBSET (R \cap T) /\ R \cap T \in SUBSET Words
    BY <1>17
  <2>2. Cardinality(X \cap T) = Cardinality(R \cap T)
    BY <1>5
  <2> QED BY <2>1, <2>2, Counted
<1> QED BY <1>1, <1>5, <1>18, <1>19

\* A smaller set that still has what was taken is taken as far.
LEMMA LeastNarrows ==
  ASSUME NEW s \in Nat, NEW c \in Nat, NEW m \in Nat, m >= Least(s, c),
         NEW e \in Nat, m <= e, e <= c
  PROVE  Least(s, e) = Least(s, c)
BY DEF Least

\* t asks for the same as r, of fewer words.
Narrows(t, r) ==
  /\ t.stash \in SUBSET r.stash /\ t.diet \in SUBSET r.diet
  /\ t.tops = r.tops /\ t.source = r.source /\ t.weights = r.weights
  /\ t.quota = r.quota

\* The decks' places are what they were, if the words that fill them are there.
LEMMA PlacesNarrow ==
  ASSUME NEW r, Asks(r), NEW t, Asks(t), Narrows(t, r),
         DietDemand(t) = DietDemand(r), DietDemand(r) > 0,
         NEW R, R \in SUBSET Words, R \cap r.diet \in SUBSET t.diet,
         \A d \in 1..Decks : Cardinality(R \cap Pool(r, d)) >= DeckPlaces(r, d)
  PROVE  \A d \in 1..Decks : /\ DeckPlaces(t, d) = DeckPlaces(r, d)
                             /\ R \cap Pool(t, d) = R \cap Pool(r, d)
<1>1. PICK n \in Nat : n = DietDemand(r) /\ n = DietDemand(t) /\ n > 0
  BY DemandBounds, ShareBounds
<1>2. PICK a, k : Split(r.weights, a, k)
  BY DietSplits
<1>3. Split(t.weights, a, k)
  BY <1>2 DEF Narrows
<1>4. PICK g : g = Given(r, Target(r))
  OBVIOUS
<1>5. PICK h : h = Given(t, Target(t))
  OBVIOUS
<1>6. Spreads(g, r, a, k, n) /\ Spreads(h, t, a, k, n)
  BY <1>1, <1>2, <1>3, <1>4, <1>5, GivenSpreads
<1>7. /\ g[0] = 0 /\ h[0] = 0
      /\ \A d \in 1..Decks :
           /\ g[d] = g[d - 1] + Least(Wanted(d, n - g[d - 1], a, k, n),
                                      Cardinality(Pool(r, d)))
           /\ h[d] = h[d - 1] + Least(Wanted(d, n - h[d - 1], a, k, n),
                                      Cardinality(Pool(t, d)))
  BY <1>6 DEF Spreads
<1>8. \A d \in 1..Decks :
        /\ g[d - 1] \in 0..n /\ g[d] \in 0..n
        /\ Wanted(d, n - g[d - 1], a, k, n) \in 0..n
  BY <1>2, <1>6, SpreadsPlaces
<1>9. ASSUME NEW d \in 1..Decks
      PROVE  /\ R \cap Pool(t, d) = R \cap Pool(r, d)
             /\ Pool(t, d) \in SUBSET Pool(r, d) /\ Pool(r, d) \in SUBSET Words
  <2>1. t.diet \in SUBSET r.diet /\ r.diet \in SUBSET Words
    BY DEF Narrows, Asks
  <2> QED BY <2>1 DEF Pool
<1> DEFINE G == {d \in Nat : h[d] = g[d]}
<1>10. 0 \in G
  BY <1>7
<1>11. Decks \in Nat
  BY AdmissionAssumption
<1>12. ASSUME NEW m \in 0..Decks - 1, m \in G PROVE m + 1 \in G
  <2>1. PICK d \in 1..Decks : d = m + 1 /\ d - 1 = m /\ d \in Nat
    BY <1>11
  <2>2. PICK x \in 0..n : x = g[m] /\ x = h[m]
    BY <1>8, <1>12, <2>1
  <2>3. PICK w \in 0..n : w = Wanted(d, n - x, a, k, n)
    BY <1>8, <2>1, <2>2
  <2>4. PICK p \in Nat : p = Cardinality(Pool(r, d))
    BY <1>9, Counted
  <2>5. PICK q \in Nat : q = Cardinality(Pool(t, d)) /\ q <= p
    BY <1>9, <2>4, Counted
  <2>6. g[d] = x + Least(w, p) /\ h[d] = x + Least(w, q)
    BY <1>7, <2>1, <2>2, <2>3, <2>4, <2>5
  <2>7. PICK c \in Nat : c = Cardinality(R \cap Pool(t, d)) /\ c <= q
    <3>1. R \cap Pool(t, d) \in SUBSET Pool(t, d)
          /\ Pool(t, d) \in SUBSET Words
      BY <1>9
    <3> QED BY <3>1, <2>5, Counted
  <2>8. DeckPlaces(r, d) = Least(w, p)
    <3>1. DeckPlaces(r, d) = g[d] - g[d - 1]
      BY <1>4 DEF DeckPlaces
    <3>2. PICK y \in Nat : y = Least(w, p)
      BY <2>3, <2>4 DEF Least
    <3>3. g[d] = x + y /\ g[d - 1] = x
      BY <3>2, <2>1, <2>2, <2>6
    <3>4. x + y - x = y
      OBVIOUS
    <3> QED BY <3>1, <3>2, <3>3, <3>4
  <2>9. c >= Least(w, p)
    <3>1. Cardinality(R \cap Pool(r, d)) = c
      BY <1>9, <2>7
    <3> QED BY <3>1, <2>8
  <2>10. Least(w, q) = Least(w, p)
    BY <2>3, <2>4, <2>5, <2>7, <2>9, LeastNarrows
  <2> QED BY <2>1, <2>6, <2>10
<1> HIDE DEF G
<1>13. \A d \in 0..Decks : d \in G
  BY <1>10, <1>11, <1>12, InductionUpTo
<1>14. ASSUME NEW d \in 1..Decks PROVE DeckPlaces(t, d) = DeckPlaces(r, d)
  <2>1. d \in 0..Decks /\ d - 1 \in 0..Decks
    BY <1>11
  <2>2. h[d] = g[d] /\ h[d - 1] = g[d - 1]
    BY <2>1, <1>13 DEF G
  <2> QED BY <2>2, <1>4, <1>5 DEF DeckPlaces
<1> QED BY <1>9, <1>14

\* Nor does what fills a request change when words that do not fill it go.
LEMMA FillsNarrower ==
  ASSUME NEW r, Asks(r), NEW t, Asks(t), Narrows(t, r),
         NEW R, R \in SUBSET (t.stash \cup t.diet), Fills(R, r)
  PROVE  Fills(R, t)
<1>1. PICK S \in SUBSET Words : S = r.stash
  BY DEF Asks
<1>2. PICK T \in SUBSET Words : T = r.diet
  BY DEF Asks
<1>3. PICK U \in SUBSET S : U = t.stash
  BY <1>1 DEF Narrows
<1>4. PICK V \in SUBSET T : V = t.diet
  BY <1>2 DEF Narrows
<1>5. S \cap T = {} /\ R \in SUBSET (U \cup V) /\ R \in SUBSET Words
  BY <1>1, <1>2, <1>3, <1>4 DEF Asks
<1>6. R \cap S = R \cap U /\ R \cap T = R \cap V
  BY <1>5
<1>7. Share(t) = Share(r)
  BY DEF Share, Narrows
<1>8. PICK s \in Nat : s = Share(r)
  BY ShareBounds
<1>9. PICK c \in Nat : c = Cardinality(S)
  BY Counted
<1>10. PICK e \in Nat : e = Cardinality(U) /\ e <= c
  BY <1>9, Counted
<1>11. Least(s, e) = Least(s, c) /\ Cardinality(R \cap U) = Least(s, c)
  <2>1. PICK m \in Nat : m = Cardinality(R \cap U) /\ m <= e
    <3>1. R \cap U \in SUBSET U /\ U \in SUBSET Words
      OBVIOUS
    <3> QED BY <3>1, <1>10, Counted
  <2>2. m = Least(s, c)
    BY <2>1, <1>1, <1>6, <1>8, <1>9 DEF Fills
  <2> QED BY <2>1, <2>2, <1>10, LeastNarrows
<1>12. DietDemand(t) = DietDemand(r)
  BY <1>1, <1>3, <1>7, <1>8, <1>9, <1>10, <1>11 DEF DietDemand, Narrows
<1>13. PICK n \in Nat : n = DietDemand(r)
  BY DemandBounds, ShareBounds
<1>14. Cardinality(R \cap V) = Least(n, Cardinality(V))
  <2>1. PICK x \in Nat : x = Cardinality(T)
    BY Counted
  <2>2. PICK y \in Nat : y = Cardinality(V) /\ y <= x
    BY <2>1, Counted
  <2>3. PICK m \in Nat : m = Cardinality(R \cap V) /\ m <= y
    <3>1. R \cap V \in SUBSET V /\ V \in SUBSET Words
      OBVIOUS
    <3> QED BY <3>1, <2>2, Counted
  <2>4. m = Least(n, x)
    BY <2>1, <2>3, <1>2, <1>6, <1>13 DEF Fills
  <2>5. Least(n, y) = Least(n, x)
    BY <2>1, <2>2, <2>3, <2>4, LeastNarrows
  <2> QED BY <2>2, <2>3, <2>4, <2>5
<1>15. Range(Take(Among(t.tops, U), s)) \subseteq R
  <2>1. PICK tt \in Seq(Words) : tt = r.tops /\ tt = t.tops /\ IsInjective(tt)
    BY DEF Asks, Narrows
  <2>2. PICK F : F = Range(Take(Among(tt, S), s))
    OBVIOUS
  <2>3. PICK G : G = Range(Take(Among(tt, U), s))
    OBVIOUS
  <2>4. F \subseteq R
    BY <2>1, <2>2, <1>1, <1>8 DEF Fills
  <2>5. F \cap U \subseteq G
    BY <2>1, <2>2, <2>3, NarrowerAdvances
  <2>6. Lists(tt, Range(tt))
    BY <2>1 DEF Lists
  <2>7. PICK A : A = Range(tt) \cap S
    OBVIOUS
  <2>8. PICK B : B = Range(tt) \cap U
    OBVIOUS
  <2>9. Lists(Among(tt, S), A) /\ Lists(Among(tt, U), B)
    BY <2>6, <2>7, <2>8, AmongLists
  <2>10. F \in SUBSET A /\ Cardinality(F) = Least(s, Cardinality(A))
    BY <2>2, <2>9, TakeLists
  <2>11. G \in SUBSET B /\ Cardinality(G) = Least(s, Cardinality(B))
    BY <2>3, <2>9, TakeLists
  <2>12. A \in SUBSET Words /\ B \in SUBSET A
    BY <2>7, <2>8
  <2>13. F \in SUBSET G
    BY <2>4, <2>5, <2>7, <2>10, <1>6
  <2>14. PICK x \in Nat : x = Cardinality(A)
    BY <2>12, Counted
  <2>15. PICK y \in Nat : y = Cardinality(B) /\ y <= x
    BY <2>12, <2>14, Counted
  <2>16. Cardinality(G) <= Cardinality(F)
    BY <2>10, <2>11, <2>14, <2>15 DEF Least
  <2>17. G \in SUBSET Words /\ Cardinality(F) \in Nat /\ Cardinality(G) \in Nat
         /\ Cardinality(F) <= Cardinality(G)
    <3>1. G \in SUBSET Words /\ F \in SUBSET G
      BY <2>11, <2>12, <2>13
    <3> QED BY <3>1, Counted
  <2>18. F = G
    BY <2>13, <2>16, <2>17, Counted
  <2> QED BY <2>1, <2>3, <2>4, <2>18
<1>16. ASSUME DietDemand(t) > 0
       PROVE  \A d \in 1..Decks :
                Cardinality(R \cap Pool(t, d)) >= DeckPlaces(t, d)
  <2>1. DietDemand(r) > 0
    BY <1>12, <1>16
  <2>2. \A d \in 1..Decks : Cardinality(R \cap Pool(r, d)) >= DeckPlaces(r, d)
    BY <2>1 DEF Fills
  <2>3. R \cap r.diet \in SUBSET t.diet
    BY <1>2, <1>4, <1>6
  <2>4. \A d \in 1..Decks : /\ DeckPlaces(t, d) = DeckPlaces(r, d)
                            /\ R \cap Pool(t, d) = R \cap Pool(r, d)
    BY <2>1, <2>2, <2>3, <1>5, <1>12, PlacesNarrow
  <2> QED BY <2>2, <2>4
<1>17. Cardinality(R \cap U) = Least(Share(t), Cardinality(U))
  BY <1>7, <1>8, <1>10, <1>11
<1>18. Cardinality(R \cap V) = Least(DietDemand(t), Cardinality(V))
  BY <1>12, <1>13, <1>14
<1>19. Range(Take(Among(t.tops, t.stash), Share(t))) \subseteq R
  BY <1>3, <1>7, <1>8, <1>15
<1> QED BY <1>3, <1>4, <1>5, <1>16, <1>17, <1>18, <1>19 DEF Fills

-----------------------------------------------------------------------------
(* The reserve is stable.                                                  *)

\* What the reserve is planned for.
Goal == Request(2 * settings.limit, Words, Blocked \ reserve)

\* While nothing is decided the reserve fills what it was planned for.
Stays == settled => Fills(reserve, Goal)

\* The goal is a request for every word, ready or not.
LEMMA GoalAsks ==
  ASSUME Types, NEW r, r = Goal
  PROVE  /\ Asks(r) /\ r.stash = StashWords \ (Blocked \ reserve)
         /\ r.diet = DietWords \ (Blocked \ reserve)
         /\ r.tops = tops /\ r.source = settings.source
         /\ r.weights = settings.weights /\ r.quota = 2 * settings.limit
         /\ r.quota \in Nat
         /\ r.preferred = reserve /\ r.ready = Words
<1>1. 2 * settings.limit \in Nat
  BY DEF Types
<1>2. Asks(r)
  BY <1>1, RequestAsks DEF Goal
<1> QED BY <1>1, <1>2 DEF Goal, Request

\* A reserve that may be planned fills the goal, and is the reserve there is
\* if that fills it too.
LEMMA CandidatesPlanned ==
  ASSUME NEW members \in Candidates
  PROVE  \E order \in Shuffles : members = Range(Plan(Goal, order).new)
BY DEF Candidates, Goal

LEMMA CandidatesFill ==
  ASSUME Types, NEW members \in Candidates, NEW r, r = Goal
  PROVE  Fills(members, r)
<1>1. PICK order \in Shuffles : members = Range(Plan(r, order).new)
  BY CandidatesPlanned
<1>2. Lists(order, Words)
  BY OrdersList
<1>3. Asks(r) /\ r.ready = Words
  BY GoalAsks
<1> QED BY <1>1, <1>2, <1>3, PlanFills

LEMMA CandidatesStay ==
  ASSUME Types, NEW members \in Candidates, Fills(reserve, Goal)
  PROVE  members = reserve
<1>1. PICK r : r = Goal
  OBVIOUS
<1>2. PICK order \in Shuffles : members = Range(Plan(r, order).new)
  BY <1>1, CandidatesPlanned
<1>3. Lists(order, Words)
  BY OrdersList
<1>4. Asks(r) /\ r.ready = Words /\ r.preferred = reserve
  BY <1>1, GoalAsks
<1>5. Fills(reserve, r)
  BY <1>1
<1> QED BY <1>2, <1>3, <1>4, <1>5, FilledStays

\* What fills the goal goes on filling it when words beside it fail.
LEMMA GoalFilled ==
  ASSUME Types, Fills(reserve', Goal), Blocked \subseteq Blocked',
         StashWords' = StashWords, DietWords' = DietWords,
         tops' = tops, settings' = settings
  PROVE  Fills(reserve, Goal)'
<1>1. PICK r : r = Goal
  OBVIOUS
<1>2. /\ Asks(r) /\ r.stash = StashWords \ (Blocked \ reserve)
      /\ r.diet = DietWords \ (Blocked \ reserve)
      /\ r.tops = tops /\ r.source = settings.source
      /\ r.weights = settings.weights /\ r.quota = 2 * settings.limit
      /\ r.ready = Words
  BY <1>1, GoalAsks
<1>3. PICK t : t = Goal'
  OBVIOUS
<1>4. /\ t.stash = StashWords \ (Blocked' \ reserve')
      /\ t.diet = DietWords \ (Blocked' \ reserve')
      /\ t.tops = tops /\ t.source = settings.source
      /\ t.weights = settings.weights /\ t.quota = 2 * settings.limit
      /\ t.ready = Words
  BY <1>3 DEF Goal, Request
<1>5. PICK R : R = reserve'
  OBVIOUS
<1>6. Fills(R, r)
  BY <1>1, <1>5
<1>7. R \in SUBSET (r.stash \cup r.diet)
  BY <1>6 DEF Fills
<1>8. t.stash \in SUBSET r.stash /\ t.diet \in SUBSET r.diet
  BY <1>2, <1>4, <1>5, <1>7
<1>9. R \in SUBSET (t.stash \cup t.diet)
  BY <1>2, <1>4, <1>5, <1>7
<1>10. Narrows(t, r)
  BY <1>2, <1>4, <1>8 DEF Narrows
<1>11. Asks(t)
  <2>1. /\ r.stash \in SUBSET Words /\ r.diet \in SUBSET Words
        /\ r.stash \cap r.diet = {}
        /\ r.tops \in Seq(Words) /\ IsInjective(r.tops)
        /\ r.source \in {"mixed", "stash_only"} /\ Dieted(r.weights)
        /\ r.quota \in Nat
    BY <1>2 DEF Asks
  <2> QED BY <2>1, <1>2, <1>4, <1>8 DEF Asks
<1>12. Fills(R, t)
  BY <1>2, <1>6, <1>9, <1>10, <1>11, FillsNarrower
<1> QED BY <1>3, <1>5, <1>12

\* Every step keeps a filled reserve filled, and changes it only where the
\* learner decided something.
LEMMA NextStays ==
  ASSUME Types, Stays, Next
  PROVE  Stays' /\ (settled /\ settled' => reserve' = reserve)
<1>1. CASE Visit
  <2>1. /\ StashWords' = StashWords /\ DietWords' = DietWords
        /\ Blocked' = Blocked /\ tops' = tops /\ settings' = settings
    BY <1>1, VisitTypes
  <2>2. reserve' \in Candidates
    BY <1>1 DEF Visit
  <2>3. Fills(reserve', Goal)
    BY <2>2, CandidatesFill
  <2>4. Fills(reserve, Goal)'
    BY <2>1, <2>3, GoalFilled
  <2> QED BY <2>2, <2>4, CandidatesStay DEF Stays
<1>2. CASE Reconcile
  <2>1. reserve' \in Candidates /\ prep' = Enqueued(reserve')
        /\ UNCHANGED <<unstudied, studied, stash, dismissed, tops, settings>>
    BY <1>2 DEF Reconcile, words
  <2>2. StashWords' = StashWords /\ DietWords' = DietWords
    BY <2>1 DEF StashWords, DietWords
  <2>3. Blocked' = Blocked
    BY <2>1, EnqueuedKeeps
  <2>4. Fills(reserve', Goal)
    BY <2>1, CandidatesFill
  <2>5. Fills(reserve, Goal)'
    BY <2>1, <2>2, <2>3, <2>4, GoalFilled
  <2> QED BY <2>1, <2>5, CandidatesStay DEF Stays
<1>3. ASSUME reserve' = reserve, settled' => settled,
             Blocked \subseteq Blocked',
             settled' => StashWords' = StashWords /\ DietWords' = DietWords,
             tops' = tops, settings' = settings
      PROVE  Stays' /\ (settled /\ settled' => reserve' = reserve)
  <2>1. CASE settled'
    <3>1. Fills(reserve', Goal)
      BY <1>3, <2>1 DEF Stays
    <3>2. Fills(reserve, Goal)'
      BY <1>3, <2>1, <3>1, GoalFilled
    <3> QED BY <1>3, <3>2 DEF Stays
  <2>2. CASE ~settled'
    BY <2>2 DEF Stays
  <2> QED BY <2>1, <2>2
<1>4. CASE NewDay
  BY <1>3, <1>4 DEF NewDay, words, StashWords, DietWords, Blocked
<1>5. CASE Learner
  BY <1>5, LearnerTypes DEF Stays
<1>6. CASE \E i \in Open : \E lessons \in SUBSET sessions[i].new :
             Close(i, lessons)
  <2>1. PICK moved :
          /\ studied' = studied \cup moved /\ unstudied' = unstudied \ moved
          /\ settled' = (settled /\ moved = {})
          /\ UNCHANGED <<stash, dismissed, tops, settings, prep, reserve>>
    BY <1>6 DEF Close
  <2>2. settled' => studied' = studied /\ unstudied' = unstudied
    BY <2>1
  <2> QED BY <1>3, <2>1, <2>2 DEF StashWords, DietWords, Blocked
<1>7. CASE \E w \in Words : \/ Prepared(w) \/ Fails(w)
                            \/ RetryPreparation(w) \/ DemandElsewhere(w)
  <2>1. PICK w \in Words : \/ Prepared(w) \/ Fails(w)
                           \/ RetryPreparation(w) \/ DemandElsewhere(w)
    BY <1>7
  <2>2. CASE RetryPreparation(w)
    BY <2>2 DEF RetryPreparation, Stays
  <2>3. CASE Prepared(w) \/ Fails(w) \/ DemandElsewhere(w)
    <3>1. /\ UNCHANGED <<unstudied, studied, stash, dismissed, tops, settings,
                         reserve, settled>>
          /\ prep[w] # "paused"
          /\ \E to : prep' = [prep EXCEPT ![w] = to]
      BY <2>3 DEF Prepared, Fails, DemandElsewhere, Preparation, Apart, words
    <3>2. Blocked \subseteq Blocked'
      BY <3>1 DEF Blocked, Types
    <3> QED BY <1>3, <3>1, <3>2 DEF StashWords, DietWords
  <2> QED BY <2>1, <2>2, <2>3
<1> QED BY <1>1, <1>2, <1>4, <1>5, <1>6, <1>7 DEF Next

\* Visits, sessions opened or abandoned, readiness and failures leave the
\* reserve as it is: repeated visits never grow speculative work.
THEOREM ReserveStaysAsItIs == Spec => ReserveIsStable
<1>1. ASSUME Init PROVE Types /\ Stays
  BY <1>1, InitTypes DEF Init, Stays
<1>2. ASSUME Types /\ Stays, [Next]_vars
      PROVE  /\ (Types /\ Stays)'
             /\ [settled /\ settled' => reserve' = reserve]_vars
  <2>1. CASE UNCHANGED vars
    <3>1. Types'
      BY <1>2, <2>1 DEF vars, words, Types
    <3>2. Stays'
      BY <1>2, <2>1 DEF vars, words, Stays, Goal, Request, StashWords,
                        DietWords, Blocked
    <3> QED BY <3>1, <3>2, <2>1
  <2>2. CASE Next
    BY <1>2, <2>2, NextTypes, NextStays
  <2> QED BY <1>2, <2>1, <2>2
<1>3. Types /\ Stays /\ [Next]_vars
        => [settled /\ settled' => reserve' = reserve]_vars
  BY <1>2
<1>4. Types /\ Stays /\ [Next]_vars => (Types /\ Stays)'
  BY <1>2
<1> QED BY <1>1, <1>3, <1>4, PTL DEF Spec, ReserveIsStable

-----------------------------------------------------------------------------
(* A plan for twice the quota covers one for a part of it.                 *)

\* t asks for at least twice as much as r, of what may be fewer words.
Covers(t, r) ==
  /\ t.stash \in SUBSET r.stash /\ t.diet \in SUBSET r.diet
  /\ t.tops = r.tops /\ t.source = r.source /\ t.weights = r.weights
  /\ 2 * r.quota <= t.quota

\* Whole parts of a fraction of n and of m >= 2n.
LEMMA PartsDouble ==
  ASSUME NEW n \in Nat, NEW m \in Nat, 2 * n <= m,
         NEW A \in Nat, NEW B \in Nat, A <= B, B > 0,
         NEW c \in Int, NEW e \in Int, c = (n * A) \div B, e = (m * A) \div B
  PROVE  c <= e /\ e <= 2 * c + 1 + (m - 2 * n)
<1>1. PICK N \in Nat : N = n * A
  OBVIOUS
<1>2. PICK M \in Nat : M = m * A
  OBVIOUS
<1>3. PICK j \in Nat : j = m - 2 * n
  OBVIOUS
<1>4. PICK J \in Nat : J = j * A
  BY <1>3
<1>5. M = 2 * N + J
  <2>1. m * A = (2 * n + j) * A
    BY <1>3
  <2>2. (2 * n + j) * A = 2 * (n * A) + j * A
    BY <1>3
  <2> QED BY <2>1, <2>2, <1>1, <1>2, <1>4
<1>6. PICK H \in Nat : H = j * B
  BY <1>3
<1>7. J <= H
  BY <1>3, <1>4, <1>6
<1>8. c * B <= N /\ N < (c + 1) * B
  <2>1. c = N \div B
    BY <1>1
  <2> QED BY <2>1
<1>9. e * B <= M /\ M < (e + 1) * B
  <2>1. e = M \div B
    BY <1>2
  <2> QED BY <2>1
<1>10. c <= e
  <2>1. c * B < (e + 1) * B
    BY <1>5, <1>8, <1>9
  <2>2. c >= e + 1 => c * B >= (e + 1) * B
    OBVIOUS
  <2>3. c * B \in Int /\ (e + 1) * B \in Int
    OBVIOUS
  <2> QED BY <2>1, <2>2, <2>3
<1>11. e < 2 * c + 2 + j
  <2>1. (2 * c + 2 + j) * B = (c + 1) * B + (c + 1) * B + H
    BY <1>3, <1>6
  <2>2. e * B < (2 * c + 2 + j) * B
    <3>1. PICK x \in Int : x = (c + 1) * B
      OBVIOUS
    <3>2. PICK y \in Int : y = e * B
      OBVIOUS
    <3>3. y <= M /\ N < x
      BY <1>8, <1>9, <3>1, <3>2
    <3>4. y < x + x + H
      BY <3>3, <1>5, <1>7
    <3> QED BY <2>1, <3>1, <3>2, <3>4
  <2>3. PICK u \in Int : u = 2 * c + 2 + j
    BY <1>3
  <2>4. e * B < u * B
    BY <2>2, <2>3
  <2>5. e >= u => e * B >= u * B
    OBVIOUS
  <2>6. e * B \in Int /\ u * B \in Int
    OBVIOUS
  <2> QED BY <2>3, <2>4, <2>5, <2>6
<1> QED BY <1>3, <1>10, <1>11

\* The stash's share of the larger request is no smaller, and its demand of the
\* decks is twice the other's, rounded.
LEMMA DemandDoubles ==
  ASSUME NEW r, Asks(r), NEW t, Asks(t), Covers(t, r)
  PROVE  /\ Share(r) <= Share(t)
         /\ DietDemand(r) > 0 => DietDemand(t) >= 2 * DietDemand(r) - 1
<1>1. PICK n \in Nat : n = r.quota
  BY DEF Asks
<1>2. PICK m \in Nat : m = t.quota /\ 2 * n <= m
  BY <1>1 DEF Asks, Covers
<1>3. PICK A \in Nat : A = ShareParts
  BY AdmissionAssumption
<1>4. PICK B \in Nat : B = ShareOf /\ A <= B /\ B > 0
  BY <1>3, AdmissionAssumption
<1>5. t.source = r.source
  BY DEF Covers
<1>6. CASE r.source = "stash_only"
  <2>1. Share(r) = n /\ Share(t) = m
    BY <1>1, <1>2, <1>5, <1>6 DEF Share
  <2>2. DietDemand(r) = 0
    BY <1>6 DEF DietDemand
  <2> QED BY <1>2, <2>1, <2>2
<1>7. CASE r.source # "stash_only"
  <2>1. PICK c \in Int : c = (n * A) \div B /\ c = Share(r)
    BY <1>1, <1>3, <1>4, <1>7 DEF Share
  <2>2. PICK e \in Int : e = (m * A) \div B /\ e = Share(t)
    BY <1>2, <1>3, <1>4, <1>5, <1>7 DEF Share
  <2>3. c <= e /\ e <= 2 * c + 1 + (m - 2 * n)
    BY <1>2, <1>3, <1>4, <2>1, <2>2, PartsDouble
  <2>4. c \in Nat /\ c <= n /\ e \in Nat
    BY <1>1, <2>1, <2>2, ShareBounds
  <2>5. PICK S \in SUBSET Words : S = r.stash
    BY DEF Asks
  <2>6. PICK s \in Nat : s = Cardinality(S)
    BY Counted
  <2>7. PICK u \in Nat : u = Cardinality(t.stash) /\ u <= s
    <3>1. t.stash \in SUBSET S
      BY <2>5 DEF Covers
    <3> QED BY <3>1, <2>6, Counted
  <2>8. DietDemand(r) = n - Least(c, s) /\ DietDemand(t) = m - Least(e, u)
    BY <1>1, <1>2, <1>5, <1>7, <2>1, <2>2, <2>5, <2>6, <2>7 DEF DietDemand
  <2>9. m - Least(e, u) >= 2 * (n - Least(c, s)) - 1
    <3>1. CASE s <= c
      <4>1. Least(c, s) = s /\ Least(e, u) <= s
        BY <3>1, <2>4, <2>6, <2>7 DEF Least
      <4>2. Least(e, u) \in Nat
        BY <2>4, <2>7 DEF Least
      <4> QED BY <4>1, <4>2, <1>2, <2>6
    <3>2. CASE s > c
      <4>1. Least(c, s) = c /\ Least(e, u) <= e /\ Least(e, u) \in Nat
        BY <3>2, <2>4, <2>6, <2>7 DEF Least
      <4> QED BY <4>1, <1>2, <2>3, <2>4
    <3> QED BY <3>1, <3>2, <2>4, <2>6
  <2> QED BY <2>1, <2>2, <2>3, <2>8, <2>9
<1> QED BY <1>6, <1>7

\* One deck of LeftGrows.
LEMMA LeftStep ==
  ASSUME NEW x \in Nat, NEW y \in Nat, x <= y,
         NEW p \in Nat, NEW q \in Nat, q <= p,
         NEW w \in Nat, NEW v \in Nat, (w = x /\ v <= y) \/ x - w <= y - v
  PROVE  x - Least(w, p) <= y - Least(v, q)
BY DEF Least

\* Whatever is left behind a deck of the smaller quota is left of the larger.
LEMMA LeftGrows ==
  ASSUME NEW r, Asks(r), NEW t, Asks(t), Covers(t, r),
         NEW a, NEW k, Split(r.weights, a, k),
         NEW n \in Nat, NEW m \in Nat, n <= m,
         NEW g, Spreads(g, r, a, k, n), NEW h, Spreads(h, t, a, k, m)
  PROVE  \A d \in 0..Decks : /\ g[d] \in 0..n /\ h[d] \in 0..m
                             /\ n - g[d] <= m - h[d]
<1>1. /\ Decks \in Nat /\ a \in 1..Decks /\ a \in Nat /\ k \in 0..Quanta - 1
  BY AdmissionAssumption DEF Split
<1>2. Split(t.weights, a, k)
  BY DEF Covers
<1>3. /\ g \in [0..Decks -> 0..n] /\ g[0] = 0
      /\ h \in [0..Decks -> 0..m] /\ h[0] = 0
      /\ \A d \in 1..Decks :
           /\ g[d] = g[d - 1] + Least(Wanted(d, n - g[d - 1], a, k, n),
                                      Cardinality(Pool(r, d)))
           /\ h[d] = h[d - 1] + Least(Wanted(d, m - h[d - 1], a, k, m),
                                      Cardinality(Pool(t, d)))
  BY DEF Spreads
<1>4. \A d \in 1..Decks : /\ Wanted(d, n - g[d - 1], a, k, n) \in 0..n
                          /\ Wanted(d, m - h[d - 1], a, k, m) \in 0..m
  BY <1>2, SpreadsPlaces
<1>5. PICK i \in 0..n : i = Later(n, k)
  BY <1>1, LaterBounds
<1>6. PICK j \in 0..m : j = Later(m, k) /\ i <= j /\ n - i <= m - j
  BY <1>1, <1>5, LaterBounds, LaterGrows
<1> DEFINE G == {d \in Nat :
                   /\ n - g[d] <= m - h[d]
                   /\ d < a => g[d] = 0 /\ h[d] = 0
                   /\ d = a => n - g[d] - i <= m - h[d] - j}
<1>7. 0 \in G
  BY <1>1, <1>3
<1>8. ASSUME NEW b \in 0..Decks - 1, b \in G PROVE b + 1 \in G
  <2>1. PICK d \in 1..Decks : d = b + 1 /\ d - 1 = b /\ d \in Nat
    BY <1>1
  <2>0. b \in 0..Decks /\ g[b] \in 0..n /\ h[b] \in 0..m
    <3>1. b \in 0..Decks
      BY <1>1
    <3> QED BY <3>1, <1>3
  <2>2. PICK x \in Nat : x = n - g[b]
    BY <2>0
  <2>3. PICK y \in Nat : y = m - h[b] /\ x <= y
    BY <2>0, <1>8, <2>2
  <2>4. (b < a => x = n /\ y = m) /\ (b = a => x - i <= y - j)
    BY <1>8, <2>2, <2>3
  <2>5. PICK w \in Nat : w = Wanted(d, x, a, k, n)
    BY <1>4, <2>1, <2>2
  <2>6. PICK v \in Nat : v = Wanted(d, y, a, k, m)
    BY <1>4, <2>1, <2>3
  <2>7. PICK p \in Nat : p = Cardinality(Pool(r, d))
    BY PoolBounds
  <2>8. PICK q \in Nat : q = Cardinality(Pool(t, d)) /\ q <= p
    <3>1. Pool(t, d) \in SUBSET Pool(r, d) /\ Pool(r, d) \in SUBSET Words
      BY DEF Pool, Covers, Asks
    <3> QED BY <3>1, <2>7, Counted
  <2>9. g[d] = g[b] + Least(w, p) /\ h[d] = h[b] + Least(v, q)
    BY <1>3, <2>1, <2>2, <2>3, <2>5, <2>6, <2>7, <2>8
  <2>10. g[b] \in Nat /\ h[b] \in Nat
         /\ Least(w, p) \in Nat /\ Least(v, q) \in Nat
    BY <2>0, <2>5, <2>6, <2>7, <2>8 DEF Least
  <2>11. n - g[d] = x - Least(w, p) /\ m - h[d] = y - Least(v, q)
    BY <2>2, <2>3, <2>9, <2>10
  <2>12. (w = x /\ v <= y) \/ x - w <= y - v
    <3>1. CASE d < a
      BY <3>1, <2>3, <2>5, <2>6 DEF Wanted
    <3>2. CASE d = a
      <4>0. x = n /\ y = m
        BY <3>2, <2>1, <2>4, <1>1
      <4>1. w = n - i /\ v = m - j /\ x = n /\ y = m
        BY <3>2, <4>0, <2>5, <2>6, <1>5, <1>6, <1>1 DEF Wanted
      <4> QED BY <4>1, <1>5, <1>6
    <3>3. CASE d = a + 1 /\ i > 0
      <4>1. w = i /\ v = j /\ b = a
        BY <3>3, <2>1, <2>5, <2>6, <1>1, <1>5, <1>6 DEF Wanted
      <4> QED BY <4>1, <2>4
    <3>4. CASE d = a + 1 /\ ~(i > 0)
      <4>1. w = x /\ (v = y \/ v = j) /\ b = a
        BY <3>4, <2>1, <2>5, <2>6, <1>1, <1>5, <1>6 DEF Wanted
      <4>2. x - i <= y - j /\ i = 0
        BY <3>4, <4>1, <2>4, <1>5
      <4>3. j <= y
        BY <4>2, <2>2, <2>3, <1>6
      <4> QED BY <4>1, <4>3, <2>3
    <3>5. CASE d > a + 1
      BY <3>5, <2>3, <2>5, <2>6, <1>1 DEF Wanted
    <3> QED BY <3>1, <3>2, <3>3, <3>4, <3>5, <1>1, <2>1
  <2>13. x - Least(w, p) <= y - Least(v, q)
    BY <2>2, <2>3, <2>5, <2>6, <2>7, <2>8, <2>12, LeftStep
  <2>14. d < a => g[d] = 0 /\ h[d] = 0
    <3>1. ASSUME d < a PROVE g[d] = 0 /\ h[d] = 0
      <4>1. w = 0 /\ v = 0 /\ g[b] = 0 /\ h[b] = 0
        BY <3>1, <1>8, <2>1, <2>5, <2>6, <1>1 DEF Wanted
      <4>2. Least(w, p) = 0 /\ Least(v, q) = 0
        BY <4>1, <2>7, <2>8 DEF Least
      <4> QED BY <4>1, <4>2, <2>9
    <3> QED BY <3>1
  <2>15. d = a => n - g[d] - i <= m - h[d] - j
    <3>1. ASSUME d = a PROVE n - g[d] - i <= m - h[d] - j
      <4>0. x = n /\ y = m
        BY <3>1, <2>1, <2>4, <1>1
      <4>1. w = n - i /\ v = m - j /\ x = n /\ y = m
        BY <3>1, <4>0, <2>5, <2>6, <1>5, <1>6, <1>1 DEF Wanted
      <4>2. n - i - Least(n - i, p) <= m - j - Least(m - j, q)
        BY <1>5, <1>6, <2>7, <2>8 DEF Least
      <4>3. Least(w, p) \in Nat /\ Least(v, q) \in Nat
        BY <2>10
      <4> QED BY <4>1, <4>2, <4>3, <2>11, <1>5, <1>6
    <3> QED BY <3>1
  <2>16. n - g[d] <= m - h[d]
    BY <2>11, <2>13
  <2> QED BY <2>1, <2>14, <2>15, <2>16
<1> HIDE DEF G
<1>9. \A d \in 0..Decks : d \in G
  BY <1>1, <1>7, <1>8, InductionUpTo
<1> QED BY <1>3, <1>9 DEF G

\* Of more places more is taken.
LEMMA TakeGrows ==
  ASSUME NEW s \in Seq(Words), NEW n \in Nat, NEW m \in Nat, n <= m
  PROVE  Range(Take(s, n)) \subseteq Range(Take(s, m))
<1>1. PICK a : a = Take(s, n)
  OBVIOUS
<1>2. PICK b : b = Take(s, m)
  OBVIOUS
<1>3. /\ DOMAIN a = 1..Least(n, Len(s))
      /\ \A i \in 1..Least(n, Len(s)) : a[i] = s[i]
  BY <1>1, TakeValues
<1>4. /\ DOMAIN b = 1..Least(m, Len(s))
      /\ \A i \in 1..Least(m, Len(s)) : b[i] = s[i]
  BY <1>2, TakeValues
<1>5. Len(s) \in Nat
  BY LenProperties
<1>6. ASSUME NEW i \in DOMAIN a PROVE i \in DOMAIN b /\ a[i] = b[i]
  BY <1>3, <1>4, <1>5 DEF Least
<1> QED BY <1>1, <1>2, <1>6 DEF Range

\* The larger quota gives a deck as many places, as far as it has the words:
\* all but the harder deck of two that the smaller quota's places all round
\* away from.
LEMMA WantedGrows ==
  ASSUME NEW r, Asks(r), NEW t, Asks(t), Covers(t, r),
         NEW a, NEW k, Split(r.weights, a, k),
         NEW n \in Nat, NEW m \in Nat, n <= m,
         NEW g, Spreads(g, r, a, k, n), NEW h, Spreads(h, t, a, k, m),
         NEW d \in 1..Decks,
         ~(d = a + 1 /\ Later(n, k) = 0 /\ Later(m, k) > 0)
  PROVE  Wanted(d, n - g[d - 1], a, k, n) <= Wanted(d, m - h[d - 1], a, k, m)
<1>1. /\ Decks \in Nat /\ a \in Nat /\ k \in 0..Quanta - 1
      /\ d \in Nat /\ d - 1 \in 0..Decks
  BY AdmissionAssumption DEF Split
<1>2. PICK i \in 0..n : i = Later(n, k)
  BY <1>1, LaterBounds
<1>3. PICK j \in 0..m : j = Later(m, k) /\ i <= j /\ n - i <= m - j
  BY <1>1, <1>2, LaterBounds, LaterGrows
<1>4. g[d - 1] \in 0..n /\ h[d - 1] \in 0..m /\ n - g[d - 1] <= m - h[d - 1]
  BY <1>1, LeftGrows
<1>5. PICK x \in Nat : x = n - g[d - 1]
  BY <1>4
<1>6. PICK y \in Nat : y = m - h[d - 1] /\ x <= y
  BY <1>4, <1>5
<1>7. Wanted(d, x, a, k, n) <= Wanted(d, y, a, k, m)
  <2>1. CASE d < a
    BY <2>1 DEF Wanted
  <2>2. CASE d = a
    BY <2>2, <1>1, <1>2, <1>3 DEF Wanted
  <2>3. CASE d = a + 1 /\ i > 0
    BY <2>3, <1>1, <1>2, <1>3 DEF Wanted
  <2>4. CASE d = a + 1 /\ i = 0
    <3>1. j = 0
      BY <2>4, <1>2, <1>3
    <3> QED BY <2>4, <3>1, <1>1, <1>2, <1>3, <1>6 DEF Wanted
  <2>5. CASE d > a + 1
    BY <2>5, <1>1, <1>6 DEF Wanted
  <2> QED BY <2>1, <2>2, <2>3, <2>4, <2>5, <1>1, <1>2
<1> QED BY <1>5, <1>6, <1>7

\* A set that takes fewer of S than its share of n has all of it.
LEMMA WholeTaken ==
  ASSUME NEW S \in SUBSET Words, NEW R, NEW n \in Nat,
         Cardinality(R \cap S) >= Least(n, Cardinality(S)),
         Cardinality(R \cap S) < n
  PROVE  S \subseteq R
<1>1. PICK c \in Nat : c = Cardinality(S)
  BY Counted
<1>2. PICK e \in Nat : e = Cardinality(R \cap S) /\ e <= c
  <2>1. R \cap S \in SUBSET S
    OBVIOUS
  <2> QED BY <2>1, <1>1, Counted
<1>3. e = c
  BY <1>1, <1>2 DEF Least
<1>4. R \cap S \in SUBSET S /\ Cardinality(R \cap S) = Cardinality(S)
  BY <1>1, <1>2, <1>3
<1>5. R \cap S = S
  BY <1>4, Counted
<1> QED BY <1>5

\* What fills the larger request has the words of the stash that the smaller
\* one plans for with it preferred.
LEMMA StashCovered ==
  ASSUME NEW r, Asks(r), NEW t, Asks(t), Covers(t, r),
         NEW R, Fills(R, t), r.preferred = R,
         NEW order, Lists(order, Words),
         NEW P, P = Range(StashPlanned(r, order))
  PROVE  P \cap t.stash \subseteq R
<1>1. PICK n \in Nat : n = Share(r)
  BY ShareBounds
<1>2. PICK m \in Nat : m = Share(t) /\ n <= m
  BY <1>1, ShareBounds, DemandDoubles
<1>3. PICK S \in SUBSET Words : S = r.stash
  BY DEF Asks
<1>4. PICK U \in SUBSET S : U = t.stash
  BY <1>3 DEF Covers
<1>5. PICK tops0 \in Seq(Words) : tops0 = r.tops /\ tops0 = t.tops
  BY DEF Asks, Covers
<1>6. PICK D : D = Range(StashDrawn(r, order))
  OBVIOUS
<1>7. PICK L : L = Range(r.tops) \cap r.stash
  OBVIOUS
<1>8. PICK F : F = Range(Take(Among(r.tops, r.stash), Share(r)))
  OBVIOUS
<1>9. Leads(r, P, D, L, F)
  BY <1>6, <1>7, <1>8, StashLeaders
<1> SUFFICES ASSUME NEW w \in P \cap U PROVE w \in R
  BY <1>4
<1>10. w \in F \/ w \in R \/ Cardinality(S \cap R) < n
  BY <1>1, <1>3, <1>9 DEF Leads
<1>11. CASE w \in F
  <2>1. F = Range(Take(Among(tops0, S), n))
    BY <1>1, <1>3, <1>5, <1>8
  <2>2. w \in Range(Take(Among(tops0, U), n))
    BY <2>1, <1>11, NarrowerAdvances
  <2>3. Among(tops0, U) \in Seq(Words)
    BY AmongType
  <2>4. w \in Range(Take(Among(tops0, U), m))
    BY <2>2, <2>3, <1>2, TakeGrows
  <2>5. Range(Take(Among(tops0, U), m)) \subseteq R
    BY <1>2, <1>4, <1>5 DEF Fills
  <2> QED BY <2>4, <2>5
<1>12. CASE Cardinality(S \cap R) < n
  <2>1. Cardinality(R \cap U) = Least(m, Cardinality(U))
    BY <1>2, <1>4 DEF Fills
  <2>2. Cardinality(R \cap U) <= Cardinality(S \cap R)
        /\ Cardinality(R \cap U) \in Nat /\ Cardinality(S \cap R) \in Nat
    <3>1. S \cap R \in SUBSET Words /\ R \cap U \in SUBSET (S \cap R)
      OBVIOUS
    <3> QED BY <3>1, Counted
  <2>3. Cardinality(R \cap U) < m
    BY <2>2, <1>2, <1>12
  <2>4. U \in SUBSET Words /\ Cardinality(U) \in Nat
    <3>1. U \in SUBSET Words
      OBVIOUS
    <3> QED BY <3>1, Counted
  <2>5. Cardinality(R \cap U) >= Least(m, Cardinality(U))
    BY <2>1, <2>2
  <2>6. U \subseteq R
    BY <2>3, <2>4, <2>5, WholeTaken
  <2> QED BY <2>6
<1> QED BY <1>10, <1>11, <1>12

\* The words of the harder deck of two that n places all round away from.
Harder(a, k, n) ==
  {w \in Words : DeckOf[w] = a + 1 /\ Later(n, k) = 0 /\ k > 0 /\ a < Decks}

\* And of the decks, but for those the smaller demand rounds away from.
LEMMA DietCovered ==
  ASSUME NEW r, Asks(r), NEW t, Asks(t), Covers(t, r),
         NEW R, Fills(R, t), r.preferred = R,
         NEW order, Lists(order, Words),
         NEW a, NEW k, Split(r.weights, a, k),
         NEW n, n = DietDemand(r), n > 0,
         NEW Q, Q = DietPlan(r, order).planned,
         NEW X, X = Harder(a, k, n)
  PROVE  Q \cap t.diet \subseteq R \cup r.ready \cup X
<1> SUFFICES ASSUME NEW w \in Q, w \in t.diet, w \notin r.ready, w \notin R
             PROVE  DeckOf[w] = a + 1 /\ Later(n, k) = 0 /\ k > 0 /\ a < Decks
  <2>1. t.diet \in SUBSET Words
    BY DEF Asks
  <2> QED BY <2>1 DEF Harder
<1>1. n \in Nat
  BY DemandBounds, ShareBounds
<1>2. PICK m \in Nat : m = DietDemand(t) /\ m >= 2 * n - 1 /\ n <= m
  <2>1. DietDemand(t) \in Nat /\ DietDemand(t) >= 2 * n - 1
    BY DemandBounds, ShareBounds, DemandDoubles
  <2> QED BY <2>1, <1>1
<1>3. PICK T \in SUBSET Words : T = r.diet
  BY DEF Asks
<1>4. PICK V \in SUBSET T : V = t.diet
  BY <1>3 DEF Covers
<1>5. PICK g : g = Given(r, Target(r))
  OBVIOUS
<1>6. PICK h : h = Given(t, Target(t))
  OBVIOUS
<1>7. Split(t.weights, a, k)
  BY DEF Covers
<1>8. Spreads(g, r, a, k, n) /\ Spreads(h, t, a, k, m)
  BY <1>1, <1>2, <1>5, <1>6, <1>7, GivenSpreads
<1>9. DietDealt(DietPlan(r, order), r, g)
  BY <1>5, DietDeals
<1>10. \/ \E d \in 1..Decks :
            /\ w \in Pool(r, d)
            /\ Cardinality(Pool(r, d) \cap R) < g[d] - g[d - 1]
       \/ /\ g[Decks] < n
          /\ Cardinality(T \cap R) < n + g[Decks]
  BY <1>3, <1>9 DEF DietDealt
<1>11. CASE /\ g[Decks] < n
            /\ Cardinality(T \cap R) < n + g[Decks]
  <2>1. g[Decks] \in 0..n
    BY <1>1, <1>8, SpreadsPlaces
  <2>2. T \cap R \in SUBSET Words /\ R \cap V \in SUBSET (T \cap R)
    OBVIOUS
  <2>3. /\ Cardinality(R \cap V) <= Cardinality(T \cap R)
        /\ Cardinality(R \cap V) \in Nat /\ Cardinality(T \cap R) \in Nat
    BY <2>2, Counted
  <2>4. Cardinality(R \cap V) < m
    BY <2>1, <2>3, <1>1, <1>2, <1>11
  <2>5. Cardinality(R \cap V) >= Least(m, Cardinality(V))
    <3>1. Cardinality(R \cap V) = Least(m, Cardinality(V))
      BY <1>2, <1>4 DEF Fills
    <3> QED BY <3>1, <2>3
  <2>6. V \in SUBSET Words
    OBVIOUS
  <2>7. V \subseteq R
    BY <2>4, <2>5, <2>6, WholeTaken
  <2> QED BY <2>7, <1>4
<1>12. ASSUME NEW d \in 1..Decks, w \in Pool(r, d),
              Cardinality(Pool(r, d) \cap R) < g[d] - g[d - 1]
       PROVE  DeckOf[w] = a + 1 /\ Later(n, k) = 0 /\ k > 0 /\ a < Decks
  <2>1. PICK A \in SUBSET Words : A = Pool(r, d)
    BY PoolBounds
  <2>2. PICK B \in SUBSET A : B = Pool(t, d)
    <3>1. Pool(t, d) \in SUBSET A
      BY <2>1 DEF Pool, Covers
    <3> QED BY <3>1
  <2>3. w \in B /\ DeckOf[w] = d
    BY <1>12, <2>1, <2>2 DEF Pool
  <2>4. g[d - 1] \in 0..n /\ h[d - 1] \in 0..m
        /\ Wanted(d, n - g[d - 1], a, k, n) \in 0..n
        /\ Wanted(d, m - h[d - 1], a, k, m) \in 0..m
    BY <1>1, <1>7, <1>8, SpreadsPlaces
  <2>5. PICK x \in Nat : x = Wanted(d, n - g[d - 1], a, k, n)
    BY <2>4
  <2>6. PICK y \in Nat : y = Wanted(d, m - h[d - 1], a, k, m)
    BY <2>4
  <2>7. PICK p \in Nat : p = Cardinality(A)
    BY Counted
  <2>8. PICK q \in Nat : q = Cardinality(B) /\ q <= p
    BY <2>7, Counted
  <2>9. g[d] = g[d - 1] + Least(x, p) /\ h[d] = h[d - 1] + Least(y, q)
    BY <1>8, <2>1, <2>2, <2>5, <2>6, <2>7, <2>8 DEF Spreads
  <2>10. Least(x, p) \in Nat /\ Least(y, q) \in Nat /\ Least(x, p) <= x
    BY <2>5, <2>6, <2>7, <2>8 DEF Least
  <2>11. g[d] - g[d - 1] = Least(x, p) /\ h[d] - h[d - 1] = Least(y, q)
    BY <2>4, <2>9, <2>10
  <2>12. A \cap R \in SUBSET Words /\ R \cap B \in SUBSET (A \cap R)
    OBVIOUS
  <2>13. /\ Cardinality(R \cap B) <= Cardinality(A \cap R)
         /\ Cardinality(R \cap B) \in Nat /\ Cardinality(A \cap R) \in Nat
    BY <2>12, Counted
  <2>14. Cardinality(R \cap B) < x
    BY <2>1, <2>5, <2>10, <2>11, <2>13, <1>12
  <2>15. Cardinality(R \cap B) >= Least(y, q)
    <3>1. Cardinality(R \cap B) >= DeckPlaces(t, d)
      BY <1>2, <1>1, <2>2 DEF Fills
    <3> QED BY <3>1, <2>11, <1>6 DEF DeckPlaces
  <2>16. CASE d = a + 1 /\ Later(n, k) = 0 /\ Later(m, k) > 0
    <3>1. k \in 0..Quanta - 1 /\ (k > 0 => a < Decks)
      BY DEF Split
    <3>2. k # 0
      BY <3>1, <2>16, LaterBounds
    <3> QED BY <3>1, <3>2, <2>3, <2>16
  <2>17. CASE ~(d = a + 1 /\ Later(n, k) = 0 /\ Later(m, k) > 0)
    <3>1. x <= y
      BY <2>17, <2>5, <2>6, <1>1, <1>2, <1>8, WantedGrows
    <3>2. Cardinality(R \cap B) < y
      BY <3>1, <2>5, <2>6, <2>13, <2>14
    <3>3. B \in SUBSET Words
      OBVIOUS
    <3>4. B \subseteq R
      BY <3>2, <3>3, <2>15, <2>8, <2>6, WholeTaken
    <3> QED BY <3>4, <2>3
  <2> QED BY <2>16, <2>17
<1> QED BY <1>10, <1>11, <1>12

-----------------------------------------------------------------------------
(* The reserve serves the day.                                             *)

\* A word of a deck of r's diet that is harder than any its quota is split
\* among.
Away(w, r) ==
  /\ w \in r.diet /\ r.weights[DeckOf[w]] > 0
  /\ \A d \in DeckOf[w]..Decks : Target(r)[d] = 0

\* What a session waits for is in the reserve it was composed from, but for
\* what failed and what its quota rounds away from.
LEMMA AskedServed ==
  ASSUME Types, NEW r, NEW p, NEW P, NEW D, NEW Q, NEW E,
         Visits(r, p, P, D, Q, E),
         NEW w \in p.asked, w \notin Blocked, w \notin reserve'
  PROVE  Away(w, r)
<1>1. PICK order \in Shuffles :
        /\ P = Range(StashPlanned(r, order))
        /\ Q = DietPart(r, order).planned
  BY DEF Visits
<1>2. Lists(order, Words)
  BY OrdersList
<1>3. /\ Asks(r) /\ r.stash = StashWords /\ r.diet = DietWords
      /\ r.tops = tops /\ r.source = settings.source
      /\ r.weights = settings.weights
      /\ r.quota = IF settings.limit > taught THEN settings.limit - taught ELSE 0
      /\ reserve' \in Candidates
  BY DEF Visits
<1>4. PICK R : R = reserve' /\ R = r.preferred
  BY DEF Visits
<1>5. PICK t : t = Goal
  OBVIOUS
<1>6. /\ Asks(t) /\ t.stash = StashWords \ (Blocked \ reserve)
      /\ t.diet = DietWords \ (Blocked \ reserve)
      /\ t.tops = tops /\ t.source = settings.source
      /\ t.weights = settings.weights /\ t.quota = 2 * settings.limit
  BY <1>5, GoalAsks
<1>7. Fills(R, t)
  BY <1>3, <1>4, <1>5, CandidatesFill
<1>8. Covers(t, r)
  <2>1. settings.limit \in Nat /\ taught \in Nat
    BY DEF Types
  <2>2. 2 * r.quota <= t.quota
    BY <2>1, <1>3, <1>6
  <2> QED BY <2>2, <1>3, <1>6 DEF Covers
<1>9. /\ w \in P \cup Q /\ w \notin r.ready
      /\ P \in SUBSET r.stash /\ Q \in SUBSET r.diet
  BY DEF Visits, Sides
<1>10. w \notin P
  <2>1. P \cap t.stash \subseteq R
    BY <1>1, <1>2, <1>3, <1>4, <1>6, <1>7, <1>8, StashCovered
  <2>2. w \in P => w \in t.stash
    BY <1>3, <1>6, <1>9
  <2> QED BY <2>1, <2>2, <1>4
<1>11. w \in Q /\ w \in r.diet /\ w \in t.diet /\ w \notin R
  BY <1>3, <1>4, <1>6, <1>9, <1>10
<1>12. PICK n \in Nat : n = DietDemand(r)
  BY <1>3, DemandBounds, ShareBounds
<1>13. n > 0 /\ Q = DietPlan(r, order).planned
  BY <1>1, <1>11, <1>12 DEF DietPart
<1>14. PICK a, k : Split(r.weights, a, k)
  BY <1>3, DietSplits
<1>15. DeckOf[w] = a + 1 /\ Later(n, k) = 0 /\ k > 0 /\ a < Decks
  <2>1. PICK X : X = Harder(a, k, n)
    OBVIOUS
  <2>2. Q \cap t.diet \subseteq R \cup r.ready \cup X
    BY <2>1, <1>2, <1>3, <1>4, <1>6, <1>7, <1>8, <1>12, <1>13, <1>14,
       DietCovered
  <2> QED BY <2>1, <2>2, <1>9, <1>11 DEF Harder
<1>16. Target(r) = SplitTarget(a, k, n)
  BY <1>3, <1>12, <1>14, TargetSplits
<1>17. a \in Nat /\ a + 1 \in 1..Decks /\ Decks \in Nat
  BY <1>14, <1>15, AdmissionAssumption DEF Split
<1>18. r.weights[DeckOf[w]] > 0
  <2>1. r.weights[a + 1] = k
    BY <1>14, <1>17 DEF Split
  <2> QED BY <2>1, <1>15
<1>19. ASSUME NEW d \in DeckOf[w]..Decks PROVE Target(r)[d] = 0
  <2>1. d \in 1..Decks /\ d # a
    BY <1>15, <1>17
  <2> QED BY <2>1, <1>15, <1>16 DEF SplitTarget
<1> QED BY <1>11, <1>18, <1>19 DEF Away

\* A session that waits for nothing offers what its quota allows of the
\* learner's words.
LEMMA NothingWaits ==
  ASSUME NEW r, NEW p, NEW P, NEW D, NEW Q, NEW E,
         Asks(r), Sides(p, r, P, D, Q, E), p.asked = {},
         NEW s, s = Least(Share(r), Cardinality(r.stash))
  PROVE  Cardinality(Range(p.new)) =
           IF r.source = "stash_only" THEN s
           ELSE s + Least(r.quota - s, Cardinality(r.diet))
<1>1. PICK S \in SUBSET Words : S = r.stash
  BY DEF Asks
<1>2. PICK T \in SUBSET Words : T = r.diet
  BY DEF Asks
<1>3. PICK n \in Nat : n = DietDemand(r)
  BY DemandBounds, ShareBounds
<1>4. PICK m \in Nat : m = Share(r)
  BY ShareBounds
<1>5. P \in SUBSET D /\ Q \in SUBSET E
  BY DEF Sides
<1>6. /\ Range(p.new) = D \cup E /\ D \in SUBSET S /\ E \in SUBSET T
      /\ S \cap T = {} /\ D \cap E = {}
  BY <1>1, <1>2 DEF Sides, Asks
<1>7. PICK x \in Nat : x = Cardinality(S)
  BY Counted
<1>8. PICK y \in Nat : y = Cardinality(T)
  BY Counted
<1>9. PICK d \in Nat : d = Cardinality(D) /\ IsFiniteSet(D)
  BY <1>6, Counted
<1>10. PICK e \in Nat : e = Cardinality(E) /\ e <= y /\ IsFiniteSet(E)
  BY <1>6, <1>8, Counted
<1>11. s = Least(m, x) /\ s \in Nat
  BY <1>1, <1>4, <1>7 DEF Least
<1>12. d = s
  <2>1. Cardinality(P) = s
    BY <1>1, <1>4, <1>7, <1>11 DEF Sides
  <2>2. s <= d
    <3>1. D \in SUBSET Words
      BY <1>6
    <3> QED BY <3>1, <2>1, <1>5, <1>9, Counted
  <2>3. PICK z \in Nat : z = Cardinality(S \cap r.ready) /\ z <= x
    <3>1. S \cap r.ready \in SUBSET S
      OBVIOUS
    <3> QED BY <3>1, <1>7, Counted
  <2>4. d = Least(m, z)
    BY <2>3, <1>1, <1>4, <1>9 DEF Sides
  <2> QED BY <2>2, <2>3, <2>4, <1>11 DEF Least
<1>13. e = Least(n, y)
  <2>1. Cardinality(Q) >= Least(n, y) /\ e <= n
    BY <1>2, <1>3, <1>8, <1>10 DEF Sides
  <2>2. Cardinality(Q) <= e /\ Cardinality(Q) \in Nat
    <3>1. E \in SUBSET Words
      BY <1>6
    <3> QED BY <3>1, <1>5, <1>10, Counted
  <2> QED BY <2>1, <2>2, <1>10 DEF Least
<1>14. Cardinality(D \cup E) = d + e
  <2>1. Cardinality(D \cup E) = d + e - Cardinality(D \cap E)
    BY <1>9, <1>10, FS_Union
  <2>2. Cardinality(D \cap E) = 0
    BY <1>6, FS_EmptySet
  <2> QED BY <2>1, <2>2, <1>9, <1>10
<1>15. CASE r.source = "stash_only"
  <2>1. n = 0
    BY <1>3, <1>15 DEF DietDemand
  <2>2. e = 0
    BY <2>1, <1>13 DEF Least
  <2> QED BY <2>2, <1>6, <1>12, <1>14, <1>15
<1>16. CASE r.source # "stash_only"
  <2>1. n = r.quota - s
    BY <1>1, <1>3, <1>4, <1>7, <1>11, <1>16 DEF DietDemand
  <2>2. Cardinality(r.diet) = y
    BY <1>2, <1>8
  <2> QED BY <2>1, <2>2, <1>6, <1>12, <1>13, <1>14, <1>16
<1> QED BY <1>15, <1>16

\* So a visit finds what it waits for in the reserve.
LEMMA VisitServes ==
  ASSUME Types, Visit
  PROVE  ReserveServesTheDay'
<1>1. PICK r, p, P, D, Q, E : Visits(r, p, P, D, Q, E)
  BY VisitSides
<1>2. /\ StashWords' = StashWords /\ DietWords' = DietWords
      /\ Blocked' = Blocked /\ settings' = settings
  BY VisitTypes
<1>3. /\ composed'.quota = r.quota /\ composed'.asked = p.asked
      /\ composed'.offered = Range(p.new)
  BY <1>1 DEF Visits
<1>4. /\ Asks(r) /\ r.stash = StashWords /\ r.diet = DietWords
      /\ r.source = settings.source /\ r.weights = settings.weights
      /\ Sides(p, r, P, D, Q, E)
  BY <1>1 DEF Visits
<1>5. PICK t : t = Request(composed.quota, {}, {})'
  OBVIOUS
<1>6. /\ t.stash = r.stash /\ t.source = r.source /\ t.weights = r.weights
      /\ t.quota = r.quota
  BY <1>2, <1>3, <1>4, <1>5 DEF Request
<1>7. Share(t) = Share(r)
  BY <1>6 DEF Share
<1>8. Target(t) = Target(r)
  <2>1. DietDemand(t) = DietDemand(r)
    BY <1>6, <1>7 DEF DietDemand
  <2> QED BY <2>1, <1>6 DEF Target
<1>9. ASSUME NEW w \in p.asked, w \notin Blocked, w \notin reserve'
      PROVE  w \in RoundedAway(composed.quota)'
  <2>1. Away(w, r)
    BY <1>1, <1>9, AskedServed
  <2>2. w \in Words
    BY <2>1, <1>4 DEF Away, Asks
  <2> QED BY <2>1, <1>2, <1>4, <1>5, <1>8 DEF Away, RoundedAway
<1>10. ASSUME p.asked = {}
       PROVE  Cardinality(composed'.offered) = Fillable(composed.quota)'
  <2>1. PICK s : s = Least(Share(r), Cardinality(r.stash))
    OBVIOUS
  <2>2. Cardinality(Range(p.new)) =
          IF r.source = "stash_only" THEN s
          ELSE s + Least(r.quota - s, Cardinality(r.diet))
    BY <2>1, <1>4, <1>10, NothingWaits
  <2> QED BY <2>1, <2>2, <1>2, <1>3, <1>4, <1>5, <1>7 DEF Fillable
<1> QED BY <1>2, <1>3, <1>9, <1>10 DEF ReserveServesTheDay

\* A session waits only for words the reserve has asked to prepare, those apart
\* that failed or that its quota rounds away from, and a session that waits for
\* nothing is as full as the learner's words allow.
THEOREM ReserveServes == Spec => []ReserveServesTheDay
<1>1. ASSUME Init PROVE Types /\ ReserveServesTheDay
  BY <1>1, InitTypes DEF Init, ReserveServesTheDay
<1>2. ASSUME Types /\ ReserveServesTheDay, [Next]_vars
      PROVE  (Types /\ ReserveServesTheDay)'
  <2>1. CASE UNCHANGED vars
    <3>1. Types'
      BY <1>2, <2>1 DEF vars, words, Types
    <3>2. ReserveServesTheDay'
      BY <1>2, <2>1 DEF vars, words, ReserveServesTheDay, RoundedAway,
                        Fillable, Request, StashWords, DietWords, Blocked
    <3> QED BY <3>1, <3>2
  <2>2. CASE Visit
    BY <1>2, <2>2, VisitServes, VisitTypes
  <2>3. CASE Next /\ composed' = Uncomposed
    BY <1>2, <2>3, NextTypes DEF ReserveServesTheDay
  <2>4. Next => Visit \/ composed' = Uncomposed
    BY DEF Next
  <2> QED BY <1>2, <2>1, <2>2, <2>3, <2>4
<1> QED BY <1>1, <1>2, PTL DEF Spec
=============================================================================
