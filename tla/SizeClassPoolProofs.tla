------------------------ MODULE SizeClassPoolProofs ------------------------
(***************************************************************************)
(* Theorems about SizeClassPool, for every number and bound of classes,    *)
(* any length of free list and any mix of operations: the lists stay       *)
(* sorted, the bytes are exact, and a request gets the best fit.           *)
(***************************************************************************)
EXTENDS SizeClassPool, FiniteSetTheorems, SequenceTheorems, WellFoundedInduction, TLAPS

LEMMA LeastNat ==
  ASSUME NEW T, T \subseteq Nat, T # {}
  PROVE  \E n \in T : \A k \in T : n <= k
<1>1. PICK n \in T : \A k \in T : ~(<<k, n>> \in {ss \in Nat \X Nat : ss[1] < ss[2]})
  BY WFMin, NatLessThanWellFounded DEF OpToRel
<1>2. ASSUME NEW k \in T PROVE n <= k
  <2>1. n \in Nat /\ k \in Nat /\ ~(k < n)
    BY <1>1
  <2> QED
    BY <2>1
<1> QED
  BY <1>2

(* A set that holds 0 and of each number the next.                          *)
LEMMA EveryNat ==
  ASSUME NEW A, 0 \in A, \A n \in Nat : n \in A => n + 1 \in A
  PROVE  Nat \subseteq A
<1> SUFFICES ASSUME Nat \ A # {} PROVE FALSE
  OBVIOUS
<1>1. PICK n \in Nat \ A : \A k \in Nat \ A : n <= k
  BY LeastNat
<1>2. n - 1 \in Nat /\ n - 1 \in A
  BY <1>1
<1> QED
  BY <1>1, <1>2

(* A collection that holds the empty set and, of every subset of S in it,   *)
(* each one larger by an element.                                           *)
LEMMA EveryFinite ==
  ASSUME NEW S, IsFiniteSet(S), NEW A, {} \in A,
         \A T \in SUBSET S : \A x \in S \ T : T \in A => T \cup {x} \in A
  PROVE  S \in A
<1> DEFINE N == {n \in Nat : \A T \in SUBSET S : Cardinality(T) = n => T \in A}
<1>1. 0 \in N
  <2>1. ASSUME NEW T \in SUBSET S, Cardinality(T) = 0 PROVE T \in A
    <3>1. T = {}
      BY <2>1, FS_Subset, FS_EmptySet
    <3> QED
      BY <3>1
  <2> QED
    BY <2>1
<1>2. ASSUME NEW n \in Nat, n \in N PROVE n + 1 \in N
  <2>1. ASSUME NEW T \in SUBSET S, Cardinality(T) = n + 1 PROVE T \in A
    <3>1. IsFiniteSet(T) /\ T # {}
      BY <2>1, FS_Subset, FS_EmptySet
    <3>2. PICK x \in T : TRUE
      BY <3>1
    <3>3. Cardinality(T \ {x}) = n
      <4>1. Cardinality(T \ {x}) = Cardinality(T) - 1
        BY <3>1, FS_RemoveElement
      <4> QED
        BY <2>1, <4>1
    <3>4. T \ {x} \in A /\ T \ {x} \in SUBSET S /\ x \in S \ (T \ {x})
      BY <1>2, <3>2, <3>3
    <3>5. (T \ {x}) \cup {x} \in A
      BY <3>4
    <3>6. (T \ {x}) \cup {x} = T
      BY <3>2
    <3> QED
      BY <3>5, <3>6
  <2> QED
    BY <2>1
<1> HIDE DEF N
<1>3. Nat \subseteq N
  BY <1>1, <1>2, EveryNat
<1>4. Cardinality(S) \in N
  BY <1>3, FS_CardinalityType
<1> QED
  BY <1>4 DEF N

-----------------------------------------------------------------------------
(* Sums.                                                                    *)

Some(s) == CHOOSE x \in s : TRUE
IsSum(f, D, h) == h = [s \in D |-> IF s = {} THEN 0 ELSE f[Some(s)] + h[s \ {Some(s)}]]

LEMMA SumExists ==
  ASSUME NEW f, NEW S, IsFiniteSet(S)
  PROVE  \E h : IsSum(f, SUBSET S, h)
<1> DEFINE D(n) == {s \in SUBSET S : Cardinality(s) <= n}
           N == {n \in Nat : \E h : IsSum(f, D(n), h)}
<1>0. ASSUME NEW s \in SUBSET S, s # {}
      PROVE  /\ Some(s) \in s /\ IsFiniteSet(s) /\ s \ {Some(s)} \in SUBSET S
             /\ Cardinality(s) \in Nat /\ Cardinality(s \ {Some(s)}) = Cardinality(s) - 1
  <2>1. Some(s) \in s
    BY <1>0 DEF Some
  <2>2. IsFiniteSet(s)
    BY FS_Subset
  <2> QED
    BY <2>1, <2>2, FS_RemoveElement, FS_CardinalityType
<1>1. 0 \in N
  <2>1. ASSUME NEW s \in D(0) PROVE s = {}
    <3>1. IsFiniteSet(s) /\ Cardinality(s) = 0
      BY FS_Subset, FS_CardinalityType
    <3> QED
      BY <3>1, FS_EmptySet
  <2>2. IsSum(f, D(0), [s \in D(0) |-> 0])
    BY <2>1 DEF IsSum
  <2> QED
    BY <2>2
<1>2. ASSUME NEW n \in Nat, n \in N PROVE n + 1 \in N
  <2>1. PICK g : IsSum(f, D(n), g)
    BY <1>2
  <2> DEFINE h == [s \in D(n + 1) |-> IF s = {} THEN 0 ELSE f[Some(s)] + g[s \ {Some(s)}]]
  <2>2. \A s \in D(n) : g[s] = IF s = {} THEN 0 ELSE f[Some(s)] + g[s \ {Some(s)}]
    BY <2>1 DEF IsSum
  <2>3. ASSUME NEW s \in D(n) PROVE s \in D(n + 1) /\ h[s] = g[s]
    <3>1. Cardinality(s) \in Nat
      BY FS_Subset, FS_CardinalityType
    <3>2. s \in D(n + 1)
      BY <3>1
    <3> QED
      BY <2>2, <3>2
  <2>4. ASSUME NEW s \in D(n + 1), s # {} PROVE s \ {Some(s)} \in D(n)
    BY <1>0, <2>4
  <2>5. \A s \in D(n + 1) : h[s] = IF s = {} THEN 0 ELSE f[Some(s)] + h[s \ {Some(s)}]
    BY <2>3, <2>4
  <2>6. IsSum(f, D(n + 1), h)
    BY <2>5 DEF IsSum
  <2> HIDE DEF h, D
  <2> QED
    BY <2>6
<1> HIDE DEF N
<1>3. Cardinality(S) \in N
  BY <1>1, <1>2, EveryNat, FS_CardinalityType
<1>4. SUBSET S = D(Cardinality(S))
  BY FS_Subset
<1> QED
  BY <1>3, <1>4 DEF N

LEMMA SumIs ==
  ASSUME NEW f, NEW S, IsFiniteSet(S)
  PROVE  \E h : IsSum(f, SUBSET S, h) /\ SumFunctionOnSet(f, S) = h[S]
<1> DEFINE h == CHOOSE h : IsSum(f, SUBSET S, h)
<1>1. IsSum(f, SUBSET S, h)
  BY SumExists
<1>2. SumFunctionOnSet(f, S) = h[S]
  BY DEF SumFunctionOnSet, FoldFunctionOnSet, MapThenFoldSet, IsSum, Some
<1> QED
  BY <1>1, <1>2

(* Two such functions agree on what both are about.                         *)
LEMMA SumsAgree ==
  ASSUME NEW f, NEW g, NEW S, NEW T, NEW h, NEW k, IsSum(f, SUBSET S, h), IsSum(g, SUBSET T, k),
         NEW D, D \subseteq S, D \subseteq T, IsFiniteSet(D), \A x \in D : f[x] = g[x]
  PROVE  h[D] = k[D]
<1> DEFINE N == {n \in Nat : \A s \in SUBSET D : Cardinality(s) = n => h[s] = k[s]}
<1>1. /\ \A s \in SUBSET D : h[s] = IF s = {} THEN 0 ELSE f[Some(s)] + h[s \ {Some(s)}]
      /\ \A s \in SUBSET D : k[s] = IF s = {} THEN 0 ELSE g[Some(s)] + k[s \ {Some(s)}]
  <2>1. SUBSET D \subseteq SUBSET S /\ SUBSET D \subseteq SUBSET T
    OBVIOUS
  <2>2. /\ \A s \in SUBSET S : h[s] = IF s = {} THEN 0 ELSE f[Some(s)] + h[s \ {Some(s)}]
        /\ \A s \in SUBSET T : k[s] = IF s = {} THEN 0 ELSE g[Some(s)] + k[s \ {Some(s)}]
    BY DEF IsSum
  <2> QED
    BY <2>1, <2>2
<1>2. 0 \in N
  <2>1. ASSUME NEW s \in SUBSET D, Cardinality(s) = 0 PROVE h[s] = k[s]
    <3>1. s = {}
      BY <2>1, FS_Subset, FS_EmptySet
    <3> QED
      BY <1>1, <3>1
  <2> QED
    BY <2>1
<1>3. ASSUME NEW n \in Nat, n \in N PROVE n + 1 \in N
  <2>1. ASSUME NEW s \in SUBSET D, Cardinality(s) = n + 1 PROVE h[s] = k[s]
    <3>1. IsFiniteSet(s) /\ s # {}
      BY <2>1, FS_Subset, FS_EmptySet
    <3>2. Some(s) \in s
      BY <3>1 DEF Some
    <3>3. Cardinality(s \ {Some(s)}) = Cardinality(s) - 1
      BY <3>1, <3>2, FS_RemoveElement
    <3>4. s \ {Some(s)} \in SUBSET D /\ Cardinality(s \ {Some(s)}) = n
      BY <2>1, <3>3
    <3>5. h[s \ {Some(s)}] = k[s \ {Some(s)}]
      BY <1>3, <3>4
    <3>6. f[Some(s)] = g[Some(s)]
      BY <3>2
    <3> QED
      BY <1>1, <3>1, <3>5, <3>6
  <2> QED
    BY <2>1
<1> HIDE DEF N
<1>4. Cardinality(D) \in N
  BY <1>2, <1>3, EveryNat, FS_CardinalityType
<1> QED
  BY <1>4 DEF N

LEMMA SumSame ==
  ASSUME NEW f, NEW g, NEW S, IsFiniteSet(S), \A x \in S : f[x] = g[x]
  PROVE  SumFunctionOnSet(f, S) = SumFunctionOnSet(g, S)
<1>1. PICK h : IsSum(f, SUBSET S, h) /\ SumFunctionOnSet(f, S) = h[S]
  BY SumIs
<1>2. PICK k : IsSum(g, SUBSET S, k) /\ SumFunctionOnSet(g, S) = k[S]
  BY SumIs
<1> QED
  BY <1>1, <1>2, SumsAgree

LEMMA SumEmpty ==
  ASSUME NEW f
  PROVE  SumFunctionOnSet(f, {}) = 0
<1>1. PICK h : IsSum(f, SUBSET {}, h) /\ SumFunctionOnSet(f, {}) = h[{}]
  BY SumIs, FS_EmptySet
<1>2. {} \in SUBSET {}
  OBVIOUS
<1>3. \A s \in SUBSET {} : h[s] = IF s = {} THEN 0 ELSE f[Some(s)] + h[s \ {Some(s)}]
  BY <1>1 DEF IsSum
<1> QED
  BY <1>1, <1>2, <1>3

LEMMA SumSome ==
  ASSUME NEW f, NEW S, IsFiniteSet(S), S # {}
  PROVE  /\ Some(S) \in S
         /\ SumFunctionOnSet(f, S) = f[Some(S)] + SumFunctionOnSet(f, S \ {Some(S)})
<1> DEFINE T == S \ {Some(S)}
<1>1. Some(S) \in S
  BY DEF Some
<1>2. IsFiniteSet(T)
  BY FS_Subset
<1>3. PICK h : IsSum(f, SUBSET S, h) /\ SumFunctionOnSet(f, S) = h[S]
  BY SumIs
<1>4. PICK k : IsSum(f, SUBSET T, k) /\ SumFunctionOnSet(f, T) = k[T]
  BY <1>2, SumIs
<1>5. h[T] = k[T]
  <2>1. T \subseteq S /\ \A x \in T : f[x] = f[x]
    OBVIOUS
  <2> HIDE DEF T
  <2> QED
    BY <1>2, <1>3, <1>4, <2>1, SumsAgree
<1>6. S \in SUBSET S /\ \A s \in SUBSET S : h[s] = IF s = {} THEN 0 ELSE f[Some(s)] + h[s \ {Some(s)}]
  BY <1>3 DEF IsSum
<1> QED
  BY <1>1, <1>3, <1>4, <1>5, <1>6

LEMMA SumNat ==
  ASSUME NEW f, NEW S, IsFiniteSet(S), \A x \in S : f[x] \in Nat
  PROVE  SumFunctionOnSet(f, S) \in Nat
<1> DEFINE N == {n \in Nat : \A s \in SUBSET S : Cardinality(s) = n => SumFunctionOnSet(f, s) \in Nat}
<1>1. 0 \in N
  <2>1. ASSUME NEW s \in SUBSET S, Cardinality(s) = 0 PROVE SumFunctionOnSet(f, s) \in Nat
    <3>1. s = {}
      BY <2>1, FS_Subset, FS_EmptySet
    <3> QED
      BY <3>1, SumEmpty
  <2> QED
    BY <2>1
<1>2. ASSUME NEW n \in Nat, n \in N PROVE n + 1 \in N
  <2>1. ASSUME NEW s \in SUBSET S, Cardinality(s) = n + 1 PROVE SumFunctionOnSet(f, s) \in Nat
    <3>1. IsFiniteSet(s) /\ s # {}
      BY <2>1, FS_Subset, FS_EmptySet
    <3>2. /\ Some(s) \in s
          /\ SumFunctionOnSet(f, s) = f[Some(s)] + SumFunctionOnSet(f, s \ {Some(s)})
      BY <3>1, SumSome
    <3>3. Cardinality(s \ {Some(s)}) = Cardinality(s) - 1
      BY <3>1, <3>2, FS_RemoveElement
    <3>4. s \ {Some(s)} \in SUBSET S /\ Cardinality(s \ {Some(s)}) = n
      BY <2>1, <3>3
    <3>5. SumFunctionOnSet(f, s \ {Some(s)}) \in Nat
      BY <1>2, <3>4
    <3>6. f[Some(s)] \in Nat
      BY <3>2
    <3> QED
      BY <3>2, <3>5, <3>6
  <2> QED
    BY <2>1
<1> HIDE DEF N
<1>3. Cardinality(S) \in N
  BY <1>1, <1>2, EveryNat, FS_CardinalityType
<1> QED
  BY <1>3 DEF N

(* Any element may be taken out first.                                      *)
LEMMA SumTake ==
  ASSUME NEW f, NEW S, IsFiniteSet(S), \A x \in S : f[x] \in Nat, NEW y \in S
  PROVE  SumFunctionOnSet(f, S) = f[y] + SumFunctionOnSet(f, S \ {y})
<1> DEFINE Total(s) == SumFunctionOnSet(f, s)
           N == {n \in Nat : \A s \in SUBSET S : Cardinality(s) = n =>
                   \A x \in s : Total(s) = f[x] + Total(s \ {x})}
<1>0. ASSUME NEW s \in SUBSET S
      PROVE  Total(s) \in Nat /\ IsFiniteSet(s)
  <2>1. IsFiniteSet(s)
    BY FS_Subset
  <2> QED
    BY <2>1, SumNat
<1>1. 0 \in N
  <2>1. ASSUME NEW s \in SUBSET S, Cardinality(s) = 0 PROVE s = {}
    BY <2>1, FS_Subset, FS_EmptySet
  <2> QED
    BY <2>1
<1>2. ASSUME NEW n \in Nat, n \in N PROVE n + 1 \in N
  <2>1. ASSUME NEW s \in SUBSET S, Cardinality(s) = n + 1, NEW x \in s
        PROVE  Total(s) = f[x] + Total(s \ {x})
    <3> DEFINE c == Some(s)
    <3>1. c \in s /\ Total(s) = f[c] + Total(s \ {c})
      BY <1>0, SumSome
    <3> HIDE DEF c
    <3>2. /\ Cardinality(s \ {c}) = Cardinality(s) - 1
          /\ Cardinality(s \ {x}) = Cardinality(s) - 1
      BY <1>0, <3>1, FS_RemoveElement
    <3>3. /\ s \ {c} \in SUBSET S /\ Cardinality(s \ {c}) = n
          /\ s \ {x} \in SUBSET S /\ Cardinality(s \ {x}) = n
      BY <2>1, <3>2
    <3>4. CASE x # c
      <4>1. Total(s \ {c}) = f[x] + Total((s \ {c}) \ {x})
        BY <1>2, <3>3, <3>4
      <4>2. Total(s \ {x}) = f[c] + Total((s \ {x}) \ {c})
        BY <1>2, <3>1, <3>3, <3>4
      <4>3. (s \ {x}) \ {c} = (s \ {c}) \ {x}
        OBVIOUS
      <4>4. f[x] \in Nat /\ f[c] \in Nat /\ Total((s \ {c}) \ {x}) \in Nat
        BY <1>0, <3>1
      <4> HIDE DEF Total
      <4> QED
        BY <3>1, <4>1, <4>2, <4>3, <4>4
    <3> QED
      BY <3>1, <3>4
  <2> HIDE DEF Total
  <2> QED
    BY <2>1
<1> HIDE DEF N
<1>3. Cardinality(S) \in N
  BY <1>1, <1>2, EveryNat, FS_CardinalityType
<1> QED
  BY <1>3 DEF N

(* An element may be added.                                                 *)
LEMMA SumGrown ==
  ASSUME NEW f, NEW S, IsFiniteSet(S), NEW y, y \notin S, f[y] \in Nat, \A x \in S : f[x] \in Nat
  PROVE  SumFunctionOnSet(f, S \cup {y}) = f[y] + SumFunctionOnSet(f, S)
<1> DEFINE T == S \cup {y}
<1>1. IsFiniteSet(T) /\ y \in T /\ \A x \in T : f[x] \in Nat
  BY FS_AddElement
<1>2. T \ {y} = S
  OBVIOUS
<1> HIDE DEF T
<1>3. SumFunctionOnSet(f, T) = f[y] + SumFunctionOnSet(f, T \ {y})
  BY <1>1, SumTake
<1> QED
  BY <1>2, <1>3 DEF T

LEMMA SumJoin ==
  ASSUME NEW f, NEW S, NEW T, IsFiniteSet(S), IsFiniteSet(T), S \cap T = {},
         \A x \in S \cup T : f[x] \in Nat
  PROVE  SumFunctionOnSet(f, S \cup T) = SumFunctionOnSet(f, S) + SumFunctionOnSet(f, T)
<1> DEFINE Total(s) == SumFunctionOnSet(f, s)
           A == {U \in SUBSET T : Total(S \cup U) = Total(S) + Total(U)}
<1>1. Total(S) \in Nat /\ Total({}) = 0
  BY SumNat, SumEmpty
<1>2. {} \in A
  <2>1. S \cup {} = S
    OBVIOUS
  <2> HIDE DEF Total
  <2> QED
    BY <1>1, <2>1
<1>3. ASSUME NEW U \in SUBSET T, NEW x \in T \ U, U \in A PROVE U \cup {x} \in A
  <2>1. IsFiniteSet(U) /\ IsFiniteSet(S \cup U) /\ x \notin S \cup U
    BY FS_Subset, FS_Union
  <2>2. f[x] \in Nat /\ (\A y \in U : f[y] \in Nat) /\ (\A y \in S \cup U : f[y] \in Nat)
    OBVIOUS
  <2>3. Total(U \cup {x}) = f[x] + Total(U)
    BY <2>1, <2>2, SumGrown
  <2>4. Total((S \cup U) \cup {x}) = f[x] + Total(S \cup U)
    BY <2>1, <2>2, SumGrown
  <2>5. S \cup (U \cup {x}) = (S \cup U) \cup {x}
    OBVIOUS
  <2>6. Total(U) \in Nat
    BY <2>1, <2>2, SumNat
  <2>7. Total(S \cup U) = Total(S) + Total(U) /\ U \cup {x} \in SUBSET T
    BY <1>3
  <2> HIDE DEF Total
  <2>8. Total(S \cup (U \cup {x})) = f[x] + (Total(S) + Total(U))
    BY <2>4, <2>5, <2>7
  <2>9. f[x] \in Nat
    BY <2>2
  <2>10. Total(S \cup (U \cup {x})) = Total(S) + Total(U \cup {x})
    BY <1>1, <2>3, <2>6, <2>8, <2>9
  <2> QED
    BY <2>7, <2>10
<1> HIDE DEF A
<1>4. T \in A
  BY <1>2, <1>3, EveryFinite
<1> QED
  BY <1>4 DEF A

(* A sum over S is one over the images of its elements.                     *)
LEMMA SumMoved ==
  ASSUME NEW f, NEW g, NEW S, NEW h, IsFiniteSet(S), \A x \in S : f[x] \in Nat,
         \A x \in S : f[x] = g[h[x]],
         \A x, y \in S : h[x] = h[y] => x = y
  PROVE  SumFunctionOnSet(f, S) = SumFunctionOnSet(g, {h[x] : x \in S})
<1> DEFINE To(U) == {h[x] : x \in U}
           A == {U \in SUBSET S : IsFiniteSet(To(U))
                                  /\ SumFunctionOnSet(f, U) = SumFunctionOnSet(g, To(U))}
<1>1. {} \in A
  <2>1. To({}) = {}
    OBVIOUS
  <2> HIDE DEF To
  <2> QED
    BY <2>1, FS_EmptySet, SumEmpty
<1>2. ASSUME NEW U \in SUBSET S, NEW x \in S \ U, U \in A PROVE U \cup {x} \in A
  <2>1. To(U \cup {x}) = To(U) \cup {h[x]}
    OBVIOUS
  <2>2. h[x] \notin To(U)
    OBVIOUS
  <2>3. \A y \in To(U) : g[y] \in Nat
    OBVIOUS
  <2>4. (\A y \in U : f[y] \in Nat) /\ f[x] \in Nat /\ g[h[x]] = f[x]
    OBVIOUS
  <2>5. IsFiniteSet(U)
    BY FS_Subset
  <2>6. IsFiniteSet(To(U)) /\ SumFunctionOnSet(f, U) = SumFunctionOnSet(g, To(U))
    BY <1>2
  <2> HIDE DEF To
  <2>7. SumFunctionOnSet(f, U \cup {x}) = f[x] + SumFunctionOnSet(f, U)
    BY <2>4, <2>5, SumGrown
  <2>8. SumFunctionOnSet(g, To(U) \cup {h[x]}) = g[h[x]] + SumFunctionOnSet(g, To(U))
    BY <2>2, <2>3, <2>4, <2>6, SumGrown
  <2>9. IsFiniteSet(To(U) \cup {h[x]})
    BY <2>6, FS_AddElement
  <2> QED
    BY <2>1, <2>4, <2>6, <2>7, <2>8, <2>9
<1> HIDE DEF A
<1>3. S \in A
  BY <1>1, <1>2, EveryFinite
<1> QED
  BY <1>3 DEF A

LEMMA SumAdded ==
  ASSUME NEW f, NEW g, NEW h, NEW S, IsFiniteSet(S),
         \A x \in S : f[x] \in Nat /\ g[x] \in Nat /\ h[x] = f[x] + g[x]
  PROVE  SumFunctionOnSet(h, S) = SumFunctionOnSet(f, S) + SumFunctionOnSet(g, S)
<1> DEFINE A == {U \in SUBSET S : SumFunctionOnSet(h, U) = SumFunctionOnSet(f, U) + SumFunctionOnSet(g, U)}
<1>1. {} \in A
  BY SumEmpty
<1>2. ASSUME NEW U \in SUBSET S, NEW x \in S \ U, U \in A PROVE U \cup {x} \in A
  <2>1. \A y \in U \cup {x} : f[y] \in Nat /\ g[y] \in Nat /\ h[y] \in Nat
    OBVIOUS
  <2>2. IsFiniteSet(U)
    BY FS_Subset
  <2>3. /\ SumFunctionOnSet(f, U \cup {x}) = f[x] + SumFunctionOnSet(f, U)
        /\ SumFunctionOnSet(g, U \cup {x}) = g[x] + SumFunctionOnSet(g, U)
        /\ SumFunctionOnSet(h, U \cup {x}) = h[x] + SumFunctionOnSet(h, U)
    BY <2>1, <2>2, SumGrown
  <2>4. /\ SumFunctionOnSet(f, U) \in Nat
        /\ SumFunctionOnSet(g, U) \in Nat
    BY <2>1, <2>2, SumNat
  <2>5. h[x] = f[x] + g[x] /\ f[x] \in Nat /\ g[x] \in Nat
    OBVIOUS
  <2>6. SumFunctionOnSet(h, U) = SumFunctionOnSet(f, U) + SumFunctionOnSet(g, U)
    BY <1>2
  <2>7. SumFunctionOnSet(h, U \cup {x}) = SumFunctionOnSet(f, U \cup {x}) + SumFunctionOnSet(g, U \cup {x})
    BY <2>3, <2>4, <2>5, <2>6
  <2> QED
    BY <2>7
<1> HIDE DEF A
<1>3. S \in A
  BY <1>1, <1>2, EveryFinite
<1> QED
  BY <1>3 DEF A

-----------------------------------------------------------------------------
(* Lists: what they hold, and in which order.                               *)

Ascending(b) == \A k, l \in DOMAIN b : k < l => b[k] <= b[l]

LEMMA ListType ==
  ASSUME NEW b \in Seq(Nat \ {0})
  PROVE  /\ Len(b) \in Nat /\ DOMAIN b = 1 .. Len(b) /\ IsFiniteSet(DOMAIN b)
         /\ \A k \in DOMAIN b : b[k] \in Nat /\ b[k] # 0 /\ k \in Nat
         /\ SumFunction(b) \in Nat
<1>1. Len(b) \in Nat /\ DOMAIN b = 1 .. Len(b)
  BY LenProperties
<1>2. IsFiniteSet(DOMAIN b)
  BY <1>1, FS_Interval
<1>3. ASSUME NEW k \in DOMAIN b PROVE b[k] \in Nat /\ b[k] # 0 /\ k \in Nat
  BY <1>1, ElementOfSeq
<1>4. SumFunction(b) \in Nat
  BY <1>2, <1>3, SumNat DEF SumFunction
<1> QED
  BY <1>1, <1>2, <1>3, <1>4

(* The places of a list without place i, and of what is before and after it. *)
Skip(i, k) == IF k < i THEN k ELSE k + 1

LEMMA SkipIs ==
  ASSUME NEW n \in Nat, NEW i \in 1 .. n
  PROVE  /\ \A k, l \in 1 .. n - 1 : Skip(i, k) = Skip(i, l) => k = l
         /\ \A k, l \in 1 .. n - 1 : k < l => Skip(i, k) < Skip(i, l)
         /\ {Skip(i, k) : k \in 1 .. n - 1} = (1 .. n) \ {i}
<1>1. \A k, l \in 1 .. n - 1 : Skip(i, k) = Skip(i, l) => k = l
  BY DEF Skip
<1>2. \A k, l \in 1 .. n - 1 : k < l => Skip(i, k) < Skip(i, l)
  BY DEF Skip
<1>3. ASSUME NEW k \in 1 .. n - 1 PROVE Skip(i, k) \in (1 .. n) \ {i}
  BY DEF Skip
<1>4. ASSUME NEW l \in (1 .. n) \ {i} PROVE \E k \in 1 .. n - 1 : Skip(i, k) = l
  <2>1. CASE l < i
    <3>1. l \in 1 .. n - 1 /\ Skip(i, l) = l
      BY <2>1 DEF Skip
    <3> QED
      BY <3>1
  <2>2. CASE l > i
    <3>1. l - 1 \in 1 .. n - 1 /\ Skip(i, l - 1) = l
      BY <2>2 DEF Skip
    <3> QED
      BY <3>1
  <2> QED
    BY <2>1, <2>2
<1> QED
  BY <1>1, <1>2, <1>3, <1>4

(* List b is c without the element at i.                                    *)
Without(b, c, i) ==
  /\ Len(c) = Len(b) + 1
  /\ i \in 1 .. Len(c)
  /\ \A k \in 1 .. Len(b) : b[k] = c[Skip(i, k)]

LEMMA WithoutHolds ==
  ASSUME NEW b, NEW c, b \in Seq(Nat \ {0}), c \in Seq(Nat \ {0}), NEW i, Without(b, c, i)
  PROVE  /\ SumFunction(c) = c[i] + SumFunction(b)
         /\ Ascending(c) => Ascending(b)
<1>1. /\ Len(b) \in Nat /\ DOMAIN b = 1 .. Len(b)
      /\ Len(c) \in Nat /\ DOMAIN c = 1 .. Len(c) /\ IsFiniteSet(DOMAIN c)
      /\ \A k \in DOMAIN c : c[k] \in Nat
  BY ListType
<1>2. Len(b) = Len(c) - 1 /\ i \in 1 .. Len(c)
  BY <1>1 DEF Without
<1>3. /\ \A k, l \in DOMAIN b : Skip(i, k) = Skip(i, l) => k = l
      /\ \A k, l \in DOMAIN b : k < l => Skip(i, k) < Skip(i, l)
      /\ {Skip(i, k) : k \in DOMAIN b} = DOMAIN c \ {i}
  BY <1>1, <1>2, SkipIs
<1>4. SumFunction(b) = SumFunctionOnSet(c, DOMAIN c \ {i})
  <2> DEFINE h == [k \in DOMAIN b |-> Skip(i, k)]
  <2>1. \A k \in DOMAIN b : b[k] = c[h[k]]
    BY <1>1 DEF Without
  <2>2. \A k, l \in DOMAIN b : h[k] = h[l] => k = l
    BY <1>3
  <2> DEFINE T == DOMAIN c \ {i}
  <2>3. T = {h[k] : k \in DOMAIN b}
    BY <1>3
  <2> DEFINE D == DOMAIN b
             f == b
             g == c
  <2>4. IsFiniteSet(D) /\ \A x \in D : f[x] \in Nat
    BY ListType
  <2>5. \A x \in D : f[x] = g[h[x]]
    BY <2>1
  <2>6. \A x, y \in D : h[x] = h[y] => x = y
    BY <2>2
  <2> HIDE DEF h, T, D, f, g
  <2>7. SumFunctionOnSet(f, D) = SumFunctionOnSet(g, {h[x] : x \in D})
    BY ONLY <2>4, <2>5, <2>6, SumMoved
  <2> QED
    BY <2>3, <2>7 DEF SumFunction, T, D, f, g
<1>5. SumFunctionOnSet(c, DOMAIN c) = c[i] + SumFunctionOnSet(c, DOMAIN c \ {i})
  <2> DEFINE D == DOMAIN c
  <2>1. IsFiniteSet(D) /\ i \in D /\ \A k \in D : c[k] \in Nat
    BY <1>1, <1>2
  <2> HIDE DEF D
  <2>2. SumFunctionOnSet(c, D) = c[i] + SumFunctionOnSet(c, D \ {i})
    BY ONLY <2>1, SumTake
  <2> QED
    BY <2>2 DEF D
<1>6. ASSUME Ascending(c), NEW k \in DOMAIN b, NEW l \in DOMAIN b, k < l PROVE b[k] <= b[l]
  <2>1. Skip(i, k) \in DOMAIN c /\ Skip(i, l) \in DOMAIN c /\ Skip(i, k) < Skip(i, l)
    BY <1>3, <1>6
  <2>2. b[k] = c[Skip(i, k)] /\ b[l] = c[Skip(i, l)]
    BY <1>1 DEF Without
  <2> QED
    BY <1>6, <2>1, <2>2 DEF Ascending
<1> QED
  BY <1>4, <1>5, <1>6 DEF SumFunction, Ascending

LEMMA PartOf ==
  ASSUME NEW b \in Seq(Nat \ {0}), NEW i \in 1 .. Len(b) + 1, NEW j \in i - 1 .. Len(b)
  PROVE  /\ SubSeq(b, i, j) \in Seq(Nat \ {0}) /\ Len(SubSeq(b, i, j)) = j - i + 1
         /\ \A k \in 1 .. j - i + 1 : SubSeq(b, i, j)[k] = b[i - 1 + k]
<1>1. /\ Len(b) \in Nat /\ i \in Int /\ j \in Int
      /\ \A k \in i .. j : b[k] \in Nat \ {0}
  BY ListType
<1>2. /\ SubSeq(b, i, j) \in Seq(Nat \ {0})
      /\ Len(SubSeq(b, i, j)) = IF i <= j THEN j - i + 1 ELSE 0
      /\ \A k \in 1 .. j - i + 1 : SubSeq(b, i, j)[k] = b[i + k - 1]
  BY <1>1, SubSeqProperties
<1>3. Len(SubSeq(b, i, j)) = j - i + 1
  BY <1>1, <1>2
<1>4. \A k \in 1 .. j - i + 1 : i + k - 1 = i - 1 + k
  BY <1>1
<1> QED
  BY <1>2, <1>3, <1>4

LEMMA Removed ==
  ASSUME NEW b \in Seq(Nat \ {0}), NEW i \in DOMAIN b, NEW r, r = RemoveAt(b, i)
  PROVE  r \in Seq(Nat \ {0}) /\ Without(r, b, i)
<1> DEFINE n == Len(b)
           x == SubSeq(b, 1, i - 1)
           y == SubSeq(b, i + 1, n)
<1>1. n \in Nat /\ i \in Nat /\ i >= 1 /\ i <= n
  BY ListType
<1>2. /\ 1 \in 1 .. Len(b) + 1 /\ i - 1 \in 1 - 1 .. Len(b)
      /\ i + 1 \in 1 .. Len(b) + 1 /\ n \in (i + 1) - 1 .. Len(b)
  BY <1>1
<1>3. /\ x \in Seq(Nat \ {0}) /\ Len(x) = (i - 1) - 1 + 1
      /\ \A k \in 1 .. (i - 1) - 1 + 1 : x[k] = b[1 - 1 + k]
  BY <1>2, PartOf
<1>4. /\ y \in Seq(Nat \ {0}) /\ Len(y) = n - (i + 1) + 1
      /\ \A k \in 1 .. n - (i + 1) + 1 : y[k] = b[(i + 1) - 1 + k]
  BY <1>2, PartOf
<1>5. r = x \o y
  BY DEF RemoveAt
<1> HIDE DEF x, y, n
<1>6. /\ r \in Seq(Nat \ {0}) /\ Len(r) = Len(x) + Len(y)
      /\ \A k \in 1 .. Len(x) + Len(y) : r[k] = IF k <= Len(x) THEN x[k] ELSE y[k - Len(x)]
  <2>1. x \in Seq(Nat \ {0}) /\ y \in Seq(Nat \ {0})
    BY <1>3, <1>4
  <2> QED
    BY <1>5, <2>1, ConcatProperties
<1>7. Len(x) = i - 1 /\ Len(y) = n - i /\ Len(r) = n - 1
  <2>1. Len(x) = (i - 1) - 1 + 1 /\ Len(y) = n - (i + 1) + 1 /\ Len(r) = Len(x) + Len(y)
    BY <1>3, <1>4, <1>6
  <2>2. Len(x) = i - 1
    BY <1>1, <2>1
  <2>3. Len(y) = n - i
    BY <1>1, <2>1
  <2> QED
    BY <1>1, <2>1, <2>2, <2>3
<1>8. ASSUME NEW k \in 1 .. Len(r) PROVE r[k] = b[Skip(i, k)]
  <2>1. k \in Nat /\ k >= 1 /\ k <= n - 1
    BY <1>1, <1>7
  <2>2. r[k] = IF k <= i - 1 THEN x[k] ELSE y[k - (i - 1)]
    BY <1>6, <1>7
  <2>3. CASE k < i
    <3>1. k \in 1 .. (i - 1) - 1 + 1 /\ 1 - 1 + k = k
      BY <1>1, <2>1, <2>3
    <3>2. x[k] = b[k]
      BY <1>3, <3>1
    <3> QED
      BY <1>1, <2>1, <2>2, <2>3, <3>2 DEF Skip
  <2>4. CASE k >= i
    <3>1. k - (i - 1) \in 1 .. n - (i + 1) + 1 /\ (i + 1) - 1 + (k - (i - 1)) = k + 1
      BY <1>1, <2>1, <2>4
    <3>2. y[k - (i - 1)] = b[k + 1]
      BY <1>4, <3>1
    <3> QED
      BY <1>1, <2>1, <2>2, <2>4, <3>2 DEF Skip
  <2> QED
    BY <1>1, <2>1, <2>3, <2>4
<1>9. Len(b) = Len(r) + 1 /\ i \in 1 .. Len(b)
  BY <1>1, <1>7 DEF n
<1> QED
  BY <1>6, <1>8, <1>9 DEF Without

LEMMA Inserted ==
  ASSUME NEW b \in Seq(Nat \ {0}), NEW i \in 1 .. Len(b) + 1, NEW v \in Nat \ {0},
         NEW r, r = InsertAt(b, i, v)
  PROVE  r \in Seq(Nat \ {0}) /\ r[i] = v /\ Without(b, r, i)
<1> DEFINE n == Len(b)
           x == SubSeq(b, 1, i - 1)
           y == SubSeq(b, i, n)
           w == x \o <<v>>
<1>1. n \in Nat /\ i \in Nat /\ i >= 1 /\ i <= n + 1
  BY ListType
<1>2. /\ 1 \in 1 .. Len(b) + 1 /\ i - 1 \in 1 - 1 .. Len(b) /\ n \in i - 1 .. Len(b)
  BY <1>1
<1>3. /\ x \in Seq(Nat \ {0}) /\ Len(x) = (i - 1) - 1 + 1
      /\ \A k \in 1 .. (i - 1) - 1 + 1 : x[k] = b[1 - 1 + k]
  BY <1>2, PartOf
<1>4. /\ y \in Seq(Nat \ {0}) /\ Len(y) = n - i + 1
      /\ \A k \in 1 .. n - i + 1 : y[k] = b[i - 1 + k]
  BY <1>2, PartOf
<1>5. r = w \o y
  BY DEF InsertAt
<1>6. <<v>> \in Seq(Nat \ {0}) /\ Len(<<v>>) = 1 /\ <<v>>[1] = v
  OBVIOUS
<1> HIDE DEF x, y, n
<1>7. /\ w \in Seq(Nat \ {0}) /\ Len(w) = Len(x) + Len(<<v>>)
      /\ \A k \in 1 .. Len(x) + Len(<<v>>) : w[k] = IF k <= Len(x) THEN x[k] ELSE <<v>>[k - Len(x)]
  BY <1>3, <1>6, ConcatProperties
<1>8. Len(x) = i - 1 /\ Len(w) = i /\ Len(y) = n - i + 1
  BY <1>1, <1>3, <1>4, <1>6, <1>7
<1> HIDE DEF w
<1>9. /\ r \in Seq(Nat \ {0}) /\ Len(r) = Len(w) + Len(y)
      /\ \A k \in 1 .. Len(w) + Len(y) : r[k] = IF k <= Len(w) THEN w[k] ELSE y[k - Len(w)]
  <2>1. w \in Seq(Nat \ {0}) /\ y \in Seq(Nat \ {0})
    BY <1>4, <1>7
  <2> QED
    BY <1>5, <2>1, ConcatProperties
<1>10. Len(r) = n + 1
  BY <1>1, <1>8, <1>9
<1>11. w[i] = v /\ \A k \in 1 .. i - 1 : w[k] = x[k]
  <2>1. i \in 1 .. Len(x) + Len(<<v>>) /\ i - Len(x) = 1 /\ ~(i <= Len(x))
    BY <1>1, <1>6, <1>8
  <2>2. w[i] = v
    BY <1>6, <1>7, <2>1
  <2>3. \A k \in 1 .. i - 1 : k \in 1 .. Len(x) + Len(<<v>>) /\ k <= Len(x)
    BY <1>1, <1>6, <1>8
  <2> QED
    BY <1>7, <2>2, <2>3
<1>12. r[i] = v
  <2>1. i \in 1 .. Len(w) + Len(y) /\ i <= Len(w)
    BY <1>1, <1>8
  <2> QED
    BY <1>9, <1>11, <2>1
<1>13. ASSUME NEW k \in 1 .. Len(b) PROVE b[k] = r[Skip(i, k)]
  <2>1. k \in Nat /\ k >= 1 /\ k <= n
    BY <1>1 DEF n
  <2>2. CASE k < i
    <3>1. k \in 1 .. (i - 1) - 1 + 1 /\ 1 - 1 + k = k /\ k \in 1 .. i - 1
          /\ k \in 1 .. Len(w) + Len(y) /\ k <= Len(w)
      BY <1>1, <1>8, <2>1, <2>2
    <3>2. x[k] = b[k] /\ w[k] = x[k] /\ r[k] = w[k]
      BY <1>3, <1>9, <1>11, <3>1
    <3> QED
      BY <2>2, <3>2 DEF Skip
  <2>3. CASE k >= i
    <3> DEFINE l == k + 1 - Len(w)
    <3>1. /\ k + 1 \in 1 .. Len(w) + Len(y) /\ ~(k + 1 <= Len(w))
          /\ l \in 1 .. n - i + 1 /\ i - 1 + l = k
      BY <1>1, <1>8, <2>1, <2>3
    <3>2. r[k + 1] = y[l]
      <4> DEFINE m == k + 1
      <4>1. m \in 1 .. Len(w) + Len(y) /\ ~(m <= Len(w))
        BY <3>1
      <4> HIDE DEF m
      <4>2. r[m] = y[m - Len(w)]
        BY <1>9, <4>1
      <4> QED
        BY <4>2 DEF m
    <3>3. y[l] = b[k]
      BY <1>4, <3>1
    <3> QED
      BY <1>1, <2>1, <2>3, <3>2, <3>3 DEF Skip
  <2> QED
    BY <1>1, <2>1, <2>2, <2>3
<1>14. Len(r) = Len(b) + 1 /\ i \in 1 .. Len(r)
  BY <1>1, <1>10 DEF n
<1> QED
  BY <1>9, <1>12, <1>13, <1>14 DEF Without

LEMMA WithoutFirst ==
  ASSUME NEW b \in Seq(Nat \ {0}), b # <<>>
  PROVE  /\ Tail(b) \in Seq(Nat \ {0}) /\ Without(Tail(b), b, 1)
         /\ Head(b) = b[1] /\ 1 \in DOMAIN b
<1>1. /\ Tail(b) \in Seq(Nat \ {0}) /\ Len(Tail(b)) = Len(b) - 1
      /\ \A k \in 1 .. Len(Tail(b)) : Tail(b)[k] = b[k + 1]
  BY HeadTailProperties
<1>2. Len(b) \in Nat /\ Len(b) # 0 /\ DOMAIN b = 1 .. Len(b)
  BY ListType, EmptySeq
<1>3. \A k \in 1 .. Len(Tail(b)) : Skip(1, k) = k + 1
  BY <1>1, <1>2 DEF Skip
<1>4. Head(b) = b[1]
  OBVIOUS
<1> QED
  BY <1>1, <1>2, <1>3, <1>4 DEF Without

(* partition_point of an ascending list is where the smaller ones end.      *)
LEMMA BelowIs ==
  ASSUME NEW b \in Seq(Nat \ {0}), NEW cap \in Nat
  PROVE  /\ Below(b, cap) \in 0 .. Len(b)
         /\ Ascending(b) => \A k \in DOMAIN b : b[k] < cap <=> k <= Below(b, cap)
<1> DEFINE L == {k \in DOMAIN b : b[k] < cap}
           n == Len(b)
<1>1. n \in Nat /\ DOMAIN b = 1 .. n /\ \A k \in DOMAIN b : b[k] \in Nat
  BY ListType
<1>2. Below(b, cap) = Cardinality(L)
  BY DEF Below
<1>3. Cardinality(L) \in 0 .. n
  <2>1. L \in SUBSET (1 .. n)
    BY <1>1
  <2> HIDE DEF L, n
  <2>2. IsFiniteSet(1 .. n) /\ Cardinality(1 .. n) = n
    BY <1>1, FS_Interval
  <2>3. IsFiniteSet(L) /\ Cardinality(L) <= n /\ Cardinality(L) \in Nat
    BY <2>1, <2>2, FS_Subset, FS_CardinalityType
  <2> QED
    BY <1>1, <2>3
<1>4. ASSUME Ascending(b) PROVE \A k \in DOMAIN b : b[k] < cap <=> k <= Cardinality(L)
  <2> DEFINE R == (1 .. n + 1) \ L
  <2>1. R \subseteq Nat /\ n + 1 \in R
    BY <1>1
  <2> HIDE DEF R
  <2>2. PICK p \in R : \A k \in R : p <= k
    BY <2>1, LeastNat
  <2>3. p \in Nat /\ p >= 1 /\ p <= n + 1 /\ p \notin L
    BY <1>1, <2>2 DEF R
  <2>4. ASSUME NEW k \in DOMAIN b, k < p PROVE b[k] < cap
    BY <1>1, <2>2, <2>3, <2>4 DEF R
  <2>5. ASSUME NEW k \in DOMAIN b, k >= p PROVE ~(b[k] < cap)
    <3>1. p \in DOMAIN b
      BY <1>1, <2>3, <2>5
    <3>2. ~(b[p] < cap)
      BY <2>3, <3>1
    <3>3. b[p] <= b[k]
      BY <1>1, <1>4, <2>5, <3>1 DEF Ascending
    <3> QED
      BY <1>1, <2>5, <3>1, <3>2, <3>3
  <2>6. \A k \in DOMAIN b : b[k] < cap <=> k < p
    BY <1>1, <2>3, <2>4, <2>5
  <2>7. L = 1 .. p - 1
    BY <1>1, <2>3, <2>6
  <2>8. Cardinality(L) = p - 1
    <3> HIDE DEF L
    <3> QED
      BY <2>3, <2>7, FS_Interval
  <2> HIDE DEF L, n
  <2> QED
    BY <1>1, <2>3, <2>6, <2>8
<1> QED
  BY <1>2, <1>3, <1>4

(* An insertion at the partition point keeps the list ascending.            *)
LEMMA InsertHolds ==
  ASSUME NEW b \in Seq(Nat \ {0}), NEW cap \in Nat \ {0}
  PROVE  /\ Insert(b, cap) \in Seq(Nat \ {0}) /\ Len(Insert(b, cap)) = Len(b) + 1
         /\ SumFunction(Insert(b, cap)) = cap + SumFunction(b)
         /\ Ascending(b) => Ascending(Insert(b, cap))
<1> DEFINE i == Below(b, cap) + 1
           r == Insert(b, cap)
<1>0. /\ cap \in Nat /\ Below(b, cap) \in 0 .. Len(b)
      /\ Ascending(b) => \A k \in DOMAIN b : b[k] < cap <=> k <= Below(b, cap)
  BY BelowIs
<1>1. Len(b) \in Nat /\ DOMAIN b = 1 .. Len(b) /\ i \in 1 .. Len(b) + 1
      /\ \A k \in DOMAIN b : b[k] \in Nat
  <2>1. /\ Len(b) \in Nat /\ DOMAIN b = 1 .. Len(b)
        /\ \A k \in DOMAIN b : b[k] \in Nat
    BY ListType
  <2> QED
    BY <1>0, <2>1
<1>2. Ascending(b) => \A k \in DOMAIN b : b[k] < cap <=> k < i
  <2>1. \A k \in 1 .. Len(b) : k <= Below(b, cap) <=> k < i
    BY <1>0, <1>1
  <2> QED
    BY <1>0, <1>1, <2>1
<1>3. r = InsertAt(b, i, cap)
  BY DEF Insert
<1> HIDE DEF i, r
<1>4. r \in Seq(Nat \ {0}) /\ r[i] = cap /\ Without(b, r, i)
  BY <1>1, <1>3, Inserted
<1>5. SumFunction(r) = cap + SumFunction(b)
  BY <1>4, WithoutHolds
<1>6. /\ Len(r) = Len(b) + 1 /\ DOMAIN r = 1 .. Len(b) + 1
      /\ \A k \in DOMAIN b : b[k] = r[Skip(i, k)]
  BY <1>1, <1>4, LenProperties DEF Without
<1>7. ASSUME Ascending(b), NEW k \in DOMAIN r, NEW l \in DOMAIN r, k < l PROVE r[k] <= r[l]
  <2>1. \A m \in DOMAIN b : b[m] < cap <=> m < i
    BY <1>2, <1>7
  <2>2. k \in Nat /\ l \in Nat /\ i \in Nat
    BY <1>1, <1>6
  <2>3. \A m \in DOMAIN r : m < i => m \in DOMAIN b /\ r[m] = b[m]
    BY <1>1, <1>6 DEF Skip
  <2>4. \A m \in DOMAIN r : m > i => m - 1 \in DOMAIN b /\ r[m] = b[m - 1]
    <3>1. ASSUME NEW m \in DOMAIN r, m > i PROVE m - 1 \in DOMAIN b /\ Skip(i, m - 1) = m
      BY <1>1, <1>6, <3>1 DEF Skip
    <3> QED
      BY <1>6, <3>1
  <2>5. CASE l < i
    <3>1. k \in DOMAIN b /\ l \in DOMAIN b /\ r[k] = b[k] /\ r[l] = b[l]
      BY <1>7, <2>2, <2>3, <2>5
    <3> QED
      BY <1>7, <3>1 DEF Ascending
  <2>6. CASE k > i
    <3>1. /\ k - 1 \in DOMAIN b /\ l - 1 \in DOMAIN b /\ r[k] = b[k - 1] /\ r[l] = b[l - 1]
          /\ k - 1 < l - 1
      BY <1>7, <2>2, <2>4, <2>6
    <3> QED
      BY <1>7, <3>1 DEF Ascending
  <2>7. CASE k <= i /\ l >= i
    <3>1. r[k] <= cap
      <4>1. CASE k = i
        BY <1>4, <4>1
      <4>2. CASE k < i
        <5>1. k \in DOMAIN b /\ r[k] = b[k] /\ b[k] < cap /\ b[k] \in Nat
          BY <1>1, <2>1, <2>3, <4>2
        <5> QED
          BY <5>1
      <4> QED
        BY <2>2, <2>7, <4>1, <4>2
    <3>2. cap <= r[l]
      <4>1. CASE l = i
        BY <1>4, <4>1
      <4>2. CASE l > i
        <5>1. l - 1 \in DOMAIN b /\ r[l] = b[l - 1] /\ ~(l - 1 < i)
          BY <2>2, <2>4, <4>2
        <5>2. ~(b[l - 1] < cap) /\ b[l - 1] \in Nat
          BY <1>1, <2>1, <5>1
        <5> QED
          BY <5>1, <5>2
      <4> QED
        BY <2>2, <2>7, <4>1, <4>2
    <3>3. r[k] \in Nat /\ r[l] \in Nat
      BY <1>4, ListType
    <3> QED
      BY <3>1, <3>2, <3>3
  <2> QED
    BY <1>7, <2>2, <2>5, <2>6, <2>7
<1> QED
  BY <1>4, <1>5, <1>6, <1>7 DEF r, Ascending

(* The elements of a set of numbers in their order.                         *)
LEMMA NthIs ==
  ASSUME NEW K \in SUBSET Nat, IsFiniteSet(K), NEW n, n = Cardinality(K)
  PROVE  /\ n \in Nat
         /\ \A i \in 1 .. n : Nth(i, K) \in K
         /\ \A i, j \in 1 .. n : i < j => Nth(i, K) < Nth(j, K)
         /\ {Nth(i, K) : i \in 1 .. n} = K
<1> DEFINE Upto(k) == {l \in K : l <= k}
           rank == [k \in K |-> Cardinality(Upto(k))]
<1>1. n \in Nat
  BY FS_CardinalityType
<1>2. ASSUME NEW k \in K PROVE IsFiniteSet(Upto(k)) /\ rank[k] \in 1 .. n
  <2>1. Upto(k) \in SUBSET K /\ k \in Upto(k)
    OBVIOUS
  <2> HIDE DEF Upto
  <2>2. /\ IsFiniteSet(Upto(k)) /\ Cardinality(Upto(k)) \in Nat /\ Cardinality(Upto(k)) <= n
        /\ Cardinality(Upto(k)) # 0
    BY <2>1, FS_Subset, FS_CardinalityType, FS_EmptySet
  <2> QED
    BY <1>1, <2>2
<1>3. ASSUME NEW k \in K, NEW l \in K, k < l PROVE rank[k] < rank[l]
  <2>0. k \in Nat /\ l \in Nat /\ \A j \in K : j \in Nat
    OBVIOUS
  <2>1. Upto(k) \in SUBSET Upto(l) /\ l \in Upto(l) /\ l \notin Upto(k)
    <3>1. \A j \in K : j <= k => j <= l
      BY <1>3, <2>0
    <3>2. Upto(k) \in SUBSET Upto(l)
      BY <3>1
    <3>3. l \in Upto(l)
      BY <2>0
    <3>4. l \notin Upto(k)
      BY <1>3, <2>0
    <3> QED
      BY <3>2, <3>3, <3>4
  <2>2. IsFiniteSet(Upto(l)) /\ rank[k] \in Nat /\ rank[l] \in Nat
    BY <1>1, <1>2
  <2>3. rank[k] = Cardinality(Upto(k)) /\ rank[l] = Cardinality(Upto(l))
    OBVIOUS
  <2> HIDE DEF Upto, rank
  <2>4. Cardinality(Upto(k)) <= Cardinality(Upto(l)) /\ Cardinality(Upto(k)) # Cardinality(Upto(l))
    BY <2>1, <2>2, FS_Subset
  <2> QED
    BY <2>2, <2>3, <2>4
<1>4. \A k, l \in K : rank[k] = rank[l] => k = l
  <2>1. SUFFICES ASSUME NEW k \in K, NEW l \in K, rank[k] = rank[l], k # l PROVE FALSE
    OBVIOUS
  <2>2. k < l \/ l < k
    BY <2>1
  <2>3. rank[k] \in 1 .. n /\ rank[l] \in 1 .. n
    BY <1>2
  <2> HIDE DEF rank
  <2>4. rank[k] < rank[l] \/ rank[l] < rank[k]
    BY <1>3, <2>2
  <2> QED
    BY <1>1, <2>1, <2>3, <2>4
<1>5. \A i \in 1 .. n : \E k \in K : rank[k] = i
  <2>1. rank \in [K -> 1 .. n]
    BY <1>2
  <2>2. rank \in Injection(K, 1 .. n)
    BY <1>4, <2>1 DEF Injection, IsInjective
  <2>3. IsFiniteSet(1 .. n) /\ Cardinality(1 .. n) = n
    BY <1>1, FS_Interval
  <2> HIDE DEF rank
  <2>4. rank \in Surjection(K, 1 .. n)
    BY <2>2, <2>3, FS_Injection
  <2> QED
    BY <2>4 DEF Surjection
<1>6. ASSUME NEW i \in 1 .. n PROVE Nth(i, K) \in K /\ rank[Nth(i, K)] = i
  <2>1. \E k \in K : Cardinality(Upto(k)) = i
    BY <1>5
  <2>2. Nth(i, K) \in K /\ Cardinality(Upto(Nth(i, K))) = i
    BY <2>1 DEF Nth
  <2> QED
    BY <2>2
<1> HIDE DEF rank
<1>7. ASSUME NEW i \in 1 .. n, NEW j \in 1 .. n, i < j PROVE Nth(i, K) < Nth(j, K)
  <2>1. /\ Nth(i, K) \in K /\ rank[Nth(i, K)] = i
        /\ Nth(j, K) \in K /\ rank[Nth(j, K)] = j
    BY <1>6
  <2> DEFINE p == Nth(i, K)
             q == Nth(j, K)
  <2>2. p \in Nat /\ q \in Nat
    BY <2>1
  <2> HIDE DEF p, q
  <2>3. p \in K /\ q \in K /\ rank[p] = i /\ rank[q] = j
    BY <2>1 DEF p, q
  <2>4. i \in Nat /\ j \in Nat /\ i < j
    BY <1>1, <1>7
  <2>5. p # q
    BY <2>3, <2>4
  <2>6. q < p => j < i
    BY <1>3, <2>3
  <2>7. p < q
    BY <2>2, <2>4, <2>5, <2>6
  <2> QED
    BY <2>7 DEF p, q
<1>8. {Nth(i, K) : i \in 1 .. n} = K
  <2>1. ASSUME NEW k \in K PROVE Nth(rank[k], K) = k
    BY <1>2, <1>4, <1>6
  <2> QED
    BY <1>2, <1>6, <2>1
<1> QED
  BY <1>1, <1>6, <1>7, <1>8

(* The elements of a list at some places: a compaction keeps them.          *)
Part(b, K) == [i \in 1 .. Cardinality(K) |-> b[Nth(i, K)]]

LEMMA PartHolds ==
  ASSUME NEW b \in Seq(Nat \ {0}), NEW K \in SUBSET DOMAIN b, NEW r, r = Part(b, K)
  PROVE  /\ r \in Seq(Nat \ {0}) /\ Len(r) <= Len(b)
         /\ SumFunctionOnSet(b, DOMAIN b \ K) \in Nat
         /\ SumFunction(b) = SumFunction(r) + SumFunctionOnSet(b, DOMAIN b \ K)
         /\ Ascending(b) => Ascending(r)
<1> DEFINE n == Cardinality(K)
           at == [i \in 1 .. n |-> Nth(i, K)]
<1>1. /\ Len(b) \in Nat /\ DOMAIN b = 1 .. Len(b) /\ IsFiniteSet(DOMAIN b)
      /\ \A k \in DOMAIN b : b[k] \in Nat \ {0} /\ b[k] \in Nat
  <2>1. /\ Len(b) \in Nat /\ DOMAIN b = 1 .. Len(b) /\ IsFiniteSet(DOMAIN b)
        /\ \A k \in DOMAIN b : b[k] \in Nat /\ b[k] # 0
    BY ListType
  <2> QED
    BY <2>1
<1>2. IsFiniteSet(K) /\ IsFiniteSet(DOMAIN b \ K) /\ n <= Len(b)
  <2>1. Cardinality(1 .. Len(b)) = Len(b)
    BY <1>1, FS_Interval
  <2>2. K \in SUBSET DOMAIN b /\ DOMAIN b \ K \in SUBSET DOMAIN b
    OBVIOUS
  <2>3. IsFiniteSet(K) /\ IsFiniteSet(DOMAIN b \ K) /\ Cardinality(K) <= Cardinality(DOMAIN b)
    BY <1>1, <2>2, FS_Subset
  <2> QED
    BY <1>1, <2>1, <2>3
<1>3. K \in SUBSET Nat
  BY <1>1
<1>4. /\ n \in Nat
      /\ \A i \in 1 .. n : Nth(i, K) \in K
      /\ \A i, j \in 1 .. n : i < j => Nth(i, K) < Nth(j, K)
      /\ {Nth(i, K) : i \in 1 .. n} = K
  BY <1>2, <1>3, NthIs
<1> HIDE DEF n
<1>5. /\ r = [i \in 1 .. n |-> b[at[i]]]
      /\ \A i \in 1 .. n : at[i] \in K
      /\ \A i, j \in 1 .. n : i < j => at[i] < at[j]
      /\ {at[i] : i \in 1 .. n} = K
  BY <1>4 DEF n, Part
<1> HIDE DEF at
<1>6. \A i \in 1 .. n : b[at[i]] \in Nat \ {0}
  BY <1>1, <1>5
<1>7. r \in Seq(Nat \ {0}) /\ Len(r) = n /\ DOMAIN r = 1 .. n
  <2>1. [i \in 1 .. n |-> b[at[i]]] \in Seq(Nat \ {0})
    <3>1. n \in Nat
      BY <1>4
    <3> QED
      BY ONLY <1>6, <3>1
  <2>2. DOMAIN r = 1 .. n
    BY <1>5
  <2>3. Len([i \in 1 .. n |-> b[at[i]]]) = n
    BY <1>4
  <2> QED
    BY <1>5, <2>1, <2>2, <2>3
<1>8. \A i, j \in 1 .. n : at[i] = at[j] => i = j
  <2>1. SUFFICES ASSUME NEW i \in 1 .. n, NEW j \in 1 .. n, at[i] = at[j], i # j PROVE FALSE
    OBVIOUS
  <2>2. i < j \/ j < i
    BY <1>4, <2>1
  <2>3. at[i] \in Nat /\ at[j] \in Nat
    BY <1>3, <1>5
  <2> QED
    BY <1>5, <2>1, <2>2, <2>3
<1>9. SumFunction(r) = SumFunctionOnSet(b, K)
  <2>1. \A k \in DOMAIN r : r[k] = b[at[k]]
    BY <1>5, <1>7
  <2>2. \A k, l \in DOMAIN r : at[k] = at[l] => k = l
    BY <1>7, <1>8
  <2>3. K = {at[k] : k \in DOMAIN r}
    BY <1>5, <1>7
  <2> DEFINE D == DOMAIN r
  <2> DEFINE f == r
             g == b
  <2>4. IsFiniteSet(D) /\ \A x \in D : f[x] \in Nat
    BY <1>7, ListType
  <2>5. \A x \in D : f[x] = g[at[x]]
    BY <2>1
  <2>6. \A x, y \in D : at[x] = at[y] => x = y
    BY <2>2
  <2>7. K = {at[k] : k \in D}
    BY <2>3
  <2> HIDE DEF D, f, g
  <2>8. SumFunctionOnSet(f, D) = SumFunctionOnSet(g, {at[x] : x \in D})
    BY ONLY <2>4, <2>5, <2>6, SumMoved
  <2> QED
    BY <2>7, <2>8 DEF SumFunction, D, f, g
<1>10. /\ SumFunctionOnSet(b, DOMAIN b \ K) \in Nat
       /\ SumFunction(b) = SumFunctionOnSet(b, K) + SumFunctionOnSet(b, DOMAIN b \ K)
  <2> DEFINE L == DOMAIN b \ K
  <2>1. K \cap L = {} /\ K \cup L = DOMAIN b /\ L \in SUBSET DOMAIN b
    OBVIOUS
  <2>2. IsFiniteSet(L)
    BY <1>2
  <2> HIDE DEF L
  <2>3. SumFunctionOnSet(b, L) \in Nat
    BY <1>1, <2>1, <2>2, SumNat
  <2>4. SumFunctionOnSet(b, K \cup L) = SumFunctionOnSet(b, K) + SumFunctionOnSet(b, L)
    BY <1>1, <1>2, <2>1, <2>2, SumJoin
  <2>5. SumFunction(b) = SumFunctionOnSet(b, K) + SumFunctionOnSet(b, L)
    BY <2>1, <2>4 DEF SumFunction
  <2> QED
    BY <2>3, <2>5 DEF L
<1>11. ASSUME Ascending(b) PROVE Ascending(r)
  <2>1. SUFFICES ASSUME NEW k \in 1 .. n, NEW l \in 1 .. n, k < l PROVE r[k] <= r[l]
    BY <1>7 DEF Ascending
  <2>2. at[k] \in DOMAIN b /\ at[l] \in DOMAIN b /\ at[k] < at[l]
    BY <1>5, <2>1
  <2>3. b[at[k]] <= b[at[l]]
    BY <1>11, <2>2 DEF Ascending
  <2> QED
    BY <1>5, <2>3
<1> QED
  BY <1>2, <1>7, <1>9, <1>10, <1>11

-----------------------------------------------------------------------------
(* The classes, what their lists hold, and the bag of buffers lent.         *)

LEMMA ClassIs ==
  /\ Len(Bound) \in Nat /\ DOMAIN Bound = 1 .. Len(Bound)
  /\ \A k \in DOMAIN Bound : Bound[k] \in Nat
  /\ IsFiniteSet(Class)
  /\ \A size \in Nat : ClassOf(size) \in Class
  /\ \A c \in Class : ClassMin(c) \in Nat
<1>1. Bound \in Seq(Nat \ {0})
  BY BoundAssumption
<1>2. /\ Len(Bound) \in Nat /\ DOMAIN Bound = 1 .. Len(Bound)
      /\ \A k \in DOMAIN Bound : Bound[k] \in Nat
  BY <1>1, ListType
<1>3. IsFiniteSet(Class)
  BY <1>2, FS_Interval DEF Class
<1>4. ASSUME NEW size \in Nat PROVE ClassOf(size) \in Class
  <2> DEFINE L == {k \in DOMAIN Bound : Bound[k] <= size}
             n == Len(Bound)
  <2>1. L \in SUBSET (1 .. n)
    BY <1>2
  <2>2. ClassOf(size) = 1 + Cardinality(L)
    BY DEF ClassOf
  <2>3. n \in Nat
    BY <1>2
  <2> HIDE DEF L, n
  <2>4. IsFiniteSet(1 .. n) /\ Cardinality(1 .. n) = n
    BY <2>3, FS_Interval
  <2>5. Cardinality(L) \in Nat /\ Cardinality(L) <= n
    BY <2>1, <2>3, <2>4, FS_Subset, FS_CardinalityType
  <2> QED
    BY <2>2, <2>3, <2>5 DEF Class, n
<1>5. ASSUME NEW c \in Class PROVE ClassMin(c) \in Nat
  <2>1. CASE c = 1
    BY <2>1 DEF ClassMin
  <2>2. CASE c # 1
    <3>1. c - 1 \in DOMAIN Bound
      BY <1>2, <2>2 DEF Class
    <3> QED
      BY <1>2, <2>2, <3>1 DEF ClassMin
  <2> QED
    BY <2>1, <2>2
<1> QED
  BY <1>2, <1>3, <1>4, <1>5

(* Free lists b, each a list of capacities.                                 *)
Lists(b) == \A c \in Class : b[c] \in Seq(Nat \ {0})

LEMMA HeldIs ==
  ASSUME NEW b, Lists(b)
  PROVE  Held(b) \in Nat /\ \A c \in Class : SumFunction(b[c]) \in Nat
<1> DEFINE f == [c \in Class |-> SumFunction(b[c])]
<1>1. ASSUME NEW c \in Class PROVE SumFunction(b[c]) \in Nat
  <2> DEFINE l == b[c]
  <2>1. l \in Seq(Nat \ {0})
    BY DEF Lists
  <2> HIDE DEF l
  <2>2. SumFunction(l) \in Nat
    BY <2>1, ListType
  <2> QED
    BY <2>2 DEF l
<1>2. DOMAIN f = Class /\ \A c \in Class : f[c] \in Nat
  BY <1>1
<1>3. Held(b) = SumFunctionOnSet(f, DOMAIN f)
  BY DEF Held, SumFunction
<1> HIDE DEF f
<1>4. SumFunctionOnSet(f, Class) \in Nat
  BY <1>2, ClassIs, SumNat
<1> QED
  BY <1>1, <1>2, <1>3, <1>4

(* An operation on the list of one class.                                   *)
LEMMA HeldChanged ==
  ASSUME NEW b, NEW d, Lists(b), Lists(d), NEW c \in Class, \A e \in Class \ {c} : b[e] = d[e]
  PROVE  /\ Held(d) + SumFunction(b[c]) = Held(b) + SumFunction(d[c])
         /\ SumFunction(b[c]) <= Held(b)
<1> DEFINE f == [e \in Class |-> SumFunction(b[e])]
           g == [e \in Class |-> SumFunction(d[e])]
           C == Class \ {c}
<1>1. /\ DOMAIN f = Class /\ DOMAIN g = Class
      /\ f[c] = SumFunction(b[c]) /\ g[c] = SumFunction(d[c])
      /\ \A e \in C : f[e] = g[e]
  OBVIOUS
<1>2. /\ \A e \in Class : f[e] \in Nat
      /\ \A e \in Class : g[e] \in Nat
  BY HeldIs
<1>3. Held(b) = SumFunctionOnSet(f, Class) /\ Held(d) = SumFunctionOnSet(g, Class)
  BY DEF Held, SumFunction
<1>4. IsFiniteSet(Class) /\ IsFiniteSet(C)
  <2>1. C \in SUBSET Class
    OBVIOUS
  <2> QED
    BY <2>1, ClassIs, FS_Subset
<1>5. C \subseteq Class
  OBVIOUS
<1> HIDE DEF f, g
<1>6. SumFunctionOnSet(f, Class) = f[c] + SumFunctionOnSet(f, Class \ {c})
  BY <1>2, <1>4, SumTake
<1>7. SumFunctionOnSet(g, Class) = g[c] + SumFunctionOnSet(g, Class \ {c})
  BY <1>2, <1>4, SumTake
<1> HIDE DEF C
<1>8. SumFunctionOnSet(f, C) = SumFunctionOnSet(g, C)
  BY <1>1, <1>4, SumSame
<1>9. SumFunctionOnSet(f, C) \in Nat
  BY <1>2, <1>4, <1>5, SumNat
<1>10. f[c] \in Nat /\ g[c] \in Nat
  BY <1>2
<1> QED
  BY <1>1, <1>3, <1>6, <1>7, <1>8, <1>9, <1>10 DEF C

LEMMA NothingHeld ==
  ASSUME NEW b, b = [c \in Class |-> <<>>]
  PROVE  Held(b) = 0
<1> DEFINE f == [c \in Class |-> SumFunction(b[c])]
<1>1. SumFunction(<<>>) = 0
  <2>1. DOMAIN <<>> = {}
    OBVIOUS
  <2> QED
    BY <2>1, SumEmpty DEF SumFunction
<1>2. \A c \in Class : f[c] = 0
  BY <1>1
<1>3. Held(b) = SumFunctionOnSet(f, Class)
  BY DEF Held, SumFunction
<1> HIDE DEF f
<1>4. SumFunctionOnSet(f, Class) = 0
  <2> DEFINE A == {T \in SUBSET Class : SumFunctionOnSet(f, T) = 0}
  <2>1. {} \in A
    BY SumEmpty
  <2>2. ASSUME NEW T \in SUBSET Class, NEW x \in Class \ T, T \in A PROVE T \cup {x} \in A
    <3>1. IsFiniteSet(T) /\ x \notin T /\ f[x] \in Nat /\ f[x] = 0 /\ \A y \in T : f[y] \in Nat
      BY <1>2, ClassIs, FS_Subset
    <3>2. SumFunctionOnSet(f, T \cup {x}) = f[x] + SumFunctionOnSet(f, T)
      BY <3>1, SumGrown
    <3> QED
      BY <2>2, <3>1, <3>2
  <2> HIDE DEF A
  <2>3. Class \in A
    BY <2>1, <2>2, ClassIs, EveryFinite
  <2> QED
    BY <2>3 DEF A
<1> QED
  BY <1>3, <1>4

LEMMA FragmentedType ==
  ASSUME NEW b
  PROVE  Fragmented(b) \in BOOLEAN
BY DEF Fragmented

LEMMA MaxIs ==
  ASSUME NEW a \in Nat, NEW b \in Nat
  PROVE  Max({a, b}) \in Nat /\ a <= Max({a, b}) /\ b <= Max({a, b})
<1>1. \E x \in {a, b} : \A y \in {a, b} : x >= y
  OBVIOUS
<1>2. Max({a, b}) \in {a, b} /\ \A y \in {a, b} : Max({a, b}) >= y
  BY <1>1 DEF Max
<1> QED
  BY <1>2

LEMMA MinIs ==
  ASSUME NEW S, S \subseteq Nat, S # {}
  PROVE  Min(S) \in S /\ \A x \in S : Min(S) <= x
<1>1. \E x \in S : \A y \in S : x <= y
  BY LeastNat
<1> QED
  BY <1>1 DEF Min

(* A bag of buffers.                                                        *)
Bag(b) == IsABag(b) /\ BagToSet(b) \subseteq Buf

LEMMA BagLent ==
  ASSUME NEW b, Bag(b), NEW buf \in Buf
  PROVE  Bag(b (+) SetToBag({buf}))
BY DEF Bag, IsABag, BagToSet, SetToBag, (+)

LEMMA BagBack ==
  ASSUME NEW b, Bag(b), NEW buf
  PROVE  Bag(b (-) SetToBag({buf}))
BY DEF Bag, IsABag, BagToSet, SetToBag, (-)

-----------------------------------------------------------------------------
(* The free lists, as every operation finds and leaves them.                *)
Sound(b) == \A c \in Class : Ascending(b[c]) /\ Len(b[c]) <= MaxPerClass

Pools == [Class -> Seq(Nat \ {0})]

LEMMA ListsType ==
  ASSUME NEW b \in Pools
  PROVE  Lists(b) /\ Held(b) \in Nat
<1>1. Lists(b)
  BY DEF Lists, Pools
<1> QED
  BY <1>1, HeldIs

(* The list of class c becomes l: out elements leave it and in enter.       *)
LEMMA ListChanged ==
  ASSUME NEW b \in Pools, NEW c \in Class, NEW l \in Seq(Nat \ {0}), NEW d \in Pools,
         d[c] = l, \A e \in Class \ {c} : d[e] = b[e], NEW out \in Nat, NEW in \in Nat,
         SumFunction(b[c]) + in = SumFunction(l) + out, out <= SumFunction(b[c])
  PROVE  /\ out <= Held(b)
         /\ Held(d) = (Held(b) - out) + in
         /\ Minus(Held(b), out) = Held(b) - out
         /\ Sound(b) /\ Ascending(l) /\ Len(l) <= MaxPerClass => Sound(d)
<1>2. d[c] = l /\ \A e \in Class \ {c} : b[e] = d[e]
  OBVIOUS
<1>3. /\ Lists(b) /\ Lists(d) /\ Held(b) \in Nat /\ Held(d) \in Nat
      /\ SumFunction(b[c]) \in Nat /\ SumFunction(d[c]) \in Nat
  BY ListsType, HeldIs
<1>4. /\ Held(d) + SumFunction(b[c]) = Held(b) + SumFunction(d[c])
      /\ SumFunction(b[c]) <= Held(b)
  <2>1. Lists(b)
    BY <1>3
  <2>2. Lists(d)
    BY <1>3
  <2>3. \A e \in Class \ {c} : b[e] = d[e]
    BY <1>2
  <2> QED
    BY ONLY c \in Class, <2>1, <2>2, <2>3, HeldChanged
<1>5. /\ out <= Held(b)
      /\ Held(d) = (Held(b) - out) + in
  <2> DEFINE B == Held(b)
             D == Held(d)
             s == SumFunction(b[c])
             m == SumFunction(l)
  <2>1. /\ B \in Nat /\ D \in Nat /\ s \in Nat /\ m \in Nat
        /\ D + s = B + m /\ s <= B /\ s + in = m + out /\ out <= s
    BY <1>2, <1>3, <1>4
  <2> HIDE DEF B, D, s, m
  <2>2. out <= B /\ D = (B - out) + in
    BY ONLY <2>1, out \in Nat, in \in Nat
  <2> QED
    BY <2>2 DEF B, D
<1>6. Minus(Held(b), out) = Held(b) - out
  BY <1>3, <1>5 DEF Minus
<1>7. ASSUME Sound(b), Ascending(l), Len(l) <= MaxPerClass PROVE Sound(d)
  <2>1. SUFFICES ASSUME NEW e \in Class PROVE Ascending(d[e]) /\ Len(d[e]) <= MaxPerClass
    BY DEF Sound
  <2>2. CASE e = c
    BY <1>2, <1>7, <2>2
  <2>3. CASE e # c
    <3>1. d[e] = b[e]
      BY <1>2, <2>3
    <3>2. Ascending(b[e]) /\ Len(b[e]) <= MaxPerClass
      BY <1>7 DEF Sound
    <3> QED
      BY <3>1, <3>2
  <2> QED
    BY <2>2, <2>3
<1> QED
  BY <1>5, <1>6, <1>7

(* The invariant: the lists are ascending and the bytes exact.              *)
IInv ==
  /\ bucket \in Pools /\ Sound(bucket)
  /\ current = Held(bucket) /\ current <= peak /\ peak \in Nat
  /\ fragmented \in BOOLEAN
  /\ Bag(lent)

LEMMA IInvIs == IInv <=> TypeOK /\ FreeListsSound
<1>1. Sound(bucket) <=> BucketsSorted /\ \A c \in Class : Len(bucket[c]) <= MaxPerClass
  BY DEF Sound, BucketsSorted, Ascending
<1>2. bucket \in Pools => Held(bucket) \in Nat
  BY ListsType
<1> QED
  BY <1>1, <1>2 DEF IInv, TypeOK, FreeListsSound, BytesExact, Pools, Bag

(* A free list that has a buffer for a size, and the buffer it gives.       *)
LEMMA FitIs ==
  ASSUME NEW b \in Seq(Nat \ {0}), NEW size \in Nat, Ascending(b)
  PROVE  /\ FitAt(b, size) <= Len(b) <=> \E k \in DOMAIN b : b[k] >= size
         /\ FitAt(b, size) <= Len(b) =>
              /\ FitAt(b, size) \in DOMAIN b /\ b[FitAt(b, size)] >= size
              /\ \A k \in DOMAIN b : b[k] >= size => b[FitAt(b, size)] <= b[k]
<1> DEFINE at == Below(b, size) + 1
           n == Len(b)
<1>1. n \in Nat /\ DOMAIN b = 1 .. n /\ \A k \in DOMAIN b : b[k] \in Nat
  BY ListType
<1>2. Below(b, size) \in 0 .. n /\ \A k \in DOMAIN b : b[k] < size <=> k <= Below(b, size)
  BY BelowIs
<1>3. FitAt(b, size) = at
  BY DEF FitAt
<1>4. at \in Nat /\ at >= 1 /\ \A k \in DOMAIN b : b[k] >= size <=> at <= k
  BY <1>1, <1>2
<1> HIDE DEF at, n
<1>5. ASSUME NEW k \in DOMAIN b, b[k] >= size PROVE at <= n
  BY <1>1, <1>4, <1>5
<1>6. ASSUME at <= n
      PROVE  /\ at \in DOMAIN b /\ b[at] >= size
             /\ \A k \in DOMAIN b : b[k] >= size => b[at] <= b[k]
  <2>1. at \in DOMAIN b
    BY <1>1, <1>4, <1>6
  <2>2. b[at] >= size
    BY <1>4, <2>1
  <2>3. ASSUME NEW k \in DOMAIN b, b[k] >= size PROVE b[at] <= b[k]
    <3>1. at <= k
      BY <1>4, <2>3
    <3>2. CASE at = k
      BY <1>1, <3>2
    <3>3. CASE at < k
      BY <2>1, <3>3 DEF Ascending
    <3> QED
      BY <1>1, <1>4, <3>1, <3>2, <3>3
  <2> QED
    BY <2>1, <2>2, <2>3
<1> QED
  BY <1>3, <1>5, <1>6 DEF n

-----------------------------------------------------------------------------
(* One lemma per operation.                                                 *)

LEMMA FittingIs ==
  ASSUME IInv, NEW size \in Nat
  PROVE  /\ Fitting(size) = {c \in Class : c >= ClassOf(size) /\ \E k \in DOMAIN bucket[c] : bucket[c][k] >= size}
         /\ Fitting(size) \subseteq Nat /\ Class \subseteq Nat
<1>1. ASSUME NEW c \in Class
      PROVE  FitAt(bucket[c], size) <= Len(bucket[c]) <=> \E k \in DOMAIN bucket[c] : bucket[c][k] >= size
  <2>1. bucket[c] \in Seq(Nat \ {0}) /\ Ascending(bucket[c])
    BY DEF IInv, Pools, Sound
  <2> QED
    BY <2>1, FitIs
<1>2. Len(Bound) \in Nat /\ ClassOf(size) \in Class
  BY ClassIs
<1>3. /\ ClassOf(size) .. Len(Bound) + 1 = {c \in Class : c >= ClassOf(size)}
      /\ Class \subseteq Nat
  BY <1>2 DEF Class
<1>4. Fitting(size) = {c \in Class : c >= ClassOf(size) /\ FitAt(bucket[c], size) <= Len(bucket[c])}
  BY <1>3 DEF Fitting
<1> QED
  BY <1>1, <1>3, <1>4

LEMMA ReuseIs ==
  ASSUME IInv, NEW size \in Nat, Reuse(size), NEW c, c = Min(Fitting(size)),
         NEW at, at = FitAt(bucket[c], size)
  PROVE  /\ c \in Class /\ at \in DOMAIN bucket[c] /\ bucket[c][at] \in Nat \ {0}
         /\ bucket[c][at] >= size
         /\ \A k \in DOMAIN bucket[c] : bucket[c][k] >= size => bucket[c][at] <= bucket[c][k]
         /\ bucket' \in Pools /\ Sound(bucket') /\ current' = Held(bucket')
         /\ current' = current - bucket[c][at]
<1> DEFINE b == bucket[c]
           l == RemoveAt(b, at)
<1>1. c \in Fitting(size)
  BY FittingIs, MinIs DEF Reuse
<1>2. c \in Class /\ at <= Len(b)
  BY <1>1, FittingIs DEF Fitting
<1>3. b \in Seq(Nat \ {0}) /\ Ascending(b) /\ Len(b) <= MaxPerClass
  BY <1>2 DEF IInv, Pools, Sound
<1>4. at = FitAt(b, size)
  OBVIOUS
<1>5. /\ bucket' = [bucket EXCEPT ![c] = l]
      /\ current' = Minus(current, b[at])
  BY DEF Reuse
<1> HIDE DEF b
<1>6. /\ at \in DOMAIN b /\ b[at] >= size
      /\ \A k \in DOMAIN b : b[k] >= size => b[at] <= b[k]
  BY <1>2, <1>3, <1>4, FitIs
<1>7. b[at] \in Nat \ {0} /\ SumFunction(b) \in Nat /\ Len(b) \in Nat
  <2>1. b[at] \in Nat /\ b[at] # 0 /\ SumFunction(b) \in Nat /\ Len(b) \in Nat
    BY <1>3, <1>6, ListType
  <2> QED
    BY <2>1
<1> HIDE DEF l
<1>8. l \in Seq(Nat \ {0}) /\ Without(l, b, at)
  BY <1>3, <1>6, Removed DEF l
<1>9. SumFunction(b) = b[at] + SumFunction(l) /\ Ascending(l)
  BY <1>3, <1>8, WithoutHolds
<1>10. SumFunction(l) \in Nat /\ Len(l) \in Nat /\ Len(l) <= MaxPerClass
  <2>1. SumFunction(l) \in Nat /\ Len(l) \in Nat
    BY <1>8, ListType
  <2>2. Len(b) = Len(l) + 1
    BY <1>8 DEF Without
  <2> QED
    BY <1>3, <1>7, <2>1, <2>2, MaxPerClassAssumption
<1>11. /\ bucket \in Pools /\ Sound(bucket) /\ current = Held(bucket)
  BY DEF IInv
<1>12. bucket[c] = b
  BY DEF b
<1>13. SumFunction(b) + 0 = SumFunction(l) + b[at] /\ b[at] <= SumFunction(b)
  BY <1>7, <1>9, <1>10
<1> DEFINE out == b[at]
           in == 0
           d == [bucket EXCEPT ![c] = l]
<1>14. /\ out \in Nat /\ in \in Nat /\ in = 0
       /\ SumFunction(bucket[c]) + in = SumFunction(l) + out /\ out <= SumFunction(bucket[c])
  BY <1>7, <1>12, <1>13
<1>15. d \in Pools /\ d[c] = l /\ \A e \in Class \ {c} : d[e] = bucket[e]
  BY <1>2, <1>8, <1>11 DEF Pools
<1> HIDE DEF out, in, d
<1>16. /\ out <= Held(bucket)
       /\ Held(d) = (Held(bucket) - out) + in
       /\ Minus(Held(bucket), out) = Held(bucket) - out
       /\ Sound(d)
  <2>1. c \in Class /\ l \in Seq(Nat \ {0}) /\ Ascending(l) /\ Len(l) <= MaxPerClass
    BY <1>2, <1>8, <1>9, <1>10
  <2> QED
    BY ONLY <2>1, <1>11, <1>14, <1>15, ListChanged
<1>17. Held(bucket) \in Nat
  BY <1>11, ListsType
<1>18. bucket' = d /\ current' = Minus(current, out)
  BY <1>5 DEF out, d
<1>19. current' = current - out /\ current' = Held(bucket')
  BY <1>11, <1>14, <1>16, <1>17, <1>18
<1> QED
  BY <1>2, <1>6, <1>7, <1>15, <1>16, <1>18, <1>19 DEF out, b

(* Room for one more buffer in a list.                                      *)
LEMMA RoomIs ==
  ASSUME NEW b \in Seq(Nat \ {0}), Ascending(b), Len(b) <= MaxPerClass
  PROVE  /\ MadeRoom(b) \in Seq(Nat \ {0}) /\ Ascending(MadeRoom(b)) /\ Len(MadeRoom(b)) + 1 <= MaxPerClass
         /\ Evicted(b) \in Nat /\ SumFunction(b) = Evicted(b) + SumFunction(MadeRoom(b))
<1>1. Len(b) \in Nat /\ SumFunction(b) \in Nat /\ \A k \in DOMAIN b : b[k] \in Nat
  BY ListType
<1>2. CASE Len(b) < MaxPerClass
  BY <1>1, <1>2, MaxPerClassAssumption DEF MadeRoom, Evicted
<1>3. CASE ~(Len(b) < MaxPerClass)
  <2>1. b # <<>> /\ Len(b) = MaxPerClass
    BY <1>1, <1>3, EmptySeq, MaxPerClassAssumption
  <2>2. /\ Tail(b) \in Seq(Nat \ {0}) /\ Without(Tail(b), b, 1)
        /\ Head(b) = b[1] /\ 1 \in DOMAIN b
    BY <2>1, WithoutFirst
  <2>3. SumFunction(b) = b[1] + SumFunction(Tail(b)) /\ Ascending(Tail(b))
    BY <2>2, WithoutHolds
  <2>4. Len(b) = Len(Tail(b)) + 1
    BY <2>2 DEF Without
  <2>5. MadeRoom(b) = Tail(b) /\ Evicted(b) = Head(b)
    BY <1>3 DEF MadeRoom, Evicted
  <2>6. Len(Tail(b)) + 1 <= MaxPerClass
    BY <1>1, <2>1, <2>4
  <2> QED
    BY <1>1, <2>2, <2>3, <2>5, <2>6
<1> QED
  BY <1>2, <1>3

LEMMA ReleaseIs ==
  ASSUME IInv, NEW buf \in Buf, Release(buf)
  PROVE  /\ bucket' \in Pools /\ Sound(bucket') /\ current' = Held(bucket')
         /\ current' <= peak' /\ peak' \in Nat
         /\ fragmented' \in BOOLEAN
<1>1. CASE Refused(buf) /\ UNCHANGED <<bucket, current, peak, fragmented>>
  BY <1>1 DEF IInv
<1>2. ASSUME ~Refused(buf),
             bucket' = [bucket EXCEPT ![ClassOf(buf.len)] = Insert(MadeRoom(@), buf.cap)],
             current' = Minus(current, Evicted(bucket[ClassOf(buf.len)])) + buf.cap,
             peak' = Max({peak, current'}),
             fragmented' = Fragmented(bucket')
      PROVE  /\ bucket' \in Pools /\ Sound(bucket') /\ current' = Held(bucket')
             /\ current' <= peak' /\ peak' \in Nat
             /\ fragmented' \in BOOLEAN
  <2> DEFINE c == ClassOf(buf.len)
             b == bucket[c]
             in == buf.cap
             out == Evicted(b)
             m == MadeRoom(b)
             l == Insert(m, in)
             d == bucket'
  <2>1. c \in Class /\ in \in Nat /\ in # 0
    BY <1>2, ClassIs DEF Buf, Refused
  <2>2. bucket \in Pools /\ Sound(bucket) /\ current = Held(bucket) /\ peak \in Nat
    BY DEF IInv
  <2>3. d = [bucket EXCEPT ![c] = l] /\ current' = Minus(current, out) + in
    BY <1>2
  <2> HIDE DEF c, in
  <2>4. b \in Seq(Nat \ {0}) /\ Ascending(b) /\ Len(b) <= MaxPerClass
    BY <2>1, <2>2 DEF Pools, Sound
  <2> HIDE DEF b
  <2>5. /\ m \in Seq(Nat \ {0}) /\ Ascending(m) /\ Len(m) + 1 <= MaxPerClass
        /\ out \in Nat /\ SumFunction(b) = out + SumFunction(m)
    BY <2>4, RoomIs
  <2> HIDE DEF m, out
  <2>6. l \in Seq(Nat \ {0}) /\ Len(l) = Len(m) + 1 /\ SumFunction(l) = in + SumFunction(m) /\ Ascending(l)
    <3>1. in \in Nat \ {0}
      BY <2>1
    <3> QED
      BY <2>5, <3>1, InsertHolds
  <2>7. SumFunction(b) \in Nat /\ SumFunction(m) \in Nat /\ SumFunction(l) \in Nat
    BY <2>4, <2>5, <2>6, ListType
  <2>8. Len(l) <= MaxPerClass
    BY <2>5, <2>6
  <2> HIDE DEF l
  <2>9. d \in Pools /\ d[c] = l /\ \A e \in Class \ {c} : d[e] = bucket[e]
    BY <2>1, <2>2, <2>3, <2>6 DEF Pools
  <2>10. SumFunction(b) + in = SumFunction(l) + out /\ out <= SumFunction(b)
    BY <2>1, <2>5, <2>6, <2>7
  <2>11. SumFunction(bucket[c]) + in = SumFunction(l) + out /\ out <= SumFunction(bucket[c])
    BY <2>10 DEF b
  <2> HIDE DEF d
  <2>12. /\ out <= Held(bucket)
         /\ Held(d) = (Held(bucket) - out) + in
         /\ Minus(Held(bucket), out) = Held(bucket) - out
         /\ Sound(d)
    BY ONLY <2>1, <2>2, <2>5, <2>6, <2>8, <2>9, <2>11, ListChanged
  <2>13. Held(d) \in Nat
    BY <2>9, ListsType
  <2>14. current' = Held(d)
    BY <2>2, <2>3, <2>12
  <2>15. peak' \in Nat /\ current' <= peak'
    BY <1>2, <2>2, <2>13, <2>14, MaxIs
  <2> QED
    BY <1>2, <2>9, <2>12, <2>14, <2>15, FragmentedType DEF d
<1> QED
  BY <1>1, <1>2 DEF Release

LEMMA CompactIs ==
  ASSUME IInv, Compact
  PROVE  /\ bucket' \in Pools /\ Sound(bucket') /\ current' = Held(bucket')
         /\ current' <= current
<1> DEFINE r == [c \in Class |-> Retained(c)]
           f == [c \in Class |-> SumFunction(Retained(c))]
           g == [c \in Class |-> Freed(c)]
           h == [c \in Class |-> SumFunction(bucket[c])]
<1>1. ASSUME NEW c \in Class
      PROVE  /\ Retained(c) \in Seq(Nat \ {0}) /\ Ascending(Retained(c)) /\ Len(Retained(c)) <= MaxPerClass
             /\ Freed(c) \in Nat /\ SumFunction(Retained(c)) \in Nat
             /\ SumFunction(bucket[c]) = SumFunction(Retained(c)) + Freed(c)
  <2> DEFINE b == bucket[c]
             K == Kept(c)
             x == Retained(c)
  <2>1. b \in Seq(Nat \ {0}) /\ Ascending(b) /\ Len(b) <= MaxPerClass
    BY DEF IInv, Pools, Sound
  <2>2. K \in SUBSET DOMAIN b
    BY DEF Kept
  <2>3. x = Part(b, K)
    BY DEF Retained, Part
  <2>4. Freed(c) = SumFunctionOnSet(b, DOMAIN b \ K)
    BY DEF Freed
  <2> HIDE DEF b, K, x
  <2>5. /\ x \in Seq(Nat \ {0}) /\ Len(x) <= Len(b)
        /\ SumFunctionOnSet(b, DOMAIN b \ K) \in Nat
        /\ SumFunction(b) = SumFunction(x) + SumFunctionOnSet(b, DOMAIN b \ K)
        /\ Ascending(x)
    BY <2>1, <2>2, <2>3, PartHolds
  <2>6. SumFunction(x) \in Nat /\ Len(x) \in Nat /\ Len(b) \in Nat
    BY <2>1, <2>5, ListType
  <2>7. Len(x) <= MaxPerClass
    BY <2>1, <2>5, <2>6, MaxPerClassAssumption
  <2> QED
    BY <2>4, <2>5, <2>6, <2>7 DEF b, x
<1>2. bucket' = r /\ current' = Minus(current, SumFunction(g))
  BY DEF Compact
<1>3. bucket \in Pools /\ current = Held(bucket)
  BY DEF IInv
<1>4. r \in Pools /\ Sound(r)
  BY <1>1 DEF Pools, Sound
<1>5. \A c \in Class : f[c] \in Nat /\ g[c] \in Nat /\ h[c] = f[c] + g[c]
  BY <1>1
<1>6. DOMAIN g = Class /\ DOMAIN h = Class
  OBVIOUS
<1>7. Held(bucket) = SumFunctionOnSet(h, Class)
  BY DEF Held, SumFunction
<1>8. Held(r) = SumFunctionOnSet(f, Class)
  <2>1. [c \in Class |-> SumFunction(r[c])] = f
    OBVIOUS
  <2>2. DOMAIN f = Class
    OBVIOUS
  <2> HIDE DEF f, r
  <2> QED
    BY <2>1, <2>2 DEF Held, SumFunction
<1> HIDE DEF f, g, h, r
<1>9. SumFunctionOnSet(h, Class) = SumFunctionOnSet(f, Class) + SumFunctionOnSet(g, Class)
  BY <1>5, ClassIs, SumAdded
<1>10. SumFunctionOnSet(f, Class) \in Nat /\ SumFunctionOnSet(g, Class) \in Nat
  BY <1>5, ClassIs, SumNat
<1>11. current = Held(r) + SumFunctionOnSet(g, Class)
  BY <1>3, <1>7, <1>8, <1>9
<1>12. current' = Minus(current, SumFunctionOnSet(g, Class))
  BY <1>2, <1>6 DEF SumFunction
<1>13. current' = Held(r) /\ current' <= current
  BY <1>8, <1>10, <1>11, <1>12 DEF Minus
<1> QED
  BY <1>2, <1>4, <1>13

-----------------------------------------------------------------------------
(* The invariant holds of every reachable state.                            *)

LEMMA InitSound == Init => IInv
<1>1. SUFFICES ASSUME Init PROVE IInv
  OBVIOUS
<1>2. bucket \in Pools /\ Sound(bucket)
  <2>1. <<>> \in Seq(Nat \ {0}) /\ Len(<<>>) = 0 /\ DOMAIN <<>> = {}
    OBVIOUS
  <2> QED
    BY <1>1, <2>1, MaxPerClassAssumption DEF Init, Pools, Sound, Ascending
<1>3. Held(bucket) = 0
  BY <1>1, NothingHeld DEF Init
<1>4. Bag(lent)
  BY <1>1 DEF Init, Bag, EmptyBag, SetToBag, IsABag, BagToSet
<1>5. current = 0 /\ peak = 0 /\ fragmented \in BOOLEAN
  BY <1>1 DEF Init
<1> QED
  BY <1>2, <1>3, <1>4, <1>5 DEF IInv

LEMMA StepSound == IInv /\ [Next]_vars => IInv'
<1>1. SUFFICES ASSUME IInv, [Next]_vars PROVE IInv'
  OBVIOUS
<1>2. /\ bucket \in Pools /\ Sound(bucket) /\ current = Held(bucket) /\ current \in Nat
      /\ current <= peak /\ peak \in Nat /\ fragmented \in BOOLEAN /\ Bag(lent)
  BY <1>1, ListsType DEF IInv
<1>3. ASSUME NEW size \in Size, Reuse(size) PROVE IInv'
  <2>1. size \in Nat
    BY SizeAssumption
  <2> DEFINE c == Min(Fitting(size))
             at == FitAt(bucket[c], size)
             buf == [cap |-> bucket[c][at], len |-> size]
  <2>2. /\ bucket[c][at] \in Nat
        /\ bucket' \in Pools /\ Sound(bucket') /\ current' = Held(bucket')
        /\ current' = current - bucket[c][at]
    BY <1>1, <1>3, <2>1, ReuseIs
  <2>3. lent' = lent (+) SetToBag({buf})
    BY <1>3 DEF Reuse
  <2>4. buf \in Buf
    BY <2>1, <2>2 DEF Buf
  <2>5. UNCHANGED <<peak, fragmented>>
    BY <1>3 DEF Reuse
  <2> DEFINE n == bucket[c][at]
  <2>6. n \in Nat /\ current' = current - n
    BY <2>2
  <2> HIDE DEF c, at, buf, n
  <2>7. Bag(lent')
    BY <1>2, <2>3, <2>4, BagLent
  <2>8. current' <= peak'
    BY <1>2, <2>5, <2>6
  <2> QED
    BY <1>2, <2>2, <2>5, <2>7, <2>8 DEF IInv
<1>4. ASSUME NEW size \in Size, Allocate(size) PROVE IInv'
  <2> DEFINE buf == [cap |-> size, len |-> size]
  <2>1. size \in Nat /\ buf \in Buf
    BY SizeAssumption DEF Buf
  <2>2. lent' = lent (+) SetToBag({buf}) /\ UNCHANGED <<bucket, current, fragmented>>
    BY <1>4 DEF Allocate
  <2> HIDE DEF buf
  <2>3. Bag(lent')
    BY <1>2, <2>1, <2>2, BagLent
  <2>4. peak' \in Nat /\ peak <= peak'
    <3>1. peak' = Max({peak, current + size})
      BY <1>4 DEF Allocate
    <3>2. current + size \in Nat
      BY <1>2, <2>1
    <3> QED
      BY <1>2, <3>1, <3>2, MaxIs
  <2> QED
    BY <1>2, <2>2, <2>3, <2>4 DEF IInv
<1>5. ASSUME NEW buf \in Buf, Release(buf), Bag(lent') PROVE IInv'
  BY <1>1, <1>5, ReleaseIs DEF IInv
<1>6. ASSUME NEW buf \in BagToSet(lent), Return(buf) PROVE IInv'
  <2>1. buf \in Buf
    BY <1>2 DEF Bag
  <2>2. Bag(lent')
    BY <1>2, <1>6, BagBack DEF Return
  <2> QED
    BY <1>5, <1>6, <2>1, <2>2 DEF Return
<1>7. ASSUME NEW buf \in BagToSet(lent), Forget(buf) PROVE IInv'
  <2>1. Bag(lent')
    BY <1>2, <1>7, BagBack DEF Forget
  <2> QED
    BY <1>2, <1>7, <2>1 DEF Forget, IInv
<1>8. ASSUME NEW buf \in Foreign, Donate(buf) PROVE IInv'
  <2>1. buf \in Buf
    BY SizeAssumption DEF Buf
  <2> QED
    BY <1>2, <1>5, <1>8, <2>1 DEF Donate
<1>9. ASSUME Clear PROVE IInv'
  <2>1. bucket' = [c \in Class |-> <<>>] /\ current' = 0 /\ UNCHANGED <<peak, fragmented, lent>>
    BY <1>9 DEF Clear
  <2>2. <<>> \in Seq(Nat \ {0}) /\ Len(<<>>) = 0 /\ DOMAIN <<>> = {}
    OBVIOUS
  <2>3. bucket' \in Pools /\ Sound(bucket')
    BY <2>1, <2>2, MaxPerClassAssumption DEF Pools, Sound, Ascending
  <2>4. Held(bucket') = 0
    BY <2>1, NothingHeld
  <2> QED
    BY <1>2, <2>1, <2>3, <2>4 DEF IInv
<1>10. ASSUME Compact PROVE IInv'
  <2>1. /\ bucket' \in Pools /\ Sound(bucket') /\ current' = Held(bucket')
        /\ current' <= current
    BY <1>1, <1>10, CompactIs
  <2>2. fragmented' \in BOOLEAN /\ UNCHANGED <<peak, lent>>
    BY <1>10, FragmentedType DEF Compact
  <2>3. current' \in Nat
    BY <2>1, ListsType
  <2>4. current' <= peak'
    BY <1>2, <2>1, <2>2, <2>3
  <2> QED
    BY <1>2, <2>1, <2>2, <2>4 DEF IInv
<1>11. CASE UNCHANGED vars
  BY <1>2, <1>11 DEF vars, IInv
<1> QED
  BY <1>1, <1>3, <1>4, <1>6, <1>7, <1>8, <1>9, <1>10, <1>11 DEF Next, Acquire

(* Every reachable state of the pool is of the declared types: no free list *)
(* is ever longer than MAX_BUCKETS_PER_CLASS or keeps an empty buffer.      *)
THEOREM TypeCorrect == Spec => []TypeOK
<1>1. Spec => []IInv
  BY InitSound, StepSound, PTL DEF Spec
<1>2. IInv => TypeOK
  BY IInvIs
<1> QED
  BY <1>1, <1>2, PTL

(* No mix of acquires, releases, evictions, clears and compactions gets a   *)
(* free list out of order or current_bytes away from what the lists hold.   *)
THEOREM FreeListsCorrect == Spec => []FreeListsSound
<1>1. Spec => []IInv
  BY InitSound, StepSound, PTL DEF Spec
<1>2. IInv => FreeListsSound
  BY IInvIs
<1> QED
  BY <1>1, <1>2, PTL

(* A request takes the smallest buffer that is large enough, of the first   *)
(* class that has one, and allocates only when there is none.               *)
THEOREM BestFitCorrect == Spec => BestFit
<1> DEFINE Fits(c, size) == {k \in DOMAIN bucket[c] : bucket[c][k] >= size}
           Having(size) == {c \in Class : c >= ClassOf(size) /\ Fits(c, size) # {}}
           Best(c, size) == Min({bucket[c][k] : k \in Fits(c, size)})
<1>1. IInv /\ [Next]_vars =>
        \A size \in Size : Acquire(size) =>
          LET fits(c) == {k \in DOMAIN bucket[c] : bucket[c][k] >= size}
              some == {c \in Class : c >= ClassOf(size) /\ fits(c) # {}}
              best(c) == Min({bucket[c][k] : k \in fits(c)})
          IN IF some = {} THEN UNCHANGED bucket
             ELSE current' = current - best(Min(some))
  <2>1. SUFFICES ASSUME IInv, NEW size \in Size, Acquire(size)
                 PROVE  IF Having(size) = {} THEN UNCHANGED bucket
                        ELSE current' = current - Best(Min(Having(size)), size)
    OBVIOUS
  <2>2. size \in Nat
    BY SizeAssumption
  <2>3. Having(size) = Fitting(size)
    BY <2>1, <2>2, FittingIs
  <2>4. CASE Having(size) = {}
    BY <2>1, <2>3, <2>4 DEF Acquire, Reuse, Allocate
  <2>5. CASE Having(size) # {}
    <3> DEFINE c == Min(Fitting(size))
               at == FitAt(bucket[c], size)
               V == {bucket[c][k] : k \in Fits(c, size)}
    <3>1. Reuse(size)
      BY <2>1, <2>3, <2>5 DEF Acquire, Allocate
    <3>2. /\ c \in Class /\ at \in DOMAIN bucket[c] /\ bucket[c][at] >= size
          /\ \A k \in DOMAIN bucket[c] : bucket[c][k] >= size => bucket[c][at] <= bucket[c][k]
          /\ current' = current - bucket[c][at]
      BY <2>1, <2>2, <3>1, ReuseIs
    <3>3. \A k \in DOMAIN bucket[c] : bucket[c][k] \in Nat
      <4>1. bucket[c] \in Seq(Nat \ {0})
        BY <2>1, <3>2 DEF IInv, Pools
      <4> QED
        BY <4>1, ListType
    <3>4. bucket[c][at] \in V /\ V \subseteq Nat /\ \A v \in V : bucket[c][at] <= v
      BY <3>2, <3>3
    <3> HIDE DEF V, c, at
    <3>5. Min(V) \in V /\ \A v \in V : Min(V) <= v
      BY <3>4, MinIs
    <3>6. Min(V) = bucket[c][at]
      BY <3>4, <3>5
    <3>7. Best(Min(Having(size)), size) = Min(V)
      BY <2>3 DEF V, c
    <3> QED
      BY <2>5, <3>2, <3>6, <3>7
  <2> QED
    BY <2>4, <2>5
<1>2. Spec => []IInv
  BY InitSound, StepSound, PTL DEF Spec
<1> QED
  BY <1>1, <1>2, PTL DEF Spec, BestFit
====
