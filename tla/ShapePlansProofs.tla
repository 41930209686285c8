-------------------------- MODULE ShapePlansProofs --------------------------
(***************************************************************************)
(* Theorems about ShapePlans, for every graph, every set of feeds and      *)
(* every number of callers and of cached plans.                            *)
(***************************************************************************)
EXTENDS ShapePlans, SequenceTheorems, WellFoundedInduction, TLAPS

-----------------------------------------------------------------------------
(* A set of numbers that is not empty has a least one: with it, what holds  *)
(* of every number is proved by a smallest counterexample.                  *)
LEMMA LeastNat ==
  ASSUME NEW T, T \subseteq Nat, T # {}
  PROVE  \E n \in T : \A k \in T : n <= k
<1>1. PICK n \in T : \A k \in T : ~(<<k, n>> \in {ss \in Nat \X Nat : ss[1] < ss[2]})
  BY WFMin, NatLessThanWellFounded DEF OpToRel
<1>2. ASSUME NEW k \in T PROVE n <= k
  <2>1. n \in Nat /\ k \in Nat /\ ~(k < n)
    BY <1>1
  <2> QED
    BY <2>1
<1> QED
  BY <1>2

(* infer_shapes goes over the nodes in order: what it makes of the first i  *)
(* nodes is a function of i, and never loses a shape nor overwrites that of *)
(* an input or an initializer.                                              *)

Step(known, i, before) ==
  IF Nodes[i].rule \in known /\ Nodes[i].in \in DOMAIN before
    THEN Put(before, Nodes[i].out, Shaped(Nodes[i].rule, before[Nodes[i].in]))
    ELSE before

Partial(seed, known, m, g) ==
  g = [i \in 0 .. m |-> IF i = 0 THEN seed ELSE Step(known, i, g[i - 1])]

LEMMA PartialExists ==
  ASSUME NEW seed, NEW known, NEW m \in Nat
  PROVE  \E g : Partial(seed, known, m, g)
<1> DEFINE Bad == {n \in Nat : ~\E g : Partial(seed, known, n, g)}
<1>1. SUFFICES ASSUME Bad # {} PROVE FALSE
  OBVIOUS
<1>2. PICK n \in Bad : \A k \in Bad : n <= k
  BY <1>1, LeastNat
<1>3. CASE n = 0
  <2>1. Partial(seed, known, 0, [i \in 0 .. 0 |-> seed])
    BY DEF Partial
  <2> QED
    BY <1>3, <2>1
<1>4. CASE n # 0
  <2>1. n - 1 \in Nat /\ n - 1 \notin Bad
    BY <1>2, <1>4
  <2>2. PICK h : Partial(seed, known, n - 1, h)
    BY <2>1
  <2> DEFINE g == [i \in 0 .. n |-> IF i = n THEN Step(known, n, h[n - 1]) ELSE h[i]]
  <2>3. \A i \in 0 .. n - 1 : h[i] = IF i = 0 THEN seed ELSE Step(known, i, h[i - 1])
    BY <2>2 DEF Partial
  <2>4. \A i \in 0 .. n : g[i] = IF i = 0 THEN seed ELSE Step(known, i, g[i - 1])
    <3>1. TAKE i \in 0 .. n
    <3>2. CASE i = n
      <4>1. g[n] = Step(known, n, h[n - 1]) /\ g[n - 1] = h[n - 1]
        BY <1>4
      <4> QED
        BY <3>2, <4>1, <1>4
    <3>3. CASE i # n
      BY <3>3, <2>3
    <3> QED
      BY <3>2, <3>3
  <2>5. Partial(seed, known, n, g)
    BY <2>4 DEF Partial
  <2> QED
    BY <2>5
<1> QED
  BY <1>3, <1>4

LEMMA ShapesFunction ==
  ASSUME NEW seed, NEW known
  PROVE  \E g : Partial(seed, known, Len(Nodes), g) /\ ShapesBy(seed, known) = g[Len(Nodes)]
<1> DEFINE P(g) == g = [i \in 0 .. Len(Nodes) |->
                     IF i = 0 THEN seed
                     ELSE IF Nodes[i].rule \in known /\ Nodes[i].in \in DOMAIN g[i - 1]
                       THEN Put(g[i - 1], Nodes[i].out, Shaped(Nodes[i].rule, g[i - 1][Nodes[i].in]))
                       ELSE g[i - 1]]
<1>1. Len(Nodes) \in Nat
  BY NodesAssumption
<1>2. PICK h : Partial(seed, known, Len(Nodes), h)
  BY <1>1, PartialExists
<1>s. P(h)
  <2>1. h = [i \in 0 .. Len(Nodes) |-> IF i = 0 THEN seed ELSE Step(known, i, h[i - 1])]
    BY <1>2 DEF Partial
  <2> QED
    BY <2>1 DEF Step
<1>3. P(CHOOSE g : P(g))
  BY <1>s
<1>4. ShapesBy(seed, known) = (CHOOSE g : P(g))[Len(Nodes)]
  BY DEF ShapesBy
<1> QED
  BY <1>3, <1>4 DEF Partial, Step

(* Every name of the seed keeps a shape, and the names no node writes keep  *)
(* theirs.                                                                  *)
LEMMA ShapesKept ==
  ASSUME NEW seed, NEW known
  PROVE  LET shapes == ShapesBy(seed, known)
         IN /\ DOMAIN seed \subseteq DOMAIN shapes
            /\ \A n \in Inputs \cup DOMAIN Weights :
                 /\ n \in DOMAIN shapes <=> n \in DOMAIN seed
                 /\ n \in DOMAIN seed => shapes[n] = seed[n]
<1>1. PICK g : Partial(seed, known, Len(Nodes), g) /\ ShapesBy(seed, known) = g[Len(Nodes)]
  BY ShapesFunction
<1> DEFINE Kept(shapes) == /\ DOMAIN seed \subseteq DOMAIN shapes
                           /\ \A n \in Inputs \cup DOMAIN Weights :
                                /\ n \in DOMAIN shapes <=> n \in DOMAIN seed
                                /\ n \in DOMAIN seed => shapes[n] = seed[n]
           Bad == {i \in 0 .. Len(Nodes) : ~Kept(g[i])}
<1>2. Len(Nodes) \in Nat /\ DOMAIN Nodes = 1 .. Len(Nodes)
  BY NodesAssumption
<1>3. \A i \in 0 .. Len(Nodes) : g[i] = IF i = 0 THEN seed ELSE Step(known, i, g[i - 1])
  BY <1>1 DEF Partial
<1>4. Kept(seed)
  OBVIOUS
<1>5. ASSUME NEW i \in 1 .. Len(Nodes), NEW before, Kept(before)
      PROVE  Kept(Step(known, i, before))
  <2>1. Nodes[i].out \notin Inputs \cup DOMAIN Weights
    BY <1>2, SingleAssignment
  <2>2. CASE Nodes[i].rule \in known /\ Nodes[i].in \in DOMAIN before
    <3> DEFINE out == Nodes[i].out
               after == Put(before, out, Shaped(Nodes[i].rule, before[Nodes[i].in]))
    <3>1. Step(known, i, before) = after
      BY <2>2 DEF Step
    <3>2. /\ DOMAIN after = DOMAIN before \cup {out}
          /\ \A m \in DOMAIN before : m # out => after[m] = before[m]
      BY DEF Put, Merge
    <3> HIDE DEF after
    <3>3. Kept(after)
      BY <1>5, <2>1, <3>2
    <3> QED
      BY <3>1, <3>3
  <2>3. CASE ~(Nodes[i].rule \in known /\ Nodes[i].in \in DOMAIN before)
    BY <1>5, <2>3 DEF Step
  <2> QED
    BY <2>2, <2>3
<1>6. Bad = {}
  <2> SUFFICES ASSUME Bad # {} PROVE FALSE
    OBVIOUS
  <2>1. PICK i \in Bad : \A k \in Bad : i <= k
    <3> Bad \subseteq Nat
      BY <1>2
    <3> HIDE DEF Bad
    <3> QED
      BY LeastNat
  <2>2. i # 0
    BY <1>2, <1>3, <1>4, <2>1
  <2>3. Kept(g[i - 1]) /\ i \in 1 .. Len(Nodes)
    BY <1>2, <2>1, <2>2
  <2>4. Kept(g[i])
    <3>1. g[i] = Step(known, i, g[i - 1])
      BY <1>3, <2>1, <2>2
    <3> HIDE DEF Kept
    <3> QED
      BY <1>5, <2>3, <3>1
  <2> QED
    BY <2>1, <2>4
<1> QED
  BY <1>1, <1>2, <1>6

-----------------------------------------------------------------------------
(* A plan names everything that was fed.                                    *)
LEMMA InferNamesFed ==
  ASSUME NEW f
  PROVE  DOMAIN f \subseteq DOMAIN Infer(f)
<1>1. DOMAIN f \subseteq DOMAIN Seed(f)
  BY DEF Seed, Merge
<1> QED
  BY <1>1, ShapesKept DEF Infer

(* memo_matches_inputs looks at the declared inputs and at what is fed, and *)
(* that is enough: a plan that agrees with a call on those is the plan of   *)
(* the call, for the initializers hide what is fed for them.                *)
LEMMA MemoSound ==
  ASSUME NEW f \in Feeds, NEW h \in Feeds, MemoMatches(Infer(h), f)
  PROVE  Infer(h) = Infer(f)
<1>1. /\ DOMAIN f \subseteq Inputs \cup DOMAIN Weights
      /\ DOMAIN h \subseteq Inputs \cup DOMAIN Weights
  BY FeedsAssumption
<1>2. \A n \in Inputs \cup DOMAIN Weights :
        /\ n \in DOMAIN Infer(h) <=> n \in DOMAIN Seed(h)
        /\ n \in DOMAIN Seed(h) => Infer(h)[n] = Seed(h)[n]
  BY ShapesKept DEF Infer
<1>3. /\ DOMAIN Seed(h) = DOMAIN h \cup DOMAIN Weights
      /\ DOMAIN Seed(f) = DOMAIN f \cup DOMAIN Weights
      /\ \A n \in DOMAIN Seed(h) : Seed(h)[n] = IF n \in DOMAIN Weights THEN Weights[n] ELSE h[n]
      /\ \A n \in DOMAIN Seed(f) : Seed(f)[n] = IF n \in DOMAIN Weights THEN Weights[n] ELSE f[n]
  BY DEF Seed, Merge
<1>4. ASSUME NEW n \in Inputs, n \notin DOMAIN Weights
      PROVE  /\ n \in DOMAIN f <=> n \in DOMAIN h
             /\ n \in DOMAIN f => f[n] = h[n]
  <2>1. Same(f, Infer(h), n)
    BY DEF MemoMatches
  <2> QED
    BY <1>2, <1>3, <1>4, <2>1 DEF Same
<1>5. Seed(f) = Seed(h)
  <2>1. DOMAIN Seed(f) = DOMAIN Seed(h)
    BY <1>1, <1>3, <1>4
  <2>2. \A n \in DOMAIN Seed(f) : Seed(f)[n] = Seed(h)[n]
    BY <1>1, <1>3, <1>4, <2>1
  <2>3. /\ Seed(f) = [n \in DOMAIN Seed(f) |-> Seed(f)[n]]
        /\ Seed(h) = [n \in DOMAIN Seed(h) |-> Seed(h)[n]]
    BY DEF Seed, Merge
  <2> QED
    BY <2>1, <2>2, <2>3
<1> QED
  BY <1>5 DEF Infer

-----------------------------------------------------------------------------
(* The cache: one entry to a key, with its plan, in the order of their use. *)

Entry(f) == [key |-> f, plan |-> Infer(f)]
Unique(es) == \A i, j \in DOMAIN es : es[i].key = es[j].key => i = j

Cached(es, used) ==
  /\ es \in Seq({Entry(f) : f \in Feeds \cup {Declared}})
  /\ Unique(es)
  /\ Len(es) <= MaxPlans
  /\ used = [i \in DOMAIN es |-> es[i].key]

(* What position and remove leave of a list.                                *)
LEMMA WithoutIs ==
  ASSUME NEW S, NEW es \in Seq(S), Unique(es), NEW k
  PROVE  /\ Without(es, k) \in Seq(S)
         /\ k \notin Keys(es) => Without(es, k) = es
         /\ \A p \in DOMAIN es : es[p].key = k =>
              /\ Len(Without(es, k)) = Len(es) - 1
              /\ \A i \in 1 .. Len(es) - 1 :
                   Without(es, k)[i] = IF i < p THEN es[i] ELSE es[i + 1]
<1>1. CASE k \notin Keys(es)
  <2>1. Without(es, k) = es
    BY <1>1 DEF Without, RemoveFirstMatch, Keys
  <2> QED
    BY <1>1, <2>1 DEF Keys
<1>2. ASSUME NEW p \in DOMAIN es, es[p].key = k
      PROVE  /\ Without(es, k) \in Seq(S)
             /\ Len(Without(es, k)) = Len(es) - 1
             /\ \A i \in 1 .. Len(es) - 1 :
                  Without(es, k)[i] = IF i < p THEN es[i] ELSE es[i + 1]
  <2>0. DOMAIN es = 1 .. Len(es) /\ Len(es) \in Nat
    OBVIOUS
  <2>1. {i \in 1 .. Len(es) : es[i].key = k} = {p} /\ p \in 1 .. Len(es) /\ Len(es) \in Nat
    <3>1. \A i \in 1 .. Len(es) : es[i].key = k => i = p
      BY <1>2, <2>0, Zenon DEF Unique
    <3> QED
      BY <1>2, <2>0, <3>1
  <2>2. Min({p}) = p
    BY <2>1 DEF Min
  <2>3. Without(es, k) = SubSeq(es, 1, p - 1) \o SubSeq(es, p + 1, Len(es))
    BY <2>1, <2>2 DEF Without, RemoveFirstMatch, SelectInSeq, RemoveAt
  <2> DEFINE before == SubSeq(es, 1, p - 1)
             after == SubSeq(es, p + 1, Len(es))
  <2>4. /\ before \in Seq(S) /\ Len(before) = p - 1
        /\ \A i \in 1 .. p - 1 : before[i] = es[i]
    BY <2>0, <2>1
  <2>5. /\ after \in Seq(S) /\ Len(after) = Len(es) - p
        /\ \A i \in 1 .. Len(es) - p : after[i] = es[p + i]
    BY <2>0, <2>1
  <2> HIDE DEF before, after
  <2>6. Without(es, k) = before \o after
    BY <2>3 DEF before, after
  <2>7. /\ before \o after \in Seq(S) /\ Len(before \o after) = Len(es) - 1
        /\ \A i \in 1 .. Len(es) - 1 :
             (before \o after)[i] = IF i < p THEN before[i] ELSE after[i - (p - 1)]
    <3>1. before \in Seq(S) /\ after \in Seq(S)
      BY <2>4, <2>5
    <3>2. /\ before \o after \in Seq(S)
          /\ Len(before \o after) = Len(before) + Len(after)
      BY <3>1
    <3>3. \A i \in 1 .. Len(before) + Len(after) :
            (before \o after)[i] = IF i <= Len(before) THEN before[i] ELSE after[i - Len(before)]
      BY <3>1
    <3>4. /\ Len(before) = p - 1 /\ Len(before) + Len(after) = Len(es) - 1
          /\ p \in Int /\ Len(es) \in Int
      BY <2>1, <2>4, <2>5
    <3>5. ASSUME NEW i \in 1 .. Len(es) - 1
          PROVE  (before \o after)[i] = IF i < p THEN before[i] ELSE after[i - (p - 1)]
      <4>1. i \in 1 .. Len(before) + Len(after) /\ (i <= Len(before) <=> i < p)
        BY <3>4
      <4> QED
        BY <3>3, <3>4, <4>1
    <3> QED
      BY <3>2, <3>4, <3>5
  <2>8. \A i \in 1 .. Len(es) - 1 :
          (before \o after)[i] = IF i < p THEN es[i] ELSE es[i + 1]
    <3>1. TAKE i \in 1 .. Len(es) - 1
    <3>2. CASE i < p
      BY <2>1, <2>4, <2>7, <3>2
    <3>3. CASE ~(i < p)
      <4>1. i - (p - 1) \in 1 .. Len(es) - p /\ p + (i - (p - 1)) = i + 1
        BY <2>1, <3>3
      <4>2. after[i - (p - 1)] = es[p + (i - (p - 1))]
        BY <2>5, <4>1
      <4> QED
        BY <2>7, <3>3, <4>1, <4>2
    <3> QED
      BY <3>2, <3>3
  <2> QED
    BY <2>6, <2>7, <2>8
<1> QED
  BY <1>1, <1>2 DEF Keys

LEMMA UptoIs ==
  ASSUME NEW S, NEW es \in Seq(S), NEW m \in Nat
  PROVE  LET n == IF Len(es) < m THEN Len(es) ELSE m
         IN /\ Upto(es, m) \in Seq(S) /\ Len(Upto(es, m)) = n
            /\ \A i \in 1 .. n : Upto(es, m)[i] = es[i]
BY DEF Upto

(* An entry comes first, whatever was kept for its key goes.                *)
InFront(e, k, es) == <<e>> \o Without(es, k)

LEMMA FrontIs ==
  ASSUME NEW S, NEW es \in Seq(S), Unique(es), NEW e \in S, NEW k
  PROVE  /\ InFront(e, k, es) \in Seq(S)
         /\ k \notin Keys(es) =>
              /\ Len(InFront(e, k, es)) = Len(es) + 1
              /\ \A i \in 1 .. Len(es) + 1 :
                   InFront(e, k, es)[i] = IF i = 1 THEN e ELSE es[i - 1]
         /\ \A p \in DOMAIN es : es[p].key = k =>
              /\ Len(InFront(e, k, es)) = Len(es)
              /\ \A i \in 1 .. Len(es) :
                   InFront(e, k, es)[i] = IF i = 1 THEN e ELSE IF i <= p THEN es[i - 1] ELSE es[i]
<1> DEFINE rest == Without(es, k)
           front == <<e>> \o rest
<1>0. DOMAIN es = 1 .. Len(es) /\ Len(es) \in Nat
  OBVIOUS
<1>1. /\ rest \in Seq(S)
      /\ k \notin Keys(es) => rest = es
      /\ \A p \in DOMAIN es : es[p].key = k =>
           /\ Len(rest) = Len(es) - 1
           /\ \A i \in 1 .. Len(es) - 1 : rest[i] = IF i < p THEN es[i] ELSE es[i + 1]
  BY WithoutIs, Zenon
<1> HIDE DEF rest
<1>2. /\ front \in Seq(S) /\ Len(front) = Len(rest) + 1
      /\ \A i \in 1 .. Len(rest) + 1 : front[i] = IF i = 1 THEN e ELSE rest[i - 1]
  BY <1>1
<1> HIDE DEF front
<1>3. ASSUME k \notin Keys(es)
      PROVE  /\ Len(front) = Len(es) + 1
             /\ \A i \in 1 .. Len(es) + 1 : front[i] = IF i = 1 THEN e ELSE es[i - 1]
  BY <1>1, <1>2, <1>3
<1>4. ASSUME NEW p \in DOMAIN es, es[p].key = k
      PROVE  /\ Len(front) = Len(es)
             /\ \A i \in 1 .. Len(es) :
                  front[i] = IF i = 1 THEN e ELSE IF i <= p THEN es[i - 1] ELSE es[i]
  <2>1. /\ Len(rest) = Len(es) - 1
        /\ \A i \in 1 .. Len(es) - 1 : rest[i] = IF i < p THEN es[i] ELSE es[i + 1]
    BY <1>1, <1>4
  <2>2. ASSUME NEW i \in 2 .. Len(es)
        PROVE  rest[i - 1] = IF i <= p THEN es[i - 1] ELSE es[i]
    <3>1. i - 1 \in 1 .. Len(es) - 1 /\ (i - 1) + 1 = i /\ (i - 1 < p <=> i <= p)
      BY <1>0
    <3>2. rest[i - 1] = IF i - 1 < p THEN es[i - 1] ELSE es[(i - 1) + 1]
      BY <2>1, <3>1
    <3> QED
      BY <3>1, <3>2
  <2>3. Len(front) = Len(es)
    BY <1>0, <1>2, <2>1
  <2>4. ASSUME NEW i \in 1 .. Len(es)
        PROVE  front[i] = IF i = 1 THEN e ELSE IF i <= p THEN es[i - 1] ELSE es[i]
    <3>1. i = 1 \/ i \in 2 .. Len(es)
      BY <1>0
    <3>2. front[i] = IF i = 1 THEN e ELSE rest[i - 1]
      BY <1>0, <1>2, <2>1
    <3> QED
      BY <2>2, <3>1, <3>2
  <2> QED
    BY <2>3, <2>4
<1> QED
  BY <1>2, <1>3, <1>4 DEF front, rest, InFront

(* What the history makes of a key, seen from the list.                     *)
LEMMA UsedIs ==
  ASSUME NEW k, Cached(entries, recency)
  PROVE  /\ k \notin Keys(entries) =>
              Used(k) = [i \in 1 .. (IF Len(entries) < MaxPlans THEN Len(entries) + 1
                                                             ELSE Len(entries)) |->
                          IF i = 1 THEN k ELSE entries[i - 1].key]
         /\ \A p \in DOMAIN entries : entries[p].key = k =>
              Used(k) = [i \in 1 .. Len(entries) |->
                          IF i = 1 THEN k ELSE IF i <= p THEN entries[i - 1].key
                                                        ELSE entries[i].key]
<1> DEFINE n == Len(recency)
<1>n. n = Len(entries) /\ recency = [i \in 1 .. Len(entries) |-> entries[i].key]
  <2>1. DOMAIN entries = 1 .. Len(entries) /\ Len(entries) \in Nat
    BY DEF Cached
  <2>2. recency = [i \in 1 .. Len(entries) |-> entries[i].key]
    BY <2>1 DEF Cached
  <2> QED
    BY <2>1, <2>2
<1> HIDE DEF n
<1>0. DOMAIN entries = 1 .. n /\ n \in Nat /\ n <= MaxPlans /\ MaxPlans \in Nat \ {0}
  BY <1>n, MaxPlansAssumption DEF Cached
<1>1. recency = [i \in 1 .. n |-> entries[i].key]
  BY <1>n
<1>2. ASSUME k \notin Keys(entries)
      PROVE  Used(k) = [i \in 1 .. (IF n < MaxPlans THEN n + 1 ELSE n) |->
                         IF i = 1 THEN k ELSE entries[i - 1].key]
  <2>1. k \notin Range(recency)
    BY <1>0, <1>1, <1>2 DEF Range, Keys
  <2>2. Used(k) = [i \in 1 .. (IF n < n + 1 /\ n + 1 <= MaxPlans THEN n + 1 ELSE n) |->
                     IF i = 1 THEN k ELSE IF i <= n + 1 THEN recency[i - 1] ELSE recency[i]]
    <3> DEFINE place == IF k \in Range(recency) THEN CHOOSE i \in 1 .. n : recency[i] = k ELSE n + 1
    <3>1. Used(k) = [i \in 1 .. (IF n < place /\ place <= MaxPlans THEN place ELSE n) |->
                       IF i = 1 THEN k ELSE IF i <= place THEN recency[i - 1] ELSE recency[i]]
      BY DEF Used, n
    <3>2. place = n + 1
      BY <2>1
    <3> HIDE DEF place
    <3> QED
      BY <3>1, <3>2
  <2>3. (IF n < n + 1 /\ n + 1 <= MaxPlans THEN n + 1 ELSE n) = IF n < MaxPlans THEN n + 1 ELSE n
    BY <1>0
  <2>4. ASSUME NEW i \in 1 .. (IF n < MaxPlans THEN n + 1 ELSE n)
        PROVE  (IF i = 1 THEN k ELSE IF i <= n + 1 THEN recency[i - 1] ELSE recency[i])
                 = IF i = 1 THEN k ELSE entries[i - 1].key
    BY <1>0, <1>1
  <2> QED
    BY <1>2, <2>2, <2>3, <2>4
<1>3. ASSUME NEW p \in DOMAIN entries, entries[p].key = k
      PROVE  Used(k) = [i \in 1 .. n |-> IF i = 1 THEN k ELSE IF i <= p THEN entries[i - 1].key
                                                           ELSE entries[i].key]
  <2>1. k \in Range(recency)
    BY <1>0, <1>1, <1>3 DEF Range
  <2>2. (CHOOSE i \in 1 .. n : recency[i] = k) = p
    BY <1>0, <1>1, <1>3 DEF Cached, Unique
  <2>3. Used(k) = [i \in 1 .. (IF n < p /\ p <= MaxPlans THEN p ELSE n) |->
                     IF i = 1 THEN k ELSE IF i <= p THEN recency[i - 1] ELSE recency[i]]
    <3> DEFINE place == IF k \in Range(recency) THEN CHOOSE i \in 1 .. n : recency[i] = k ELSE n + 1
    <3>1. Used(k) = [i \in 1 .. (IF n < place /\ place <= MaxPlans THEN place ELSE n) |->
                       IF i = 1 THEN k ELSE IF i <= place THEN recency[i - 1] ELSE recency[i]]
      BY DEF Used, n
    <3>2. place = p
      BY <2>1, <2>2
    <3> HIDE DEF place
    <3> QED
      BY <3>1, <3>2
  <2>4. ASSUME NEW i \in 1 .. n
        PROVE  (IF i = 1 THEN k ELSE IF i <= p THEN recency[i - 1] ELSE recency[i])
                 = IF i = 1 THEN k ELSE IF i <= p THEN entries[i - 1].key ELSE entries[i].key
    BY <1>0, <1>1
  <2>5. (IF n < p /\ p <= MaxPlans THEN p ELSE n) = n
    BY <1>0
  <2> QED
    BY <2>3, <2>4, <2>5
<1> QED
  BY <1>n, <1>2, <1>3

(* A list with the entry of k in front, and the others behind it as they    *)
(* were, is what the history says, for a key that was there or not.         *)
LEMMA PromotedCached ==
  ASSUME Cached(entries, recency), NEW p \in DOMAIN entries,
         NEW l \in Seq({Entry(f) : f \in Feeds \cup {Declared}}), Len(l) = Len(entries),
         \A i \in 1 .. Len(entries) :
           l[i] = IF i = 1 THEN entries[p] ELSE IF i <= p THEN entries[i - 1] ELSE entries[i]
  PROVE  Cached(l, Used(entries[p].key))
<1> DEFINE n == Len(entries)
           k == entries[p].key
<1>1. DOMAIN entries = 1 .. n /\ DOMAIN l = 1 .. n /\ n \in Nat /\ n <= MaxPlans /\ p \in 1 .. n
  BY DEF Cached
<1>2. Used(k) = [i \in 1 .. n |-> IF i = 1 THEN k ELSE IF i <= p THEN entries[i - 1].key
                                                            ELSE entries[i].key]
  BY UsedIs
<1>3. \A i \in 1 .. n : l[i].key = IF i = 1 THEN k ELSE IF i <= p THEN entries[i - 1].key
                                                               ELSE entries[i].key
  OBVIOUS
<1> DEFINE from == [i \in 1 .. n |-> IF i = 1 THEN p ELSE IF i <= p THEN i - 1 ELSE i]
<1>4. /\ \A i \in 1 .. n : from[i] \in 1 .. n /\ l[i] = entries[from[i]]
      /\ \A i, j \in 1 .. n : from[i] = from[j] => i = j
  BY <1>1
<1> HIDE DEF from, n
<1>5. Unique(l)
  <2> SUFFICES ASSUME NEW i \in 1 .. n, NEW j \in 1 .. n, l[i].key = l[j].key PROVE i = j
    BY <1>1 DEF Unique
  <2>1. entries[from[i]].key = entries[from[j]].key /\ from[i] \in 1 .. n /\ from[j] \in 1 .. n
    BY <1>4
  <2>2. from[i] = from[j]
    BY <1>1, <2>1 DEF Cached, Unique
  <2> QED
    BY <1>4, <2>2
<1>6. Used(k) = [i \in DOMAIN l |-> l[i].key]
  BY <1>1, <1>2, <1>3 DEF n
<1> QED
  BY <1>1, <1>5, <1>6 DEF Cached, n

LEMMA AddedCached ==
  ASSUME Cached(entries, recency), NEW k \in Feeds, k \notin Keys(entries),
         NEW l \in Seq({Entry(f) : f \in Feeds \cup {Declared}}),
         Len(l) = IF Len(entries) < MaxPlans THEN Len(entries) + 1 ELSE Len(entries),
         \A i \in 1 .. Len(l) : l[i] = IF i = 1 THEN Entry(k) ELSE entries[i - 1]
  PROVE  Cached(l, Used(k))
<1> DEFINE n == Len(entries)
<1>1. /\ DOMAIN entries = 1 .. n /\ n \in Nat /\ n <= MaxPlans /\ MaxPlans \in Nat
      /\ DOMAIN l = 1 .. Len(l) /\ Len(l) \in Nat /\ Len(l) <= MaxPlans /\ Len(l) <= n + 1
  BY MaxPlansAssumption DEF Cached
<1>2. Used(k) = [i \in 1 .. Len(l) |-> IF i = 1 THEN k ELSE entries[i - 1].key]
  BY UsedIs
<1>3. \A i \in 1 .. Len(l) : l[i].key = IF i = 1 THEN k ELSE entries[i - 1].key
  BY DEF Entry
<1> HIDE DEF n
<1>4. Unique(l)
  <2> SUFFICES ASSUME NEW i \in 1 .. Len(l), NEW j \in 1 .. Len(l), l[i].key = l[j].key PROVE i = j
    BY <1>1 DEF Unique
  <2>1. \A m \in 1 .. n : entries[m].key # k
    BY <1>1 DEF Keys
  <2>2. \A m \in 2 .. Len(l) : m - 1 \in 1 .. n
    BY <1>1
  <2>3. (i = 1 \/ i \in 2 .. Len(l)) /\ (j = 1 \/ j \in 2 .. Len(l))
    BY <1>1
  <2>4. CASE i \in 2 .. Len(l) /\ j \in 2 .. Len(l)
    <3>0. i - 1 \in DOMAIN entries /\ j - 1 \in DOMAIN entries /\ i # 1 /\ j # 1
      BY <1>1, <2>2, <2>4
    <3>1. entries[i - 1].key = entries[j - 1].key
      BY <1>3, <3>0
    <3>2. i - 1 = j - 1
      BY <3>0, <3>1 DEF Cached, Unique
    <3> QED
      BY <2>4, <3>2
  <2> QED
    BY <1>3, <2>1, <2>2, <2>3, <2>4
<1>5. Used(k) = [i \in DOMAIN l |-> l[i].key]
  BY <1>1, <1>2, <1>3
<1> QED
  BY <1>1, <1>4, <1>5 DEF Cached

(* A look-up and a store keep the cache.                                    *)
LEMMA CacheKept ==
  ASSUME Cached(entries, recency), NEW k \in Feeds
  PROVE  /\ k \in Keys(entries) => Cached(Promoted(k), Used(k))
         /\ Cached(Stored(k, Infer(k)), Used(k))
<1> DEFINE S == {Entry(f) : f \in Feeds \cup {Declared}}
           front == InFront(Entry(k), k, entries)
<1>1. /\ entries \in Seq(S) /\ Unique(entries) /\ Entry(k) \in S /\ Entry(k).key = k
      /\ DOMAIN entries = 1 .. Len(entries) /\ Len(entries) \in Nat /\ Len(entries) <= MaxPlans
      /\ MaxPlans \in Nat \ {0}
  BY MaxPlansAssumption DEF Cached, Entry
<1>2. \A e \in S : e.key = k => e = Entry(k)
  BY DEF Entry
<1> HIDE DEF S
<1>3. /\ front \in Seq(S)
      /\ k \notin Keys(entries) =>
           /\ Len(front) = Len(entries) + 1
           /\ \A i \in 1 .. Len(entries) + 1 : front[i] = IF i = 1 THEN Entry(k) ELSE entries[i - 1]
      /\ \A p \in DOMAIN entries : entries[p].key = k =>
           /\ Len(front) = Len(entries)
           /\ \A i \in 1 .. Len(entries) :
                front[i] = IF i = 1 THEN Entry(k) ELSE IF i <= p THEN entries[i - 1] ELSE entries[i]
  <2> DEFINE e == Entry(k)
  <2>1. e \in S /\ entries \in Seq(S) /\ Unique(entries)
    BY <1>1
  <2> HIDE DEF e
  <2>2. /\ InFront(e, k, entries) \in Seq(S)
        /\ k \notin Keys(entries) =>
             /\ Len(InFront(e, k, entries)) = Len(entries) + 1
             /\ \A i \in 1 .. Len(entries) + 1 :
                  InFront(e, k, entries)[i] = IF i = 1 THEN e ELSE entries[i - 1]
        /\ \A p \in DOMAIN entries : entries[p].key = k =>
             /\ Len(InFront(e, k, entries)) = Len(entries)
             /\ \A i \in 1 .. Len(entries) :
                  InFront(e, k, entries)[i] =
                    IF i = 1 THEN e ELSE IF i <= p THEN entries[i - 1] ELSE entries[i]
    BY <2>1, FrontIs
  <2> QED
    BY <2>2 DEF e
<1>4. /\ Upto(front, MaxPlans) \in Seq(S)
      /\ Len(Upto(front, MaxPlans)) = IF Len(front) < MaxPlans THEN Len(front) ELSE MaxPlans
      /\ \A i \in 1 .. (IF Len(front) < MaxPlans THEN Len(front) ELSE MaxPlans) :
           Upto(front, MaxPlans)[i] = front[i]
  <2>1. front \in Seq(S) /\ MaxPlans \in Nat
    BY <1>1, <1>3
  <2> HIDE DEF front
  <2> QED
    BY <2>1, UptoIs
<1>5. Stored(k, Infer(k)) = Upto(front, MaxPlans)
  BY DEF Stored, Entry, InFront
<1> HIDE DEF front
<1>6. CASE k \notin Keys(entries)
  <2> DEFINE l == Upto(front, MaxPlans)
  <2> HIDE DEF l
  <2>0. /\ Len(front) = Len(entries) + 1
        /\ \A i \in 1 .. Len(entries) + 1 : front[i] = IF i = 1 THEN Entry(k) ELSE entries[i - 1]
    BY <1>3, <1>6
  <2>1. /\ l \in Seq(S)
        /\ Len(l) = IF Len(entries) < MaxPlans THEN Len(entries) + 1 ELSE Len(entries)
        /\ \A i \in 1 .. Len(l) : l[i] = IF i = 1 THEN Entry(k) ELSE entries[i - 1]
    <3>1. /\ l \in Seq(S)
          /\ Len(l) = IF Len(front) < MaxPlans THEN Len(front) ELSE MaxPlans
          /\ \A i \in 1 .. Len(l) : l[i] = front[i]
      BY <1>4 DEF l
    <3>2. Len(l) = IF Len(entries) < MaxPlans THEN Len(entries) + 1 ELSE Len(entries)
      BY <1>1, <2>0, <3>1
    <3>3. Len(l) <= Len(entries) + 1 /\ Len(l) \in Nat
      BY <1>1, <3>2
    <3>4. 1 .. Len(l) \subseteq 1 .. Len(entries) + 1
      BY <1>1, <3>3
    <3> QED
      BY <2>0, <3>1, <3>2, <3>4
  <2>2. Cached(l, Used(k))
    BY <1>6, <2>1, AddedCached DEF S
  <2> QED
    BY <1>5, <1>6, <2>2 DEF l
<1>7. CASE k \in Keys(entries)
  <2>1. PICK p \in DOMAIN entries : entries[p].key = k
    BY <1>7 DEF Keys
  <2>2. entries[p] = Entry(k)
    BY <1>1, <1>2, <2>1
  <2>3. /\ Len(front) = Len(entries)
        /\ \A i \in 1 .. Len(entries) :
             front[i] = IF i = 1 THEN entries[p] ELSE IF i <= p THEN entries[i - 1] ELSE entries[i]
    BY <1>3, <2>1, <2>2
  <2>4. Cached(front, Used(k))
    BY <1>3, <2>1, <2>3, PromotedCached DEF S
  <2>5. Upto(front, MaxPlans) = front
    <3>1. Len(Upto(front, MaxPlans)) = Len(front) /\ Len(front) \in Nat
      BY <1>1, <1>4, <2>3
    <3>2. \A i \in 1 .. Len(front) : Upto(front, MaxPlans)[i] = front[i]
      BY <1>1, <1>4, <2>3
    <3> QED
      BY <1>3, <1>4, <3>1, <3>2, SeqEqual
  <2>6. Promoted(k) = front
    <3>1. (CHOOSE e \in {entries[i] : i \in DOMAIN entries} : e.key = k) = Entry(k)
      <4>1. \A e \in {entries[i] : i \in DOMAIN entries} : e \in S
        BY <1>1
      <4>2. \E e \in {entries[i] : i \in DOMAIN entries} : e.key = k
        BY <2>1
      <4> QED
        BY <1>2, <4>1, <4>2
    <3> QED
      BY <3>1 DEF Promoted, front, InFront
  <2> QED
    BY <1>5, <2>4, <2>5, <2>6
<1> QED
  BY <1>6, <1>7

(* What a look-up hands out.                                                *)
LEMMA LookupRight ==
  ASSUME Cached(entries, recency), NEW k \in Keys(entries)
  PROVE  (CHOOSE e \in {entries[i] : i \in DOMAIN entries} : e.key = k).plan = Infer(k)
<1>1. \A i \in DOMAIN entries : entries[i].plan = Infer(entries[i].key)
  BY DEF Cached, Entry
<1>2. \E e \in {entries[i] : i \in DOMAIN entries} : e.key = k
  BY DEF Keys
<1> QED
  BY <1>1, <1>2

-----------------------------------------------------------------------------
(* The inductive invariant.                                                 *)

Planned == {"refresh", "keep", "store", "memoize", "run"}

(* A call is under way with inputs it may come with, and once it has a plan *)
(* it is the plan of those.                                                 *)
CallOf(c) ==
  /\ pc[c] # "idle" => feed[c] \in Feeds
  /\ plan[c] = IF pc[c] \in Planned THEN Infer(feed[c]) ELSE Empty

CallsOK ==
  /\ pc \in [Caller -> States]
  /\ feed \in [Caller -> Feeds \cup {Empty}]
  /\ DOMAIN plan = Caller /\ plan = [c \in Caller |-> plan[c]]
  /\ \A c \in Caller : CallOf(c)

(* The memo is the plan of some call there was.                             *)
MemoOK == memo = Empty \/ \E h \in Feeds : memo = Infer(h)

DimsOK == dims # Empty => dims \in {Resolved(f) : f \in {h \in Feeds : Valid(h)}}

BindingOK ==
  /\ DOMAIN binding = Outputs
  /\ \A n \in Outputs : binding[n] = [shape |-> binding[n].shape, val |-> binding[n].val]
  /\ BindingAnswers

IInv == CallsOK /\ MemoOK /\ DimsOK /\ Cached(entries, recency) /\ BindingOK

-----------------------------------------------------------------------------
LEMMA InitInv == Init => IInv
<1> SUFFICES ASSUME Init PROVE IInv
  OBVIOUS
<1>1. CallsOK
  BY DEF Init, CallsOK, CallOf, States, Planned
<1>2. MemoOK /\ DimsOK
  BY DEF Init, MemoOK, DimsOK
<1>3. Cached(entries, recency)
  <2> DEFINE S == {Entry(f) : f \in Feeds \cup {Declared}}
  <2>1. entries = <<>> \/ entries = <<Entry(Declared)>>
    BY DEF Init, Entry
  <2>2. entries \in Seq(S)
    <3>1. Entry(Declared) \in S
      OBVIOUS
    <3> HIDE DEF S
    <3> DEFINE e == Entry(Declared)
    <3> HIDE DEF e
    <3>2. <<>> \in Seq(S)
      OBVIOUS
    <3>3. <<e>> \in Seq(S)
      BY <3>1 DEF e
    <3> QED
      BY <2>1, <3>2, <3>3 DEF e
  <2>3. Unique(entries) /\ Len(entries) <= MaxPlans
    BY <2>1, MaxPlansAssumption DEF Unique
  <2> QED
    BY <2>2, <2>3 DEF Init, Cached
<1>4. BindingOK
  BY DEF Init, BindingOK, BindingAnswers, NoBuffer
<1> QED
  BY <1>1, <1>2, <1>3, <1>4 DEF IInv

LEMMA CallsReturned ==
  ASSUME CallsOK, NEW c \in Caller, Return(c)
  PROVE  CallsOK'
BY DEF CallsOK, CallOf, Return, Goto, States, Planned

(* What a buffer has received is the tensor.                                *)
LEMMA ReceiveIs ==
  ASSUME NEW buf, NEW tensor, buf = [shape |-> buf.shape, val |-> buf.val],
         tensor = [shape |-> tensor.shape, val |-> tensor.val]
  PROVE  Receive(buf, tensor) = tensor
BY DEF Receive

LEMMA AnswerBinds ==
  ASSUME IInv, NEW c \in Caller, Answer(c)
  PROVE  BindingOK'
<1>1. CASE c # Binder
  BY <1>1 DEF Answer, IInv, BindingOK, BindingAnswers
<1>2. CASE c = Binder
  <2>1. \A n \in Outputs : Receive(binding[n], Tensor(c, n)) = Tensor(c, n)
    <3>1. TAKE n \in Outputs
    <3>2. binding[n] = [shape |-> binding[n].shape, val |-> binding[n].val]
      BY DEF IInv, BindingOK
    <3>3. Tensor(c, n) = [shape |-> Tensor(c, n).shape, val |-> Tensor(c, n).val]
      BY DEF Tensor
    <3> QED
      BY <3>2, <3>3, ReceiveIs
  <2>2. binding' = [n \in Outputs |-> [shape |-> Actual(feed[c])[n], val |-> feed[c]]]
    BY <1>2, <2>1 DEF Answer, Tensor
  <2> QED
    BY <2>2 DEF BindingOK, BindingAnswers
<1> QED
  BY <1>1, <1>2

LEMMA NextInv ==
  ASSUME IInv, [Next]_vars
  PROVE  IInv'
<1>1. CASE BindOutput
  <2>1. PICK n \in Outputs, s \in Buffers :
          binding' = [binding EXCEPT ![n] = [shape |-> s, val |-> Empty]]
    BY <1>1 DEF BindOutput
  <2>2. BindingOK'
    BY <2>1 DEF IInv, BindingOK, BindingAnswers
  <2>3. UNCHANGED <<pc, feed, plan, entries, memo, dims, recency>>
    BY <1>1 DEF BindOutput
  <2> QED
    BY <2>2, <2>3 DEF IInv, CallsOK, CallOf, MemoOK, DimsOK, Cached
<1>2. ASSUME NEW c \in Caller, Call(c)
      PROVE  IInv'
  <2>1. CallsOK'
    BY <1>2 DEF IInv, CallsOK, CallOf, Call, Goto, States, Planned
  <2> QED
    BY <1>2, <2>1 DEF IInv, Call, MemoOK, DimsOK, Cached, BindingOK, BindingAnswers
<1>3. ASSUME NEW c \in Caller, Reject(c) \/ RunError(c)
      PROVE  IInv'
  <2>1. CallsOK'
    BY <1>3, CallsReturned DEF IInv, Reject, RunError
  <2> QED
    BY <1>3, <2>1 DEF IInv, Reject, RunError, MemoOK, DimsOK, Cached, BindingOK, BindingAnswers
<1>4. ASSUME NEW c \in Caller, Answer(c)
      PROVE  IInv'
  <2>1. CallsOK'
    BY <1>4, CallsReturned DEF IInv, Answer
  <2>2. BindingOK'
    BY <1>4, AnswerBinds
  <2> QED
    BY <1>4, <2>1, <2>2 DEF IInv, Answer, MemoOK, DimsOK, Cached
<1>5. ASSUME NEW c \in Caller, Accept(c)
      PROVE  IInv'
  <2>1. CallsOK'
    BY <1>5 DEF IInv, CallsOK, CallOf, Accept, Goto, States, Planned
  <2>2. DimsOK'
    BY <1>5 DEF IInv, CallsOK, CallOf, Accept, DimsOK
  <2> QED
    BY <1>5, <2>1, <2>2 DEF IInv, Accept, MemoOK, Cached, BindingOK, BindingAnswers
<1>6. ASSUME NEW c \in Caller, LookupMiss(c)
      PROVE  IInv'
  <2>1. CallsOK'
    BY <1>6 DEF IInv, CallsOK, CallOf, LookupMiss, Goto, States, Planned
  <2> QED
    BY <1>6, <2>1 DEF IInv, LookupMiss, MemoOK, DimsOK, Cached, BindingOK, BindingAnswers
<1>7. ASSUME NEW c \in Caller, LookupHit(c)
      PROVE  IInv'
  <2>1. feed[c] \in Feeds
    BY <1>7 DEF IInv, CallsOK, CallOf, LookupHit
  <2>2. plan' = [plan EXCEPT ![c] = Infer(feed[c])]
    BY <1>7, LookupRight DEF IInv, LookupHit
  <2>3. CallsOK'
    BY <1>7, <2>1, <2>2 DEF IInv, CallsOK, CallOf, LookupHit, Goto, States, Planned
  <2>4. Cached(entries, recency)'
    BY <1>7, <2>1, CacheKept DEF IInv, LookupHit
  <2> QED
    BY <1>7, <2>3, <2>4 DEF IInv, LookupHit, MemoOK, DimsOK, BindingOK, BindingAnswers
<1>8. ASSUME NEW c \in Caller, Refresh(c)
      PROVE  IInv'
  <2>1. CallsOK'
    BY <1>8 DEF IInv, CallsOK, CallOf, Refresh, Goto, States, Planned
  <2>2. MemoOK'
    BY <1>8 DEF IInv, CallsOK, CallOf, Refresh, MemoOK, Planned
  <2> QED
    BY <1>8, <2>1, <2>2 DEF IInv, Refresh, DimsOK, Cached, BindingOK, BindingAnswers
<1>9. ASSUME NEW c \in Caller, MemoHit(c)
      PROVE  IInv'
  <2>1. feed[c] \in Feeds
    BY <1>9 DEF IInv, CallsOK, CallOf, MemoHit
  <2>2. PICK h \in Feeds : memo = Infer(h)
    BY <1>9 DEF IInv, MemoOK, MemoHit, MemoMatches
  <2>3. memo = Infer(feed[c])
    BY <1>9, <2>1, <2>2, MemoSound DEF MemoHit
  <2>4. CallsOK'
    BY <1>9, <2>1, <2>3 DEF IInv, CallsOK, CallOf, MemoHit, Goto, States, Planned
  <2> QED
    BY <1>9, <2>4 DEF IInv, MemoHit, MemoOK, DimsOK, Cached, BindingOK, BindingAnswers
<1>10. ASSUME NEW c \in Caller, MemoMiss(c)
       PROVE  IInv'
  <2>1. CallsOK'
    BY <1>10 DEF IInv, CallsOK, CallOf, MemoMiss, Goto, States, Planned
  <2> QED
    BY <1>10, <2>1 DEF IInv, MemoMiss, MemoOK, DimsOK, Cached, BindingOK, BindingAnswers
<1>11. ASSUME NEW c \in Caller, Store(c)
       PROVE  IInv'
  <2>1. feed[c] \in Feeds /\ plan[c] = Infer(feed[c])
    BY <1>11 DEF IInv, CallsOK, CallOf, Store, Planned
  <2>2. CallsOK'
    BY <1>11 DEF IInv, CallsOK, CallOf, Store, Goto, States, Planned
  <2>3. Cached(entries, recency)'
    BY <1>11, <2>1, CacheKept DEF IInv, Store
  <2> QED
    BY <1>11, <2>2, <2>3 DEF IInv, Store, MemoOK, DimsOK, BindingOK, BindingAnswers
<1>12. ASSUME NEW c \in Caller, Memoize(c)
       PROVE  IInv'
  <2>1. CallsOK'
    BY <1>12 DEF IInv, CallsOK, CallOf, Memoize, Goto, States, Planned
  <2>2. MemoOK'
    BY <1>12 DEF IInv, CallsOK, CallOf, Memoize, MemoOK, Planned
  <2> QED
    BY <1>12, <2>1, <2>2 DEF IInv, Memoize, DimsOK, Cached, BindingOK, BindingAnswers
<1>13. CASE UNCHANGED vars
  BY <1>13 DEF vars, IInv, CallsOK, CallOf, MemoOK, DimsOK, Cached, BindingOK, BindingAnswers
<1> QED
  BY <1>1, <1>2, <1>3, <1>4, <1>5, <1>6, <1>7, <1>8, <1>9, <1>10, <1>11, <1>12, <1>13 DEF Next

LEMMA Invariance == Spec => []IInv
<1>1. Init => IInv
  BY InitInv
<1>2. IInv /\ [Next]_vars => IInv'
  BY NextInv
<1> QED
  BY <1>1, <1>2, PTL DEF Spec

(* Every variable holds a value of its kind; a plan names a shape for every *)
(* input it was made from, in a run, in the memo and in the cache.          *)
THEOREM TypeCorrect == Spec => []TypeOK
<1>1. ASSUME IInv PROVE TypeOK
  <2>1. \A c \in Caller : plan[c] # Empty => DOMAIN feed[c] \subseteq DOMAIN plan[c]
    BY <1>1, InferNamesFed DEF IInv, CallsOK, CallOf
  <2>2. \A i \in DOMAIN entries : DOMAIN entries[i].key \subseteq DOMAIN entries[i].plan
    <3>1. \A i \in DOMAIN entries : entries[i].plan = Infer(entries[i].key)
      BY <1>1 DEF IInv, Cached, Entry
    <3> QED
      BY <3>1, InferNamesFed
  <2>3. Len(recency) <= MaxPlans
    <3>1. DOMAIN entries = 1 .. Len(entries) /\ Len(entries) \in Nat
      BY <1>1 DEF IInv, Cached
    <3>2. recency = [i \in 1 .. Len(entries) |-> entries[i].key]
      BY <1>1, <3>1 DEF IInv, Cached
    <3> QED
      BY <1>1, <3>1, <3>2 DEF IInv, Cached
  <2> QED
    BY <1>1, <2>1, <2>2, <2>3 DEF IInv, CallsOK, DimsOK, BindingOK, TypeOK
<1> QED
  BY <1>1, Invariance, PTL

(* No run ever goes by the shapes of another run's inputs, wherever its     *)
(* plan came from and whatever the other callers did meanwhile.             *)
THEOREM PlanOfItsInputsCorrect == Spec => []PlanOfItsInputs
<1>1. IInv => PlanOfItsInputs
  BY DEF IInv, CallsOK, CallOf, Planned, PlanOfItsInputs
<1> QED
  BY <1>1, Invariance, PTL

(* The cache never answers with another key's plan, never holds two entries *)
(* for a key, and forgets the key used longest ago, for every capacity.     *)
THEOREM CacheExactCorrect == Spec => []CacheExact
<1>1. IInv => CacheExact
  BY DEF IInv, Cached, Entry, CacheExact
<1> QED
  BY <1>1, Invariance, PTL

(* Bound buffers hold the outputs of one run, in its shapes.                *)
THEOREM BindingAnswersCorrect == Spec => []BindingAnswers
<1>1. IInv => BindingAnswers
  BY DEF IInv, BindingOK
<1> QED
  BY <1>1, Invariance, PTL
=============================================================================
