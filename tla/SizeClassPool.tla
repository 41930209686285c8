--------------------------- MODULE SizeClassPool ---------------------------
(***************************************************************************)
(* SizeClassPool, the cache of f32 buffers a session keeps behind a mutex: *)
(* free lists by size class, each sorted by capacity.  Sizes are counted   *)
(* in elements.  A cached buffer is its capacity, as nothing reads the     *)
(* length of one; acquire and acquire_for_overwrite differ in the contents *)
(* only, which are not modelled, and neither are the two event counters.   *)
(***************************************************************************)
EXTENDS Integers, SequencesExt

CONSTANTS Bound,        \* exclusive upper bounds of all size classes but the last
          MaxPerClass,  \* MAX_BUCKETS_PER_CLASS
          Size,         \* sizes requested
          Foreign,      \* buffers released that no acquire handed out
          MaxLent       \* bound: buffers out at a time

ASSUME BoundAssumption ==
  Bound \in Seq(Nat \ {0}) /\ \A k, l \in DOMAIN Bound : k < l => Bound[k] < Bound[l]
ASSUME MaxPerClassAssumption == MaxPerClass \in Nat \ {0}
ASSUME SizeAssumption ==
  Size \subseteq Nat /\ Foreign \subseteq {b \in [cap : Nat, len : Nat] : b.len <= b.cap}

VARIABLES bucket,      \* bucket[c]: capacities on the free list of class c
          current,     \* PoolStats.current_bytes
          peak,        \* PoolStats.peak_bytes
          fragmented,  \* PoolStats.fragmentation_ratio > 0.20
          lent         \* bag of the buffers acquired and not released or dropped

vars == <<bucket, current, peak, fragmented, lent>>

Class == 1 .. Len(Bound) + 1
Buf == [cap : Nat, len : Nat]

(* bucket_for, and the smallest size of a class.                            *)
ClassOf(size) == 1 + Cardinality({k \in DOMAIN Bound : Bound[k] <= size})
ClassMin(c) == IF c = 1 THEN 1 ELSE Bound[c - 1]

Minus(a, b) == IF a >= b THEN a - b ELSE 0   \* saturating_sub

(* What the buffers on the free lists b hold together.                      *)
Held(b) == SumFunction([c \in Class |-> SumFunction(b[c])])

TypeOK ==
  /\ bucket \in [Class -> Seq(Nat \ {0})]
  /\ \A c \in Class : Len(bucket[c]) <= MaxPerClass
  /\ current \in Nat
  /\ peak \in Nat
  /\ fragmented \in BOOLEAN
  /\ IsABag(lent) /\ BagToSet(lent) \subseteq Buf

Init ==
  /\ bucket = [c \in Class |-> <<>>]
  /\ current = 0
  /\ peak = 0
  /\ fragmented = FALSE
  /\ lent = EmptyBag

(* partition_point of a sorted free list.                                   *)
Below(b, cap) == Cardinality({k \in DOMAIN b : b[k] < cap})

(* Variant: the first buffer that is larger.                                *)
FitAtLarger(b, size) == Cardinality({k \in DOMAIN b : b[k] <= size}) + 1

(* best_fit_index.                                                          *)
FitAt(b, size) == Below(b, size) + 1

(* The classes, its own or larger, whose free list has a buffer for size.   *)
Fitting(size) == {c \in ClassOf(size) .. Len(Bound) + 1 : FitAt(bucket[c], size) <= Len(bucket[c])}

Reuse(size) ==
  /\ Fitting(size) # {}
  /\ LET c == Min(Fitting(size))
         at == FitAt(bucket[c], size)
     IN /\ bucket' = [bucket EXCEPT ![c] = RemoveAt(@, at)]
        /\ current' = Minus(current, bucket[c][at])
        /\ lent' = lent (+) SetToBag({[cap |-> bucket[c][at], len |-> size]})
  /\ UNCHANGED <<peak, fragmented>>

Allocate(size) ==
  /\ Fitting(size) = {}
  /\ lent' = lent (+) SetToBag({[cap |-> size, len |-> size]})
  /\ peak' = Max({peak, current + size})
  /\ UNCHANGED <<bucket, current, fragmented>>

(* update_fragmentation, as compact reads it: a fifth is wasted.            *)
Fragmented(b) ==
  LET wasted(c) == SumFunction([k \in DOMAIN b[c] |-> Minus(b[c][k], ClassMin(c))])
  IN 5 * SumFunction([c \in Class |-> wasted(c)]) > Held(b)

(* Variant: the newly released buffer is the most recent, hence the last.   *)
InsertLast(b, cap) == Append(b, cap)

Insert(b, cap) == InsertAt(b, Below(b, cap) + 1, cap)

(* Variants: nothing is evicted; the evicted bytes stay counted.            *)
MadeRoomNone(b) == b
EvictedNone(b) == 0

(* A full free list gives up its first buffer.                              *)
MadeRoom(b) == IF Len(b) < MaxPerClass THEN b ELSE Tail(b)
Evicted(b) == IF Len(b) < MaxPerClass THEN 0 ELSE Head(b)

(* release: a buffer goes to the class of its length, unless that list is   *)
(* full of buffers at least as large.                                       *)
Refused(buf) ==
  LET b == bucket[ClassOf(buf.len)]
  IN buf.cap = 0 \/ (Len(b) >= MaxPerClass /\ buf.cap <= Head(b))

Release(buf) ==
  \/ Refused(buf) /\ UNCHANGED <<bucket, current, peak, fragmented>>
  \/ /\ ~Refused(buf)
     /\ LET c == ClassOf(buf.len)
        IN /\ bucket' = [bucket EXCEPT ![c] = Insert(MadeRoom(@), buf.cap)]
           /\ current' = Minus(current, Evicted(bucket[c])) + buf.cap
     /\ peak' = Max({peak, current'})
     /\ fragmented' = Fragmented(bucket')

Return(buf) == Release(buf) /\ lent' = lent (-) SetToBag({buf})

(* A tensor some operator allocated by itself.                              *)
Donate(buf) == Release(buf) /\ UNCHANGED lent

(* The caller keeps the tensor, or an error drops it.                       *)
Forget(buf) == lent' = lent (-) SetToBag({buf}) /\ UNCHANGED <<bucket, current, peak, fragmented>>

Clear ==
  /\ bucket' = [c \in Class |-> <<>>]
  /\ current' = 0
  /\ UNCHANGED <<peak, fragmented, lent>>

(* compact_bucket retains what is not too large for the class, in its order; *)
(* the last class has no bound to exceed.                                   *)
Oversized(c, cap) == c # Len(Bound) + 1 /\ cap > 2 * Bound[c]
Kept(c) == {k \in DOMAIN bucket[c] : ~Oversized(c, bucket[c][k])}
Nth(i, K) == CHOOSE k \in K : Cardinality({l \in K : l <= k}) = i
Retained(c) == [i \in 1 .. Cardinality(Kept(c)) |-> bucket[c][Nth(i, Kept(c))]]
Freed(c) == SumFunctionOnSet(bucket[c], DOMAIN bucket[c] \ Kept(c))

Compact ==
  /\ fragmented
  /\ bucket' = [c \in Class |-> Retained(c)]
  /\ current' = Minus(current, SumFunction([c \in Class |-> Freed(c)]))
  /\ fragmented' = Fragmented(bucket')
  /\ UNCHANGED <<peak, lent>>

Acquire(size) == BagCardinality(lent) < MaxLent /\ (Reuse(size) \/ Allocate(size))

Next ==
  \/ \E size \in Size : Acquire(size)
  \/ \E buf \in BagToSet(lent) : Return(buf) \/ Forget(buf)
  \/ \E buf \in Foreign : Donate(buf)
  \/ Clear \/ Compact

Spec == Init /\ [][Next]_vars

-----------------------------------------------------------------------------
(* The binary searches of acquire and release are on sorted lists: no mix   *)
(* of releases, evictions and compactions gets a list out of order.         *)
BucketsSorted ==
  \A c \in Class : \A k, l \in DOMAIN bucket[c] : k < l => bucket[c][k] <= bucket[c][l]

(* current_bytes is what the free lists hold, so that no saturating_sub     *)
(* ever hides a difference; and peak_bytes has seen it.                     *)
BytesExact == current = Held(bucket) /\ current <= peak

(* The free lists are as acquire, release and compact take them to be.      *)
FreeListsSound == BucketsSorted /\ BytesExact

(* Best fit: a request allocates only if no list it searches has a buffer   *)
(* for it, and else takes the smallest one of the first class that has one. *)
BestFit ==
  [][\A size \in Size : Acquire(size) =>
       LET fits(c) == {k \in DOMAIN bucket[c] : bucket[c][k] >= size}
           some == {c \in Class : c >= ClassOf(size) /\ fits(c) # {}}
           best(c) == Min({bucket[c][k] : k \in fits(c)})
       IN IF some = {} THEN UNCHANGED bucket
          ELSE current' = current - best(Min(some))]_vars
=============================================================================
