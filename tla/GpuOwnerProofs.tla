--------------------------- MODULE GpuOwnerProofs ---------------------------
(***************************************************************************)
(* Theorems about GpuOwner, for every finite set of users.                 *)
(***************************************************************************)
EXTENDS GpuOwner, FiniteSetTheorems, TLAPS

-----------------------------------------------------------------------------
(* The rendezvous: who the owner is busy with, and what it has done for it. *)

Busy == {"serving", "made", "hooked", "destroyed"}

(* Exactly the user being served waits for a reply, and the owner's place   *)
(* tells which of the two requests that user came with.                     *)
Served ==
  /\ owner \in Busy => serving \in User /\ place[serving] = "waiting"
  /\ \A u \in User : place[u] = "waiting" => owner \in Busy /\ serving = u
  /\ owner \in {"made", "hooked"} => op[serving] = "create"
  /\ owner = "destroyed" => op[serving] = "destroy" /\ destroyer[serving] # "none"
  /\ owner = "hooked" => registered

(* What a user has at each place: no context before it was made, a hook     *)
(* where the owner made one, and none left where it asked for its end.      *)
Lifetime(u) ==
  /\ place[u] \in {"idle", "holding"} => op[u] = "create"
  /\ place[u] \in {"idle", "sending"} /\ op[u] = "create" => creator[u] = "none"
  /\ place[u] = "waiting" /\ owner = "serving" /\ op[u] = "create" => creator[u] = "none"
  /\ place[u] \in {"replied", "holding"} /\ creator[u] = "owner" /\ op[u] = "create" => registered
  /\ place[u] \in {"replied", "done"} /\ op[u] = "destroy" => destroyer[u] # "none"
  /\ place[u] = "done" /\ op[u] = "create" => creator[u] = "none"

Lifetimes == \A u \in User : Lifetime(u)

(* From its first quiet look on, the hook knows of everyone in flight.      *)
Noticed == exit \in {"debounce", "sampled", "quiet"} => InFlight \subseteq late

IInv == TypeOK /\ InFlightExact /\ Served /\ Lifetimes /\ SameThread /\ Noticed

-----------------------------------------------------------------------------
(* Counting who is in flight.                                               *)

LEMMA InFlightFinite ==
  /\ IsFiniteSet(InFlight) /\ Cardinality(InFlight) \in Nat
  /\ IsFiniteSet(InFlight') /\ Cardinality(InFlight') \in Nat
<1>1. InFlight \in SUBSET User /\ InFlight' \in SUBSET User
  BY DEF InFlight
<1> QED
  BY <1>1, NobodyAssumption, FS_Subset, FS_CardinalityType

(* Entering and leaving change the count by one.                            *)
LEMMA InFlightAdded ==
  ASSUME InFlightExact, NEW u \in User, u \notin InFlight,
         InFlight' = InFlight \cup {u}, inFlight' = inFlight + 1
  PROVE  InFlightExact'
  BY InFlightFinite, FS_AddElement DEF InFlightExact

LEMMA InFlightRemoved ==
  ASSUME InFlightExact, NEW u \in InFlight,
         InFlight' = InFlight \ {u}, inFlight' = inFlight - 1
  PROVE  InFlightExact' /\ inFlight' \in Nat
<1>1. Cardinality(InFlight) # 0
  BY InFlightFinite, FS_EmptySet
<1> QED
  BY <1>1, InFlightFinite, FS_RemoveElement DEF InFlightExact

(* If nothing is in flight by the count, nobody is.                         *)
LEMMA NobodyInFlight ==
  ASSUME InFlightExact, inFlight = 0
  PROVE  InFlight = {}
  BY InFlightFinite, FS_EmptySet DEF InFlightExact

-----------------------------------------------------------------------------
(* The initial state.                                                       *)
LEMMA InitInv == Init => IInv
<1> SUFFICES ASSUME Init PROVE IInv
  OBVIOUS
<1>1. InFlight = {} /\ inFlight = 0
  BY DEF Init, InFlight
<1>2. InFlightExact
  BY <1>1, FS_EmptySet DEF InFlightExact
<1>3. TypeOK /\ Served /\ Lifetimes
  BY DEF Init, TypeOK, Served, Busy, Lifetimes, Lifetime
<1>4. SameThread /\ Noticed
  BY DEF Init, SameThread, Noticed
<1> QED
  BY <1>2, <1>3, <1>4 DEF IInv

(* A user asks the owner for a context, or for the end of one.              *)
LEMMA EnterInv ==
  ASSUME IInv, NEW u \in User, Create(u) \/ Dispose(u)
  PROVE  IInv'
<1> USE DEF IInv, TypeOK, Create, Dispose, Enter, Move, contexts, thread, ending
<1>1. TypeOK'
  OBVIOUS
<1>2. u \notin InFlight /\ InFlight' = InFlight \cup {u} /\ inFlight' = inFlight + 1
  BY DEF InFlight
<1>3. InFlightExact'
  BY <1>2, InFlightAdded
<1>4. Served'
  BY DEF Served, Busy
<1>5. Lifetimes'
  BY DEF Lifetimes, Lifetime
<1>6. SameThread' /\ Noticed'
  BY <1>2 DEF SameThread, Noticed
<1> QED
  BY <1>1, <1>3, <1>4, <1>5, <1>6

(* The request cannot be sent, or its round trip is over.                   *)
LEMMA InPlaceInv ==
  ASSUME IInv, NEW u \in User, InPlace(u)
  PROVE  IInv'
<1> USE DEF IInv, TypeOK, InPlace, Disconnected, Move, thread, ending
<1>1. TypeOK'
  OBVIOUS
<1>2. InFlight' = InFlight /\ inFlight' = inFlight
  BY DEF InFlight
<1>3. Served'
  BY DEF Served, Busy
<1>4. Lifetimes'
  BY DEF Lifetimes, Lifetime
<1> QED
  BY <1>1, <1>2, <1>3, <1>4 DEF InFlightExact, SameThread, Noticed

LEMMA LeaveInv ==
  ASSUME IInv, NEW u \in User, Leave(u)
  PROVE  IInv'
<1> USE DEF IInv, Leave, contexts, thread, ending
<1>1. u \in InFlight /\ InFlight' = InFlight \ {u} /\ inFlight' = inFlight - 1
  BY DEF TypeOK, InFlight
<1>2. InFlightExact' /\ inFlight' \in Nat
  BY <1>1, InFlightRemoved
<1>3. TypeOK'
  BY <1>2 DEF TypeOK
<1>4. Served'
  BY DEF TypeOK, Served, Busy
<1>5. Lifetimes'
  BY DEF TypeOK, Lifetimes, Lifetime
<1> QED
  BY <1>1, <1>2, <1>3, <1>4, <1>5 DEF SameThread, Noticed

(* The owner thread goes on, or panics.                                     *)
LEMMA OwnerInv ==
  ASSUME IInv, Owner \/ Panic
  PROVE  IInv'
<1> USE DEF IInv, TypeOK, requests, contexts, thread, ending
<1>1. CASE SpawnOwner
  <2>1. TypeOK' /\ Served' /\ SameThread'
    BY <1>1 DEF SpawnOwner, Served, Busy, SameThread
  <2>2. Lifetimes' /\ InFlightExact' /\ Noticed'
    BY <1>1 DEF SpawnOwner, Lifetimes, Lifetime, InFlightExact, InFlight, Noticed
  <2> QED
    BY <2>1, <2>2
<1>2. ASSUME NEW u \in User, Receive(u) PROVE IInv'
  <2> USE <1>2 DEF Receive, Move
  <2>1. TypeOK'
    OBVIOUS
  <2>2. InFlight' = InFlight /\ inFlight' = inFlight
    BY DEF InFlight
  <2>3. Served'
    BY DEF Served, Busy
  <2>4. Lifetimes'
    BY DEF Served, Busy, Lifetimes, Lifetime
  <2> QED
    BY <2>1, <2>2, <2>3, <2>4 DEF InFlightExact, SameThread, Noticed
<1>3. CASE TryNew
  <2> USE <1>3 DEF TryNew
  <2>1. serving \in User /\ place[serving] = "waiting"
    BY DEF Served, Busy
  <2>2. TypeOK' /\ Served' /\ SameThread'
    BY <2>1 DEF Served, Busy, SameThread
  <2>3. Lifetimes'
    BY <2>1 DEF Lifetimes, Lifetime
  <2> QED
    BY <2>2, <2>3 DEF InFlightExact, InFlight, Noticed
<1>4. CASE RegisterHook
  <2> USE <1>4 DEF RegisterHook
  <2>1. TypeOK' /\ Served' /\ SameThread'
    BY DEF Served, Busy, SameThread
  <2>2. Lifetimes'
    BY DEF Lifetimes, Lifetime
  <2> QED
    BY <2>1, <2>2 DEF InFlightExact, InFlight, Noticed
<1>5. CASE Destroy
  <2> USE <1>5 DEF Destroy
  <2>1. serving \in User /\ place[serving] = "waiting"
    BY DEF Served, Busy
  <2>2. TypeOK' /\ Served' /\ SameThread'
    BY <2>1 DEF Served, Busy, SameThread
  <2>3. Lifetimes'
    BY <2>1 DEF Lifetimes, Lifetime
  <2> QED
    BY <2>2, <2>3 DEF InFlightExact, InFlight, Noticed
<1>6. CASE Reply \/ Panic
  <2>1. serving \in User /\ place[serving] = "waiting"
    BY <1>6 DEF Served, Busy, Reply, Panic
  <2>2. /\ place' = [place EXCEPT ![serving] = "replied"]
        /\ UNCHANGED <<op, inFlight, late, creator, registered, exit, expired>>
    BY <1>6 DEF Reply, Panic
  <2>3. InFlight' = InFlight
    BY <2>1, <2>2 DEF InFlight
  <2>4. TypeOK'
    BY <1>6, <2>1, <2>2 DEF Reply, Panic
  <2>5. Served'
    BY <1>6, <2>1, <2>2 DEF Served, Busy, Reply, Panic
  <2>6. Lifetimes'
    BY <1>6, <2>1, <2>2 DEF Served, Busy, Reply, Panic, Lifetimes, Lifetime
  <2>7. SameThread'
    BY <1>6, <2>1, <2>2 DEF Reply, Panic, SameThread
  <2> QED
    BY <2>2, <2>3, <2>4, <2>5, <2>6, <2>7 DEF InFlightExact, Noticed
<1> QED
  BY <1>1, <1>2, <1>3, <1>4, <1>5, <1>6 DEF Owner

(* Process exit, and the hook that looks for what is pending.               *)
LEMMA ExitInv ==
  ASSUME IInv, Exit \/ Hook \/ Expire
  PROVE  IInv'
<1> USE DEF IInv, TypeOK, requests, contexts, thread, ending
<1>1. UNCHANGED <<place, op, inFlight, creator, destroyer, owner, serving, registered>>
  BY DEF Exit, Hook, Expire, Look, DebounceOver, GiveUp
<1>2. TypeOK'
  BY <1>1 DEF Exit, Hook, Expire, Look, DebounceOver, GiveUp
<1>3. Noticed'
  <2>1. CASE Look
    BY <2>1, NobodyInFlight DEF Look, Pending, Noticed, InFlight
  <2>2. CASE Exit \/ DebounceOver \/ GiveUp \/ Expire
    BY <2>2 DEF Exit, DebounceOver, GiveUp, Expire, Noticed, InFlight
  <2> QED
    BY <2>1, <2>2 DEF Hook
<1> QED
  BY <1>1, <1>2, <1>3 DEF InFlightExact, InFlight, Served, Busy, Lifetimes, Lifetime, SameThread

-----------------------------------------------------------------------------
(* IInv holds in every state.                                               *)
LEMMA Invariance == Spec => []IInv
<1>1. IInv /\ [Next]_vars => IInv'
  <2> SUFFICES ASSUME IInv, [Next]_vars PROVE IInv'
    OBVIOUS
  <2>1. CASE Next
    BY <2>1, EnterInv, InPlaceInv, LeaveInv, OwnerInv, ExitInv DEF Next, Caller
  <2>2. CASE UNCHANGED vars
    BY <2>2 DEF vars, IInv, TypeOK, InFlightExact, InFlight, Served, Busy, Lifetimes, Lifetime,
         SameThread, Noticed
  <2> QED
    BY <2>1, <2>2
<1> QED
  BY <1>1, InitInv, PTL DEF Spec

(* Every variable of GpuOwner keeps its type; in particular the count of    *)
(* round trips never goes below zero.                                       *)
THEOREM TypeCorrect == Spec => []TypeOK
<1>1. IInv => TypeOK
  BY DEF IInv
<1> QED
  BY <1>1, Invariance, PTL

(* IN_FLIGHT is the number of round trips begun and not ended, for every    *)
(* number of sessions and wherever a send fails or the driver panics.       *)
THEOREM InFlightCorrect == Spec => []InFlightExact
<1>1. IInv => InFlightExact
  BY DEF IInv
<1> QED
  BY <1>1, Invariance, PTL

(* A context is made and destroyed by the owner as long as it lives, and a  *)
(* session that is dropped has none left: create, dispose.                  *)
THEOREM ContextsOwnedCorrect == Spec => []ContextsOwned
<1>1. IInv => ContextsOwned
  BY DEF IInv, TypeOK, Lifetimes, Lifetime, ContextsOwned, DropIsSynchronous
<1> QED
  BY <1>1, Invariance, PTL

(* The exit hook is registered where a context of the owner's is held, and  *)
(* when it leaves because all is quiet it has overlooked nobody who was     *)
(* there at its last look.                                                  *)
THEOREM ExitGuardedCorrect == Spec => []ExitGuarded
<1>1. IInv => ExitGuarded
  BY DEF IInv, TypeOK, Lifetimes, Lifetime, Noticed, ExitGuarded, HookCoversContexts,
     RoundTripsWaitedFor
<1> QED
  BY <1>1, Invariance, PTL
=============================================================================
