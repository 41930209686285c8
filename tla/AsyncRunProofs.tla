--------------------------- MODULE AsyncRunProofs ---------------------------
(***************************************************************************)
(* Theorems about AsyncRun, for every finite set of calls.                 *)
(***************************************************************************)
EXTENDS AsyncRun, FiniteSetTheorems, TLAPS

-----------------------------------------------------------------------------
(* What the steps of a worker, and those of its client, have established.   *)

Unpublished == {"none", "spawned", "running", "publish"}

(* The slot of c: empty until the worker publishes the outcome, or the      *)
(* client that no thread could be had; it is handed out once.               *)
SlotOf(c) ==
  /\ result[c] \in {"none", "nospawn", outcome[c]}
  /\ worker[c] \in Unpublished => result[c] = "none" /\ ~taken[c]
  /\ worker[c] = "publish" => outcome[c] \in Outcome
  /\ client[c] = "idle" => worker[c] = "none" /\ outcome[c] = "none"
  /\ taken[c] <=> got[c] # "none"
  /\ taken[c] => client[c] \in {"holding", "poll", "gone"}
  /\ client[c] = "holding" /\ style[c] = "again" => taken[c]

(* A client that waits by polling has left its waker in a slot it found     *)
(* empty.                                                                   *)
WakerLeft(c) == client[c] \in {"pending", "parked"} /\ result[c] = "none" => waker[c]

(* NoLostWakeup, for one call.                                              *)
WakeupComing(c) ==
  result[c] # "none" =>
    /\ client[c] = "asleep" => worker[c] = "notify"
    /\ client[c] \in {"pending", "parked"} =>
         token[c] \/ (woken[c] /\ worker[c] \in {"notify", "wake"})

(* The workers that count.                                                  *)
Entered == {c \in Call : worker[c] \in {"running", "publish", "notify", "wake", "unwind", "leave"}}
ActiveExact == active = Cardinality(Entered)

(* TypeOK, but for the bound on active.                                     *)
Typed ==
  /\ style \in [Call -> Style]
  /\ client \in [Call -> {"idle", "spin", "lock", "asleep", "poll", "pending", "parked",
                          "holding", "gone"}]
  /\ worker \in [Call -> {"none", "spawned", "running", "publish", "notify", "wake",
                          "unwind", "leave", "return", "gone"}]
  /\ outcome \in [Call -> Outcome \cup {"none"}]
  /\ result \in [Call -> Outcome \cup {"none", "nospawn"}]
  /\ got \in [Call -> Outcome \cup {"none", "nospawn", "taken"}]
  /\ taken \in [Call -> BOOLEAN] /\ waker \in [Call -> BOOLEAN]
  /\ woken \in [Call -> BOOLEAN] /\ token \in [Call -> BOOLEAN]
  /\ holders \subseteq {Main} \cup {Self(c) : c \in Call} \cup {Keepalive(c) : c \in Call}
  /\ disposer \in {Nobody, Main} \cup ({"client", "worker"} \X Call)

CallInv(c) == SlotOf(c) /\ WakerLeft(c) /\ WakeupComing(c)

IInv == Typed /\ ActiveExact /\ \A c \in Call : CallInv(c)

-----------------------------------------------------------------------------
(* Counting the workers.                                                    *)
LEMMA EnteredFinite ==
  /\ IsFiniteSet(Entered) /\ Cardinality(Entered) \in 0 .. Cardinality(Call)
  /\ IsFiniteSet(Entered') /\ Cardinality(Entered') \in 0 .. Cardinality(Call)
<1>1. Entered \in SUBSET Call /\ Entered' \in SUBSET Call
  BY DEF Entered
<1> QED
  BY <1>1, CallAssumption, FS_Subset, FS_CardinalityType

LEMMA EnteredSame ==
  ASSUME ActiveExact, Entered' = Entered, active' = active
  PROVE  ActiveExact'
  BY DEF ActiveExact

LEMMA EnteredMore ==
  ASSUME ActiveExact, NEW c \in Call, c \notin Entered,
         Entered' = Entered \cup {c}, active' = active + 1
  PROVE  ActiveExact'
  BY EnteredFinite, FS_AddElement DEF ActiveExact

LEMMA EnteredLess ==
  ASSUME ActiveExact, NEW c \in Entered,
         Entered' = Entered \ {c}, active' = active - 1
  PROVE  ActiveExact'
  BY EnteredFinite, FS_RemoveElement DEF ActiveExact

(* The Arcs that are left are Arcs, whoever lets go of some.                *)
LEMMA DropTyped ==
  ASSUME Typed, NEW H, NEW thread \in {Main} \cup ({"client", "worker"} \X Call), Drop(H, thread)
  PROVE  /\ holders' \subseteq {Main} \cup {Self(c) : c \in Call} \cup {Keepalive(c) : c \in Call}
         /\ disposer' \in {Nobody, Main} \cup ({"client", "worker"} \X Call)
  BY DEF Typed, Drop

LEMMA SlotDroppedTyped ==
  ASSUME Typed, NEW c \in Call, NEW other \in BOOLEAN,
         NEW thread \in {Main} \cup ({"client", "worker"} \X Call), SlotDropped(c, other, thread)
  PROVE  /\ holders' \subseteq {Main} \cup {Self(d) : d \in Call} \cup {Keepalive(d) : d \in Call}
         /\ disposer' \in {Nobody, Main} \cup ({"client", "worker"} \X Call)
<1>1. CASE Drop({Keepalive(c)}, thread)
  BY <1>1, DropTyped
<1>2. CASE UNCHANGED <<holders, disposer>>
  BY <1>2 DEF Typed
<1> QED
  BY <1>1, <1>2 DEF SlotDropped

-----------------------------------------------------------------------------
(* The initial state.                                                       *)
LEMMA InitInv == Init => IInv
<1> SUFFICES ASSUME Init PROVE IInv
  OBVIOUS
<1>1. Entered = {} /\ active = 0
  BY DEF Init, Entered
<1>2. ActiveExact
  BY <1>1, FS_EmptySet DEF ActiveExact
<1>3. Typed
  BY DEF Init, Typed
<1>4. ASSUME NEW c \in Call PROVE CallInv(c)
  BY DEF Init, CallInv, SlotOf, WakerLeft, WakeupComing, Unpublished
<1> QED
  BY <1>2, <1>3, <1>4 DEF IInv

(* A call is made, with or without a thread, or the last has been made.     *)
LEMMA SpawnInv ==
  ASSUME IInv, NEW c \in Call, Spawn(c) \/ SpawnFails(c)
  PROVE  IInv'
<1> USE DEF IInv, Typed, Goto
<1>1. FirstStop(c) \in {"lock", "spin", "holding", "poll"}
  BY DEF FirstStop
<1>2. Typed'
  BY <1>1 DEF Spawn, SpawnFails
<1>3. Entered' = Entered /\ active' = active
  BY DEF Spawn, SpawnFails, Entered, CallInv, SlotOf
<1>4. ASSUME NEW d \in Call PROVE CallInv(d)'
  <2>1. CASE d = c
    BY <1>1, <2>1 DEF Spawn, SpawnFails, FirstStop, CallInv, SlotOf, WakerLeft, WakeupComing,
       Unpublished
  <2>2. CASE d # c
    BY <2>2 DEF Spawn, SpawnFails, CallInv, SlotOf, WakerLeft, WakeupComing
  <2> QED
    BY <2>1, <2>2
<1> QED
  BY <1>2, <1>3, <1>4, EnteredSame

LEMMA DropMainInv ==
  ASSUME IInv, DropMain
  PROVE  IInv'
<1>1. Typed'
  <2>1. /\ holders' \subseteq {Main} \cup {Self(c) : c \in Call} \cup {Keepalive(c) : c \in Call}
        /\ disposer' \in {Nobody, Main} \cup ({"client", "worker"} \X Call)
    BY DropTyped DEF DropMain, IInv
  <2> QED
    BY <2>1 DEF DropMain, IInv, Typed
<1>2. Entered' = Entered /\ active' = active
  BY DEF DropMain, Entered
<1>3. ASSUME NEW d \in Call PROVE CallInv(d)'
  BY DEF DropMain, IInv, CallInv, SlotOf, WakerLeft, WakeupComing
<1> QED
  BY <1>1, <1>2, <1>3, EnteredSame DEF IInv

-----------------------------------------------------------------------------
(* The steps of a client.                                                   *)

(* The client of one call goes on; workers, outcomes and Arcs stay.         *)
LEMMA SlotTaken ==
  ASSUME IInv, NEW c \in Call, Wait(c) \/ Poll(c)
  PROVE  IInv'
<1> USE DEF IInv, Typed, Goto, Take, IsFinished
<1>0. /\ taken' \in [Call -> BOOLEAN] /\ waker' \in [Call -> BOOLEAN]
      /\ result[c] # "none" => taken'[c]
      /\ taken[c] => taken'[c]
      /\ taken'[c] => taken[c] \/ result[c] # "none"
  <2>1. taken' = [taken EXCEPT ![c] = @ \/ result[c] # "none"]
    BY DEF Wait, Poll
  <2>2. waker' = waker \/ waker' = [waker EXCEPT ![c] = @ \/ ~IsFinished(c)]
    BY DEF Wait, Poll
  <2>3. taken \in [Call -> BOOLEAN] /\ waker \in [Call -> BOOLEAN]
    OBVIOUS
  <2>4. waker' \in [Call -> BOOLEAN]
    BY <2>2, <2>3, Zenon
  <2> QED
    BY <2>1, <2>3, <2>4, Zenon
<1>1. Typed'
  <2>1. client' \in [Call -> {"idle", "spin", "lock", "asleep", "poll", "pending", "parked",
                             "holding", "gone"}]
    BY DEF Wait, Poll
  <2>2. result' \in [Call -> Outcome \cup {"none", "nospawn"}]
    <3>1. result' = [result EXCEPT ![c] = IF taken[c] THEN @ ELSE "none"]
      BY DEF Wait, Poll
    <3>2. result \in [Call -> Outcome \cup {"none", "nospawn"}]
      OBVIOUS
    <3> QED
      BY <3>1, <3>2
  <2>3. got' \in [Call -> Outcome \cup {"none", "nospawn", "taken"}]
    <3>1. got' = [got EXCEPT ![c] = IF taken[c] THEN "taken"
                                    ELSE IF result[c] # "none" THEN result[c] ELSE @]
      BY DEF Wait, Poll
    <3>2. /\ result \in [Call -> Outcome \cup {"none", "nospawn"}]
          /\ got \in [Call -> Outcome \cup {"none", "nospawn", "taken"}]
      OBVIOUS
    <3> QED
      BY <3>1, <3>2
  <2>4. UNCHANGED <<style, worker, outcome, woken, token, active, holders, disposer>>
    BY DEF Wait, Poll
  <2> QED
    BY <1>0, <2>1, <2>2, <2>3, <2>4
<1>2. Entered' = Entered /\ active' = active
  <2>1. UNCHANGED <<worker, active>>
    BY DEF Wait, Poll
  <2> QED
    BY <2>1 DEF Entered
<1>3. ASSUME NEW d \in Call PROVE CallInv(d)'
  <2>1. CASE d = c
    <3>1. SlotOf(c)'
      <4>1. CASE Wait(c)
        BY <1>0, <4>1 DEF Wait, CallInv, SlotOf, Unpublished, Outcome
      <4>2. CASE Poll(c)
        BY <1>0, <4>2 DEF Poll, CallInv, SlotOf, Unpublished, Outcome
      <4> QED
        BY <4>1, <4>2
    <3>2. WakerLeft(c)'
      <4>1. CASE Wait(c)
        BY <4>1 DEF Wait, WakerLeft
      <4>2. CASE Poll(c)
        BY <4>2 DEF Poll, WakerLeft
      <4> QED
        BY <4>1, <4>2
    <3>3. WakeupComing(c)'
      BY DEF Wait, Poll, WakeupComing
    <3> QED
      BY <2>1, <3>1, <3>2, <3>3 DEF CallInv
  <2>2. CASE d # c
    <3>1. /\ client'[d] = client[d] /\ result'[d] = result[d] /\ taken'[d] = taken[d]
          /\ got'[d] = got[d] /\ waker'[d] = waker[d]
      BY <2>2 DEF Wait, Poll
    <3>2. UNCHANGED <<style, worker, outcome, woken, token>>
      BY DEF Wait, Poll
    <3> QED
      BY <3>1, <3>2 DEF CallInv, SlotOf, WakerLeft, WakeupComing
  <2> QED
    BY <2>1, <2>2
<1> QED
  BY <1>1, <1>2, <1>3, EnteredSame

LEMMA ClientMovesInv ==
  ASSUME IInv, NEW c \in Call,
         Spin(c) \/ Park(c) \/ Unparked(c) \/ Spurious(c) \/ PollAgain(c)
  PROVE  IInv'
<1> USE DEF IInv, Typed, Goto
<1>1. Typed'
  <2>1. client' \in [Call -> {"idle", "spin", "lock", "asleep", "poll", "pending", "parked",
                             "holding", "gone"}]
    BY DEF Spin, Park, Unparked, Spurious, PollAgain
  <2>2. token' \in [Call -> BOOLEAN]
    BY DEF Spin, Park, Unparked, Spurious, PollAgain
  <2>3. UNCHANGED <<style, worker, outcome, result, taken, waker, woken, got, active, holders,
                    disposer>>
    BY DEF Spin, Park, Unparked, Spurious, PollAgain
  <2> QED
    BY <2>1, <2>2, <2>3
<1>2. Entered' = Entered /\ active' = active
  BY DEF Spin, Park, Unparked, Spurious, PollAgain, Entered
<1>3. ASSUME NEW d \in Call PROVE CallInv(d)'
  <2>1. CASE d = c
    <3>1. SlotOf(c)'
      BY DEF Spin, Park, Unparked, Spurious, PollAgain, CallInv, SlotOf, Unpublished
    <3>2. WakerLeft(c)'
      BY DEF Spin, Park, Unparked, Spurious, PollAgain, CallInv, WakerLeft
    <3>3. WakeupComing(c)'
      BY DEF Spin, Park, Unparked, Spurious, PollAgain, CallInv, WakeupComing
    <3> QED
      BY <2>1, <3>1, <3>2, <3>3 DEF CallInv
  <2>2. CASE d # c
    BY <2>2 DEF Spin, Park, Unparked, Spurious, PollAgain, CallInv, SlotOf, WakerLeft, WakeupComing
  <2> QED
    BY <2>1, <2>2
<1> QED
  BY <1>1, <1>2, <1>3, EnteredSame

LEMMA ClientLeavesInv ==
  ASSUME IInv, NEW c \in Call, DropHandle(c) \/ Abandon(c)
  PROVE  IInv'
<1>1. Typed'
  <2>1. SlotDropped(c, WorkerLeft(c), <<"client", c>>) /\ WorkerLeft(c) \in BOOLEAN
    BY DEF DropHandle, Abandon, WorkerLeft
  <2>2. /\ holders' \subseteq {Main} \cup {Self(d) : d \in Call} \cup {Keepalive(d) : d \in Call}
        /\ disposer' \in {Nobody, Main} \cup ({"client", "worker"} \X Call)
    BY <2>1, SlotDroppedTyped DEF IInv
  <2> QED
    BY <2>2 DEF DropHandle, Abandon, IInv, Typed, Goto
<1>2. Entered' = Entered /\ active' = active
  BY DEF DropHandle, Abandon, Entered
<1>3. ASSUME NEW d \in Call PROVE CallInv(d)'
  BY DEF DropHandle, Abandon, IInv, Typed, Goto, CallInv, SlotOf, WakerLeft, WakeupComing
<1> QED
  BY <1>1, <1>2, <1>3, EnteredSame DEF IInv

-----------------------------------------------------------------------------
(* The steps of a worker.                                                   *)

LEMMA EnterInv ==
  ASSUME IInv, NEW c \in Call, Enter(c)
  PROVE  IInv'
<1> USE DEF IInv, Typed, At
<1>1. Typed'
  BY DEF Enter
<1>2. c \notin Entered /\ Entered' = Entered \cup {c} /\ active' = active + 1
  BY DEF Enter, Entered
<1>3. ASSUME NEW d \in Call PROVE CallInv(d)'
  BY DEF Enter, CallInv, SlotOf, WakerLeft, WakeupComing, Unpublished
<1> QED
  BY <1>1, <1>2, <1>3, EnteredMore

LEMMA LeaveInv ==
  ASSUME IInv, NEW c \in Call, Leave(c)
  PROVE  IInv'
<1> USE DEF IInv, Typed, At
<1>1. Typed'
  BY DEF Leave
<1>2. c \in Entered /\ Entered' = Entered \ {c} /\ active' = active - 1
  BY DEF Leave, Entered
<1>3. ASSUME NEW d \in Call PROVE CallInv(d)'
  BY DEF Leave, CallInv, SlotOf, WakerLeft, WakeupComing, Unpublished
<1> QED
  BY <1>1, <1>2, <1>3, EnteredLess

(* The run ends, its outcome is published, and whoever waits is told.       *)
LEMMA PublishInv ==
  ASSUME IInv, NEW c \in Call, RunInternal(c) \/ Publish(c) \/ Notify(c) \/ Wake(c)
  PROVE  IInv'
<1> USE DEF IInv, Typed, At, Goto
<1>0. /\ worker' \in [Call -> {"none", "spawned", "running", "publish", "notify", "wake",
                              "unwind", "leave", "return", "gone"}]
      /\ outcome' \in [Call -> Outcome \cup {"none"}]
  BY DEF RunInternal, Publish, Notify, Wake
<1>t. token' \in [Call -> BOOLEAN] /\ (Wake(c) => token'[c] = (token[c] \/ woken[c]))
  <2>1. CASE woken[c]
    BY <2>1 DEF RunInternal, Publish, Notify, Wake
  <2>2. CASE ~woken[c]
    BY <2>2 DEF RunInternal, Publish, Notify, Wake
  <2> QED
    BY <2>1, <2>2
<1>1. Typed'
  <2>1. client' \in [Call -> {"idle", "spin", "lock", "asleep", "poll", "pending", "parked",
                             "holding", "gone"}]
    BY DEF RunInternal, Publish, Notify, Wake
  <2>2. result' \in [Call -> Outcome \cup {"none", "nospawn"}]
    BY DEF RunInternal, Publish, Notify, Wake
  <2>3. woken' \in [Call -> BOOLEAN] /\ waker' \in [Call -> BOOLEAN]
    BY DEF RunInternal, Publish, Notify, Wake
  <2>4. UNCHANGED <<style, got, taken, holders, disposer>>
    BY DEF RunInternal, Publish, Notify, Wake
  <2> QED
    BY <1>0, <1>t, <2>1, <2>2, <2>3, <2>4
<1>2. Entered' = Entered /\ active' = active
  BY DEF RunInternal, Publish, Notify, Wake, Entered
<1>3. ASSUME NEW d \in Call PROVE CallInv(d)'
  <2>1. CASE d = c
    <3>1. SlotOf(c)'
      BY DEF RunInternal, Publish, Notify, Wake, CallInv, SlotOf, Unpublished
    <3>2. WakerLeft(c)'
      BY DEF RunInternal, Publish, Notify, Wake, CallInv, SlotOf, WakerLeft, Unpublished, Outcome
    <3>3. WakeupComing(c)'
      BY DEF RunInternal, Publish, Notify, Wake, CallInv, SlotOf, WakerLeft, WakeupComing,
         Unpublished
    <3> QED
      BY <2>1, <3>1, <3>2, <3>3 DEF CallInv
  <2>2. CASE d # c
    BY <2>2 DEF RunInternal, Publish, Notify, Wake, CallInv, SlotOf, WakerLeft, WakeupComing
  <2> QED
    BY <2>1, <2>2
<1> QED
  BY <1>1, <1>2, <1>3, EnteredSame

LEMMA WorkerLeavesInv ==
  ASSUME IInv, NEW c \in Call, DropSlot(c) \/ DropCaptures(c)
  PROVE  IInv'
<1>1. Typed'
  <2>1. CASE DropSlot(c)
    <3>1. SlotDropped(c, client[c] = "gone", <<"worker", c>>)
      BY <2>1 DEF DropSlot
    <3>2. (client[c] = "gone") \in BOOLEAN
      OBVIOUS
    <3>3. /\ holders' \subseteq {Main} \cup {Self(d) : d \in Call} \cup {Keepalive(d) : d \in Call}
          /\ disposer' \in {Nobody, Main} \cup ({"client", "worker"} \X Call)
      BY <3>1, <3>2, SlotDroppedTyped DEF IInv
    <3> QED
      BY <2>1, <3>3 DEF DropSlot, At, IInv, Typed
  <2>2. CASE DropCaptures(c)
    <3>1. /\ holders' \subseteq {Main} \cup {Self(d) : d \in Call} \cup {Keepalive(d) : d \in Call}
          /\ disposer' \in {Nobody, Main} \cup ({"client", "worker"} \X Call)
      BY <2>2, DropTyped DEF DropCaptures, IInv
    <3> QED
      BY <2>2, <3>1 DEF DropCaptures, At, IInv, Typed
  <2> QED
    BY <2>1, <2>2
<1>2. Entered' = Entered /\ active' = active
  BY DEF DropSlot, DropCaptures, At, IInv, Typed, Entered
<1>3. ASSUME NEW d \in Call PROVE CallInv(d)'
  BY DEF DropSlot, DropCaptures, At, IInv, Typed, CallInv, SlotOf, WakerLeft, WakeupComing,
     Unpublished
<1> QED
  BY <1>1, <1>2, <1>3, EnteredSame DEF IInv

-----------------------------------------------------------------------------
LEMMA NextInv ==
  ASSUME IInv, [Next]_vars
  PROVE  IInv'
<1>1. CASE DropMain
  BY <1>1, DropMainInv
<1>2. ASSUME NEW c \in Call,
             Spawn(c) \/ SpawnFails(c) \/ Abandon(c) \/ Spurious(c) \/ Client(c) \/ Worker(c)
      PROVE  IInv'
  <2>1. CASE Spawn(c) \/ SpawnFails(c)
    BY <2>1, SpawnInv
  <2>2. CASE Abandon(c) \/ DropHandle(c)
    BY <2>2, ClientLeavesInv
  <2>3. CASE Spin(c) \/ Park(c) \/ Unparked(c) \/ Spurious(c) \/ PollAgain(c)
    BY <2>3, ClientMovesInv
  <2>4. CASE Wait(c) \/ Poll(c)
    BY <2>4, SlotTaken
  <2>5. CASE Enter(c)
    BY <2>5, EnterInv
  <2>6. CASE RunInternal(c) \/ Publish(c) \/ Notify(c) \/ Wake(c)
    BY <2>6, PublishInv
  <2>7. CASE DropSlot(c) \/ DropCaptures(c)
    BY <2>7, WorkerLeavesInv
  <2>8. CASE Leave(c)
    BY <2>8, LeaveInv
  <2> QED
    BY <1>2, <2>1, <2>2, <2>3, <2>4, <2>5, <2>6, <2>7, <2>8 DEF Client, Worker
<1>3. CASE UNCHANGED vars
  <2>1. Typed' /\ Entered' = Entered /\ active' = active
    BY <1>3 DEF vars, IInv, Typed, Entered
  <2>2. ASSUME NEW d \in Call PROVE CallInv(d)'
    BY <1>3 DEF vars, IInv, CallInv, SlotOf, WakerLeft, WakeupComing
  <2> QED
    BY <2>1, <2>2, EnteredSame DEF IInv
<1> QED
  BY <1>1, <1>2, <1>3 DEF Next

LEMMA Invariance == Spec => []IInv
<1>1. Init => IInv
  BY InitInv
<1>2. IInv /\ [Next]_vars => IInv'
  BY NextInv
<1> QED
  BY <1>1, <1>2, PTL DEF Spec

(* Every variable holds a value of its kind, whatever the calls: in         *)
(* particular ACTIVE_WORKERS, which two fetches without a lock move, counts *)
(* between no worker and one for every call.                                *)
THEOREM TypeCorrect == Spec => []TypeOK
<1>1. IInv => TypeOK
  BY EnteredFinite DEF IInv, Typed, ActiveExact, TypeOK
<1> QED
  BY <1>1, Invariance, PTL

(* No client sleeps through the end of its run, on the condition variable   *)
(* or on a park token: complete() and the look at the slot exclude each     *)
(* other (SharedState, RunHandle::wait, RunFuture::poll).                   *)
THEOREM NoLostWakeupCorrect == Spec => []NoLostWakeup
<1>1. IInv => NoLostWakeup
  BY DEF IInv, CallInv, WakeupComing, NoLostWakeup
<1> QED
  BY <1>1, Invariance, PTL

(* A step that answers a client hands it the outcome of its own run, or the *)
(* failure to get a thread; whoever asks again is told it was taken.        *)
LEMMA AnswerStep ==
  ASSUME IInv, [Next]_vars, NEW c \in Call, client[c] # "holding", client'[c] = "holding"
  PROVE  IF got[c] = "none" THEN got'[c] = result[c] /\ got'[c] \in {outcome[c], "nospawn"}
                            ELSE got'[c] = "taken"
<1> USE DEF IInv, Typed, Goto, CallInv, SlotOf
<1>0. client'[c] # client[c]
  OBVIOUS
<1>1. CASE DropMain \/ UNCHANGED vars
  BY <1>0, <1>1 DEF DropMain, vars
<1>2. ASSUME NEW d \in Call, Worker(d)
      PROVE  FALSE
  <2>1. \/ UNCHANGED client
        \/ client' = [client EXCEPT ![d] = IF client[d] = "asleep" THEN "lock" ELSE client[d]]
    BY <1>2 DEF Worker, Enter, RunInternal, Publish, Notify, Wake, DropSlot, Leave, DropCaptures
  <2> QED
    BY <1>0, <2>1
<1>3. ASSUME NEW d \in Call, Abandon(d) \/ Spurious(d) \/ DropHandle(d) \/ Spin(d) \/ Park(d)
                             \/ Unparked(d) \/ PollAgain(d)
      PROVE  FALSE
  BY <1>0, <1>3 DEF Abandon, Spurious, DropHandle, Spin, Park, Unparked, PollAgain
<1>4. ASSUME NEW d \in Call, Spawn(d) \/ SpawnFails(d)
      PROVE  got[c] = "none" /\ got'[c] = "none" /\ result[c] = "none" /\ outcome[c] = "none"
  BY <1>0, <1>4 DEF Spawn, SpawnFails, Unpublished
<1>5. ASSUME NEW d \in Call, Wait(d) \/ Poll(d)
      PROVE  IF got[c] = "none" THEN got'[c] = result[c] /\ got'[c] \in {outcome[c], "nospawn"}
                                ELSE got'[c] = "taken"
  <2>1. d = c /\ IsFinished(c)
    BY <1>0, <1>5 DEF Wait, Poll, Take
  <2> QED
    BY <1>5, <2>1 DEF Wait, Poll, Take, IsFinished
<1> QED
  BY <1>1, <1>2, <1>3, <1>4, <1>5 DEF Next, Client

(* Every client is answered at most once, with what its run came to.        *)
THEOREM AnswerOnceCorrect == Spec => AnswerOnce
<1>1. IInv /\ [Next]_vars =>
        [\A c \in Call : client[c] # "holding" /\ client'[c] = "holding" =>
           IF got[c] = "none" THEN got'[c] = result[c] /\ got'[c] \in {outcome[c], "nospawn"}
                              ELSE got'[c] = "taken"]_vars
  BY AnswerStep
<1> QED
  BY <1>1, Invariance, PTL DEF Spec, AnswerOnce
=============================================================================
