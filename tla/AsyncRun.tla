------------------------------ MODULE AsyncRun ------------------------------
(***************************************************************************)
(* Session::run_async and spawn_run: every call moves an Arc of the        *)
(* session to a worker thread of its own and shares a one-shot slot with   *)
(* it, which the caller waits on (RunHandle::wait), awaits (RunFuture      *)
(* under block_on) or drops.  A call's client and worker threads are named *)
(* after the call.                                                         *)
(***************************************************************************)
EXTENDS Naturals, FiniteSets

CONSTANTS Call,   \* the calls of spawn_run
          Style   \* what clients do: subset of {"wait", "await", "again", "spin", "drop"}

ASSUME CallAssumption == IsFiniteSet(Call)

Outcome == {"ok", "error", "panic"}   \* of run_internal on the worker

VARIABLES style,    \* style[c]: what the client of c does with its handle
          client,   \* client[c]: where that client is
          worker,   \* worker[c]: where the worker thread is
          outcome,  \* outcome[c]: how run_internal ended
          result,   \* SharedState.result
          taken,    \* SharedState.taken
          waker,    \* SharedState.waker is Some
          woken,    \* woken[c]: complete() took a waker out of the slot
          token,    \* the park token of the client's thread
          got,      \* got[c]: what the client was handed, last
          active,   \* ACTIVE_WORKERS
          holders,  \* who holds an Arc of the session
          disposer  \* who dropped the last one

vars == <<style, client, worker, outcome, result, taken, waker, woken, token, got,
          active, holders, disposer>>

Self(c) == <<"worker", c>>       \* the Arc the closure captured
Keepalive(c) == <<"shared", c>>  \* Shared::_session_keepalive
Main == <<"main", 0>>            \* the caller's own clone
Nobody == <<"nobody", 0>>

(* Everything is in its place.                                              *)
TypeOK ==
  /\ style \in [Call -> Style]
  /\ client \in [Call -> {"idle", "spin", "lock", "asleep", "poll", "pending", "parked",
                          "holding", "gone"}]
  /\ worker \in [Call -> {"none", "spawned", "running", "publish", "notify", "wake",
                          "unwind", "leave", "return", "gone"}]
  /\ outcome \in [Call -> Outcome \cup {"none"}]
  /\ result \in [Call -> Outcome \cup {"none", "nospawn"}]
  /\ got \in [Call -> Outcome \cup {"none", "nospawn", "taken"}]
  /\ taken \in [Call -> BOOLEAN] /\ waker \in [Call -> BOOLEAN]
  /\ woken \in [Call -> BOOLEAN] /\ token \in [Call -> BOOLEAN]
  /\ active \in 0 .. Cardinality(Call)
  /\ holders \subseteq {Main} \cup {Self(c) : c \in Call} \cup {Keepalive(c) : c \in Call}
  /\ disposer \in {Nobody, Main} \cup ({"client", "worker"} \X Call)

Init ==
  /\ style \in [Call -> Style]
  /\ client = [c \in Call |-> "idle"]
  /\ worker = [c \in Call |-> "none"]
  /\ outcome = [c \in Call |-> "none"]
  /\ result = [c \in Call |-> "none"]
  /\ got = [c \in Call |-> "none"]
  /\ taken = [c \in Call |-> FALSE] /\ waker = [c \in Call |-> FALSE]
  /\ woken = [c \in Call |-> FALSE] /\ token = [c \in Call |-> FALSE]
  /\ active = 0
  /\ holders = {Main}
  /\ disposer = Nobody

(* Dropping the Arcs in H; the thread that drops the last one runs the      *)
(* session's destructor.                                                    *)
Drop(H, thread) ==
  /\ holders' = holders \ H
  /\ disposer' = IF holders # {} /\ holders \subseteq H THEN thread ELSE disposer

Goto(c, place) == client' = [client EXCEPT ![c] = place]

-----------------------------------------------------------------------------
(* The client.                                                              *)

FirstStop(c) == CASE style[c] = "wait" -> "lock" [] style[c] = "spin" -> "spin"
                  [] style[c] = "drop" -> "holding" [] OTHER -> "poll"

Spawn(c) ==
  /\ client[c] = "idle" /\ Main \in holders
  /\ Goto(c, FirstStop(c))
  /\ worker' = [worker EXCEPT ![c] = "spawned"]
  /\ holders' = holders \cup {Self(c), Keepalive(c)}
  /\ UNCHANGED <<style, outcome, result, taken, waker, woken, token, got, active, disposer>>

(* Builder::spawn fails: the closure is dropped with its captures, and the  *)
(* slot is completed by the client, whom nobody can be waiting for yet.     *)
SpawnFails(c) ==
  /\ client[c] = "idle" /\ Main \in holders
  /\ Goto(c, FirstStop(c))
  /\ worker' = [worker EXCEPT ![c] = "gone"]
  /\ result' = [result EXCEPT ![c] = "nospawn"]
  /\ holders' = holders \cup {Keepalive(c)}
  /\ UNCHANGED <<style, outcome, taken, waker, woken, token, got, active, disposer>>

(* The caller's clone goes once every call is made: it may as well have     *)
(* been moved into the last one.                                            *)
DropMain ==
  /\ Main \in holders
  /\ \A c \in Call : client[c] # "idle"
  /\ Drop({Main}, Main)
  /\ UNCHANGED <<style, client, worker, outcome, result, taken, waker, woken, token, got, active>>

IsFinished(c) == result[c] # "none" \/ taken[c]

(* is_finished, asked until it says so; then wait.                          *)
Spin(c) ==
  /\ client[c] = "spin" /\ IsFinished(c)
  /\ Goto(c, "lock")
  /\ UNCHANGED <<style, worker, outcome, result, taken, waker, woken, token, got, active,
                 holders, disposer>>

(* Variant: the slot yields a result that was taken before.                 *)
TakeStale(c, empty) ==
  /\ got' = [got EXCEPT ![c] = IF result[c] # "none" THEN result[c] ELSE @]
  /\ taken' = [taken EXCEPT ![c] = @ \/ result[c] # "none"]
  /\ result' = result
  /\ Goto(c, IF IsFinished(c) THEN "holding" ELSE empty)

(* The slot, under its lock: a client that finds nothing goes to `empty`.   *)
Take(c, empty) ==
  /\ got' = [got EXCEPT ![c] = IF taken[c] THEN "taken"
                                ELSE IF result[c] # "none" THEN result[c] ELSE @]
  /\ taken' = [taken EXCEPT ![c] = @ \/ result[c] # "none"]
  /\ result' = [result EXCEPT ![c] = IF taken[c] THEN @ ELSE "none"]
  /\ Goto(c, IF IsFinished(c) THEN "holding" ELSE empty)

Wait(c) ==
  /\ client[c] = "lock"
  /\ Take(c, "asleep")
  /\ UNCHANGED <<style, worker, outcome, waker, woken, token, active, holders, disposer>>

Poll(c) ==
  /\ client[c] = "poll"
  /\ Take(c, "pending")
  /\ waker' = [waker EXCEPT ![c] = @ \/ ~IsFinished(c)]
  /\ UNCHANGED <<style, worker, outcome, woken, token, active, holders, disposer>>

(* thread::park, which a token left by unpark ends at once.                 *)
Park(c) ==
  /\ client[c] = "pending"
  /\ Goto(c, IF token[c] THEN "poll" ELSE "parked")
  /\ token' = [token EXCEPT ![c] = FALSE]
  /\ UNCHANGED <<style, worker, outcome, result, taken, waker, woken, got, active, holders, disposer>>

Unparked(c) ==
  /\ client[c] = "parked" /\ token[c]
  /\ Goto(c, "poll")
  /\ token' = [token EXCEPT ![c] = FALSE]
  /\ UNCHANGED <<style, worker, outcome, result, taken, waker, woken, got, active, holders, disposer>>

(* park and Condvar::wait may return for no reason.                         *)
Spurious(c) ==
  /\ client[c] \in {"parked", "asleep"}
  /\ Goto(c, IF client[c] = "parked" THEN "poll" ELSE "lock")
  /\ UNCHANGED <<style, worker, outcome, result, taken, waker, woken, token, got, active,
                 holders, disposer>>

(* A finished future polled once more.                                      *)
PollAgain(c) ==
  /\ client[c] = "holding" /\ style[c] = "again" /\ got[c] # "taken"
  /\ Goto(c, "poll")
  /\ UNCHANGED <<style, worker, outcome, result, taken, waker, woken, token, got, active,
                 holders, disposer>>

(* Variant: only a client that comes last lets go of the keepalive.         *)
SlotDroppedByClient(c, other, thread) ==
  IF other /\ thread[1] = "client" THEN Drop({Keepalive(c)}, thread)
                                    ELSE UNCHANGED <<holders, disposer>>

(* The client drops its half of the slot, and the last half the keepalive.  *)
SlotDropped(c, other, thread) ==
  IF other THEN Drop({Keepalive(c)}, thread) ELSE UNCHANGED <<holders, disposer>>

WorkerLeft(c) == worker[c] \in {"leave", "return", "gone"}

DropHandle(c) ==
  /\ client[c] = "holding"
  /\ style[c] = "again" => got[c] = "taken"
  /\ Goto(c, "gone")
  /\ SlotDropped(c, WorkerLeft(c), <<"client", c>>)
  /\ UNCHANGED <<style, worker, outcome, result, taken, waker, woken, token, got, active>>

(* An executor drops a future that is still pending.                        *)
Abandon(c) ==
  /\ client[c] = "pending"
  /\ Goto(c, "gone")
  /\ SlotDropped(c, WorkerLeft(c), <<"client", c>>)
  /\ UNCHANGED <<style, worker, outcome, result, taken, waker, woken, token, got, active>>

-----------------------------------------------------------------------------
(* The worker.                                                              *)

At(c, here, there) == worker[c] = here /\ worker' = [worker EXCEPT ![c] = there]

(* The body begins with WorkerCountGuard::enter.                            *)
Enter(c) ==
  /\ At(c, "spawned", "running")
  /\ active' = active + 1
  /\ UNCHANGED <<style, client, outcome, result, taken, waker, woken, token, got, holders, disposer>>

(* Variant: no CompleteOnDrop, a panic only unwinds.                        *)
RunInternalUnguarded(c) ==
  /\ worker[c] = "running"
  /\ \E o \in Outcome :
       /\ outcome' = [outcome EXCEPT ![c] = o]
       /\ worker' = [worker EXCEPT ![c] = IF o = "panic" THEN "unwind" ELSE "publish"]
  /\ UNCHANGED <<style, client, result, taken, waker, woken, token, got, active, holders, disposer>>

(* run_internal returns or panics; complete() follows either way, in the    *)
(* body or in CompleteOnDrop.                                               *)
RunInternal(c) ==
  /\ At(c, "running", "publish")
  /\ \E o \in Outcome : outcome' = [outcome EXCEPT ![c] = o]
  /\ UNCHANGED <<style, client, result, taken, waker, woken, token, got, active, holders, disposer>>

(* Variant: complete() only signals the condition variable.                 *)
PublishNoWaker(c) ==
  /\ At(c, "publish", "notify")
  /\ result' = [result EXCEPT ![c] = outcome[c]]
  /\ woken' = [woken EXCEPT ![c] = FALSE]
  /\ UNCHANGED <<style, client, outcome, taken, waker, token, got, active, holders, disposer>>

(* complete(), up to the unlock.                                            *)
Publish(c) ==
  /\ At(c, "publish", "notify")
  /\ result' = [result EXCEPT ![c] = outcome[c]]
  /\ woken' = [woken EXCEPT ![c] = waker[c]]
  /\ waker' = [waker EXCEPT ![c] = FALSE]
  /\ UNCHANGED <<style, client, outcome, taken, token, got, active, holders, disposer>>

Notify(c) ==
  /\ At(c, "notify", "wake")
  /\ Goto(c, IF client[c] = "asleep" THEN "lock" ELSE client[c])
  /\ UNCHANGED <<style, outcome, result, taken, waker, woken, token, got, active, holders, disposer>>

Wake(c) ==
  /\ At(c, "wake", "unwind")
  /\ token' = [token EXCEPT ![c] = @ \/ woken[c]]
  /\ UNCHANGED <<style, client, outcome, result, taken, waker, woken, got, active, holders, disposer>>

(* The end of the body drops its locals, last declared first: the slot,     *)
(* then the count; what the closure captured goes after them.               *)
DropSlot(c) ==
  /\ At(c, "unwind", "leave")
  /\ SlotDropped(c, client[c] = "gone", <<"worker", c>>)
  /\ UNCHANGED <<style, client, outcome, result, taken, waker, woken, token, got, active>>

(* Variant: the count is given back by hand and by the guard.               *)
LeaveTwice(c) ==
  /\ At(c, "leave", "return")
  /\ active' = active - 2
  /\ UNCHANGED <<style, client, outcome, result, taken, waker, woken, token, got, holders, disposer>>

Leave(c) ==
  /\ At(c, "leave", "return")
  /\ active' = active - 1
  /\ UNCHANGED <<style, client, outcome, result, taken, waker, woken, token, got, holders, disposer>>

DropCaptures(c) ==
  /\ At(c, "return", "gone")
  /\ Drop({Self(c)}, <<"worker", c>>)
  /\ UNCHANGED <<style, client, outcome, result, taken, waker, woken, token, got, active>>

Client(c) == \/ Spin(c) \/ Wait(c) \/ Poll(c) \/ Park(c) \/ Unparked(c) \/ PollAgain(c)
             \/ DropHandle(c)
Worker(c) == \/ Enter(c) \/ RunInternal(c) \/ Publish(c) \/ Notify(c) \/ Wake(c)
             \/ DropSlot(c) \/ Leave(c) \/ DropCaptures(c)

Next == DropMain \/ \E c \in Call : \/ Spawn(c) \/ SpawnFails(c) \/ Abandon(c) \/ Spurious(c)
                                    \/ Client(c) \/ Worker(c)

(* Threads that can go on, do; nobody has to make a call, drop the session  *)
(* or wake up for no reason.                                                *)
Fairness == \A c \in Call : WF_vars(Client(c)) /\ WF_vars(Worker(c))

Spec == Init /\ [][Next]_vars /\ Fairness

-----------------------------------------------------------------------------
(* A sleeping client of a finished run has its wake-up coming: complete()   *)
(* cannot slip between a client's look at the slot and its sleep.           *)
NoLostWakeup ==
  \A c \in Call : result[c] # "none" =>
    /\ client[c] = "asleep" => worker[c] = "notify"
    /\ client[c] \in {"pending", "parked"} =>
         token[c] \/ (woken[c] /\ worker[c] \in {"notify", "wake"})

(* A client is handed what the run came to, once: after the first, "taken". *)
AnswerOnce ==
  [][\A c \in Call : client[c] # "holding" /\ client'[c] = "holding" =>
       IF got[c] = "none" THEN got'[c] = result[c] /\ got'[c] \in {outcome[c], "nospawn"}
                          ELSE got'[c] = "taken"]_vars

(* Whoever waits for a run is answered, also when the operator panics or no *)
(* thread can be had.                                                       *)
EveryWaiterAnswered ==
  \A c \in Call : client[c] \in {"spin", "lock", "poll"} ~> client[c] = "gone"

(* No leak: when the caller has let go of the session and of its handles,   *)
(* the session is destroyed.                                                *)
SessionReleased ==
  (Main \notin holders /\ \A c \in Call : client[c] = "gone") ~> disposer # Nobody
=============================================================================
