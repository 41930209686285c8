------------------------------ MODULE GpuOwner ------------------------------
(***************************************************************************)
(* The GPU owner thread: every GpuContext is created and destroyed by one  *)
(* background thread, reached through a rendezvous channel, and an atexit  *)
(* hook waits for round trips in flight before the driver is unloaded.     *)
(* A user is a session with a context; its place is that of the thread     *)
(* that builds it and, later, of the thread that drops it.                 *)
(***************************************************************************)
EXTENDS Naturals, FiniteSets

CONSTANTS User, Nobody

ASSUME NobodyAssumption == Nobody \notin User /\ IsFiniteSet(User)

VARIABLES place,       \* place[u]: where u's thread is in create or dispose
          op,          \* op[u]: "create", then "destroy"
          creator,     \* creator[u]: the thread that made u's context
          destroyer,   \* destroyer[u]: the thread that destroyed it
          owner,       \* the owner thread
          serving,     \* whose request it has received
          inFlight,    \* IN_FLIGHT
          registered,  \* the atexit hook is registered
          exit,        \* how far process exit has got
          expired,     \* the hook's five seconds have passed
          late         \* history: who entered since the hook's last look

vars == <<place, op, creator, destroyer, owner, serving, inFlight, registered, exit, expired,
          late>>
requests == <<place, op, inFlight, late>>
contexts == <<creator, destroyer>>
thread == <<owner, serving>>
ending == <<exit, expired>>

TypeOK ==
  /\ place \in [User -> {"idle", "sending", "waiting", "replied", "holding", "done"}]
  /\ op \in [User -> {"create", "destroy"}]
  /\ creator \in [User -> {"none", "owner", "caller"}]
  /\ destroyer \in [User -> {"none", "owner", "caller"}]
  /\ owner \in {"unstarted", "idle", "serving", "made", "hooked", "destroyed", "dead"}
  /\ serving \in User \cup {Nobody}
  /\ inFlight \in Nat
  /\ registered \in BOOLEAN
  /\ exit \in {"running", "loud", "debounce", "sampled", "quiet", "timeout", "unhooked"}
  /\ expired \in BOOLEAN
  /\ late \subseteq User

Init ==
  /\ place = [u \in User |-> "idle"]
  /\ op = [u \in User |-> "create"]
  /\ creator = [u \in User |-> "none"]
  /\ destroyer = [u \in User |-> "none"]
  /\ owner = "unstarted"
  /\ serving = Nobody
  /\ inFlight = 0
  /\ registered = FALSE
  /\ exit = "running"
  /\ expired = FALSE
  /\ late = {}

Move(u, from, to) == place[u] = from /\ place' = [place EXCEPT ![u] = to]

-----------------------------------------------------------------------------
(* Callers.                                                                 *)

(* create and dispose begin by InFlightGuard::enter.                        *)
Enter(u) ==
  /\ inFlight' = inFlight + 1
  /\ late' = late \cup {u}
  /\ UNCHANGED <<contexts, thread, registered, ending>>

Create(u) == Move(u, "idle", "sending") /\ op' = op /\ Enter(u)

Dispose(u) ==
  /\ Move(u, "holding", "sending")
  /\ op' = [op EXCEPT ![u] = "destroy"]
  /\ Enter(u)

(* The first sender() spawns the owner thread, or fails to.                 *)
SpawnOwner ==
  /\ owner = "unstarted"
  /\ \E u \in User : place[u] = "sending"
  /\ owner' \in {"idle", "dead"}
  /\ UNCHANGED <<requests, contexts, serving, registered, ending>>

(* Variant: contexts are created where they are asked for.                  *)
DisconnectedForCreate(u) == owner = "dead" \/ op[u] = "create"

(* send fails at once when the receiving half of the channel is gone.       *)
Disconnected(u) == owner = "dead"

(* The fallback of a failed send: the caller builds or drops in place.      *)
InPlace(u) ==
  /\ Disconnected(u)
  /\ Move(u, "sending", "replied")
  /\ IF op[u] = "create"
       THEN creator' \in {creator, [creator EXCEPT ![u] = "caller"]} /\ UNCHANGED destroyer
       ELSE destroyer' = [destroyer EXCEPT ![u] = "caller"] /\ UNCHANGED creator
  /\ UNCHANGED <<op, inFlight, late, thread, registered, ending>>

(* Variants: the guard is dropped by the early return and by the caller; it *)
(* is forgotten when the round trip brought no context.                     *)
LeaveTwice(u) ==
  /\ place[u] = "replied"
  /\ place' = [place EXCEPT ![u] = IF op[u] = "create" /\ creator[u] # "none"
                                     THEN "holding" ELSE "done"]
  /\ inFlight' = inFlight - (IF creator[u] = "none" THEN 2 ELSE 1)
  /\ UNCHANGED <<op, late, contexts, thread, registered, ending>>

LeaveWithContext(u) ==
  /\ place[u] = "replied"
  /\ place' = [place EXCEPT ![u] = IF op[u] = "create" /\ creator[u] # "none"
                                     THEN "holding" ELSE "done"]
  /\ inFlight' = IF creator[u] = "none" THEN inFlight ELSE inFlight - 1
  /\ UNCHANGED <<op, late, contexts, thread, registered, ending>>

(* recv returns, and the guard goes.                                        *)
Leave(u) ==
  /\ place[u] = "replied"
  /\ place' = [place EXCEPT ![u] = IF op[u] = "create" /\ creator[u] # "none"
                                     THEN "holding" ELSE "done"]
  /\ inFlight' = inFlight - 1
  /\ UNCHANGED <<op, late, contexts, thread, registered, ending>>

-----------------------------------------------------------------------------
(* The owner thread.                                                        *)

(* Variant: a disposal is acknowledged as soon as it is received.           *)
ReceiveAcked(u) ==
  /\ owner = "idle"
  /\ Move(u, "sending", IF op[u] = "destroy" THEN "replied" ELSE "waiting")
  /\ owner' = "serving"
  /\ serving' = u
  /\ UNCHANGED <<op, inFlight, late, contexts, registered, ending>>

Receive(u) ==
  /\ owner = "idle"
  /\ Move(u, "sending", "waiting")
  /\ owner' = "serving"
  /\ serving' = u
  /\ UNCHANGED <<op, inFlight, late, contexts, registered, ending>>

(* GpuContext::try_new, which may find no adapter.                          *)
TryNew ==
  /\ owner = "serving" /\ op[serving] = "create"
  /\ owner' = "made"
  /\ creator' \in {creator, [creator EXCEPT ![serving] = "owner"]}
  /\ UNCHANGED <<requests, destroyer, serving, registered, ending>>

(* Variant: the hook is left for a process that drops contexts.             *)
RegisterHookLater ==
  /\ owner = "made"
  /\ owner' = "hooked"
  /\ registered' = (registered \/ \E u \in User : op[u] = "destroy")
  /\ UNCHANGED <<requests, contexts, serving, ending>>

(* ensure_atexit_hook_registered.                                           *)
RegisterHook ==
  /\ owner = "made"
  /\ owner' = "hooked"
  /\ registered' = TRUE
  /\ UNCHANGED <<requests, contexts, serving, ending>>

Destroy ==
  /\ owner = "serving" /\ op[serving] = "destroy"
  /\ owner' = "destroyed"
  /\ destroyer' = [destroyer EXCEPT ![serving] = "owner"]
  /\ UNCHANGED <<requests, creator, serving, registered, ending>>

Reply ==
  /\ owner \in {"hooked", "destroyed"}
  /\ owner' = "idle"
  /\ serving' = Nobody
  /\ place' = [place EXCEPT ![serving] = "replied"]
  /\ UNCHANGED <<op, inFlight, late, contexts, registered, ending>>

(* Variant: the caller of a panicking round trip hears nothing.             *)
PanicSilent ==
  /\ owner = "serving"
  /\ owner' = "dead"
  /\ serving' = Nobody
  /\ UNCHANGED <<place, contexts, op, inFlight, late, registered, ending>>

(* The driver panics: the thread unwinds, dropping the context it had been  *)
(* given, the sender of the reply, and the receiver of the channel.         *)
Panic ==
  /\ owner = "serving"
  /\ owner' = "dead"
  /\ serving' = Nobody
  /\ place' = [place EXCEPT ![serving] = "replied"]
  /\ destroyer' = [destroyer EXCEPT ![serving] = IF op[serving] = "destroy" THEN "owner" ELSE @]
  /\ UNCHANGED <<op, inFlight, late, creator, registered, ending>>

-----------------------------------------------------------------------------
(* Process exit, with or without a hook to run.                             *)
Exit ==
  /\ exit = "running"
  /\ exit' = IF registered THEN "loud" ELSE "unhooked"
  /\ UNCHANGED <<requests, contexts, thread, registered, expired>>

(* Variant: async workers are all that can have something pending.          *)
PendingWorkers(workersIdle) == ~workersIdle

(* ~nothing_pending: an async worker is active, whatever it does, or a      *)
(* round trip is in flight.                                                 *)
Pending(workersIdle) == inFlight # 0 \/ ~workersIdle

(* One look at nothing_pending.  The first quiet one begins the debounce    *)
(* window, which at least one more is made in; a loud one ends it.          *)
Look ==
  /\ exit \in {"loud", "debounce", "sampled"}
  /\ exit = "loud" => ~expired
  /\ \E workersIdle \in BOOLEAN :
       exit' = IF Pending(workersIdle) THEN "loud"
               ELSE IF exit = "loud" THEN "debounce" ELSE "sampled"
  /\ late' = {}
  /\ UNCHANGED <<place, op, inFlight, contexts, thread, registered, expired>>

DebounceOver ==
  /\ exit = "sampled"
  /\ exit' = "quiet"
  /\ UNCHANGED <<requests, contexts, thread, registered, expired>>

(* Five seconds pass.                                                       *)
Expire ==
  /\ exit \in {"loud", "debounce", "sampled"} /\ ~expired
  /\ expired' = TRUE
  /\ UNCHANGED <<requests, contexts, thread, registered, exit>>

(* Variant: the deadline is looked at in the debounce window.               *)
GiveUpDebouncing ==
  /\ exit = "debounce" /\ expired
  /\ exit' = "timeout"
  /\ UNCHANGED <<requests, contexts, thread, registered, expired>>

(* The deadline is looked at outside the debounce window.                   *)
GiveUp ==
  /\ exit = "loud" /\ expired
  /\ exit' = "timeout"
  /\ UNCHANGED <<requests, contexts, thread, registered, expired>>

Caller(u) == InPlace(u) \/ Leave(u)
Owner == SpawnOwner \/ TryNew \/ RegisterHook \/ Destroy \/ Reply \/ \E u \in User : Receive(u)
Hook == Look \/ DebounceOver \/ GiveUp

Next ==
  \/ \E u \in User : Create(u) \/ Dispose(u) \/ Caller(u)
  \/ Owner \/ Panic
  \/ Exit \/ Hook \/ Expire

(* Threads run, and five seconds pass.  Nobody has to build or drop a       *)
(* session, or to exit.                                                     *)
Fairness == /\ \A u \in User : WF_vars(Caller(u))
            /\ WF_vars(Owner) /\ WF_vars(Hook) /\ WF_vars(Expire)

Spec == Init /\ [][Next]_vars /\ Fairness

-----------------------------------------------------------------------------
InFlight == {u \in User : place[u] \in {"sending", "waiting", "replied"}}

(* The count the hook reads is exact, whatever fails, panics or falls back: *)
(* one too many hangs exit, one too few lets it race a teardown.            *)
InFlightExact == inFlight = Cardinality(InFlight)

(* While the owner thread lives it makes and destroys every context.        *)
SameThread ==
  owner # "dead" => \A u \in User : creator[u] # "caller" /\ destroyer[u] # "caller"

(* Dropping a session returns after its context is gone, not before.        *)
DropIsSynchronous ==
  \A u \in User : place[u] = "done" /\ creator[u] # "none" => destroyer[u] # "none"

(* A context's life begins and ends on one thread, inside the calls that    *)
(* asked for it.                                                            *)
ContextsOwned == SameThread /\ DropIsSynchronous

(* Whoever holds a context the owner made can rely on the exit hook.        *)
HookCoversContexts ==
  \A u \in User : place[u] = "holding" /\ creator[u] = "owner" => registered

(* The hook does not let exit race a round trip it could have seen: when it *)
(* leaves because it is quiet, what is in flight began after its last look. *)
RoundTripsWaitedFor == exit = "quiet" => InFlight \subseteq late

(* Exit does not race the driver: the hook is there and waits long enough.  *)
ExitGuarded == HookCoversContexts /\ RoundTripsWaitedFor

(* Every round trip ends, also when the owner cannot be spawned or dies.    *)
RoundTripsEnd == \A u \in User : place[u] = "sending" ~> place[u] \in {"holding", "done"}

(* The hook lets the process go, however long async workers stay active.    *)
HookReturns == exit = "loud" ~> exit \in {"quiet", "timeout"}

(* Nobody waits for ever, neither a session nor the exiting thread.         *)
NobodyHangs == RoundTripsEnd /\ HookReturns
=============================================================================
