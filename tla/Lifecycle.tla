-------------------------------- MODULE Lifecycle --------------------------------
(***************************************************************************)
(* The life cycle of a Pipeline (onion_core/pipeline.py): startup, shutdown,  *)
(* add_middleware and add_middleware_async, called by concurrent tasks.       *)
(*                                                                            *)
(* startup and shutdown hold _lock while they await the hooks of the          *)
(* middlewares, in the order of the sorted list as it was when they began;    *)
(* add_middleware_async holds it while it registers, and awaits the startup   *)
(* of the new middleware outside of it.  Any of them can be cancelled.        *)
(***************************************************************************)
EXTENDS MiddlewareOrder

CONSTANTS
  Tasks,         \* tasks that call the operations, again and again
  Nobody,        \* not a task: the lock is free
  Registrable,   \* the middlewares that may be registered
  PriorityOf,    \* middleware -> number
  Providers,     \* the number of providers, the fallbacks included
  OwnsProvider   \* owns_provider

ASSUME LifecycleAssumption ==
  /\ Nobody \notin Tasks
  /\ PriorityOf \in [Registrable -> Nat]
  /\ Providers \in Nat \ {0}
  /\ OwnsProvider \in BOOLEAN

VARIABLES
  registered,  \* _middlewares, sorted by priority
  started,     \* _started
  lock,        \* the task that holds _lock
  tasks,       \* where each task is
  up,          \* the middlewares whose startup has returned and whose shutdown has not
  covered,     \* observer: the middlewares the last complete startup has started
  halted,      \* observer: a shutdown was cancelled since
  orphans      \* observer: middlewares of up that no shutdown is bound to stop

lifeVars == <<registered, started, lock, tasks, up, covered, halted, orphans>>

Operations == {"startup", "shutdown", "add"}
Holding == {"starting", "rolling_back", "stopping", "cleaning"}
TaskStages == {"idle", "waiting", "late_start"} \cup Holding

\* list, pos: the loop a task is in.
Idle == [op |-> "startup", stage |-> "idle", list |-> <<>>, pos |-> 1]

LifeInit == /\ registered = <<>>
            /\ started = FALSE
            /\ lock = Nobody
            /\ tasks = [t \in Tasks |-> Idle]
            /\ up = {} /\ covered = {} /\ halted = FALSE /\ orphans = {}

HookOf(t) == tasks[t].list[tasks[t].pos]
AtLast(t) == tasks[t].pos = Len(tasks[t].list)
Advance(t) == tasks' = [tasks EXCEPT ![t].pos = @ + 1]
Release(t) == lock' = Nobody /\ tasks' = [tasks EXCEPT ![t] = Idle]

-----------------------------------------------------------------------------
(* Registration *)

\* A middleware is registered once.
New(m) ==
  /\ m \notin Items(registered)
  /\ \A t \in Tasks : tasks[t].op = "add" /\ tasks[t].stage # "idle" => tasks[t].list # <<m>>

\* add_middleware: neither a lock nor a startup.
Register(m) ==
  /\ New(m)
  /\ registered' = Inserted(PriorityOf, registered, m)
  /\ UNCHANGED <<started, lock, tasks, up, covered, halted, orphans>>

CallAdd(t, m) ==
  /\ tasks[t].stage = "idle"
  /\ New(m)
  /\ tasks' = [tasks EXCEPT ![t] = [op |-> "add", stage |-> "waiting", list |-> <<m>>, pos |-> 1]]
  /\ UNCHANGED <<registered, started, lock, up, covered, halted, orphans>>

\* add_middleware_async: under the lock it registers; then, without a pause, it
\* reads _started.
AcquireToAdd(t) ==
  /\ tasks[t].stage = "waiting" /\ tasks[t].op = "add" /\ lock = Nobody
  /\ registered' = Inserted(PriorityOf, registered, HookOf(t))
  /\ tasks' = [tasks EXCEPT ![t] = IF started THEN [@ EXCEPT !.stage = "late_start"] ELSE Idle]
  /\ UNCHANGED <<started, lock, up, covered, halted, orphans>>

\* ... and the middleware starts, or fails to, while others may start or stop.
LateStart(t, ok) ==
  /\ tasks[t].stage = "late_start"
  /\ up' = IF ok THEN up \cup {HookOf(t)} ELSE up
  /\ orphans' = IF ok /\ (~started \/ lock # Nobody) THEN orphans \cup {HookOf(t)} ELSE orphans
  /\ tasks' = [tasks EXCEPT ![t] = Idle]
  /\ UNCHANGED <<registered, started, lock, covered, halted>>

-----------------------------------------------------------------------------
(* startup *)

Call(t, op) ==
  /\ tasks[t].stage = "idle"
  /\ tasks' = [tasks EXCEPT ![t].op = op, ![t].stage = "waiting"]
  /\ UNCHANGED <<registered, started, lock, up, covered, halted, orphans>>

Started(S) == started' = TRUE /\ covered' = S /\ halted' = FALSE

\* A second startup does nothing.
AcquireToStart(t) ==
  /\ tasks[t].stage = "waiting" /\ tasks[t].op = "startup" /\ lock = Nobody
  /\ IF started
     THEN Release(t) /\ UNCHANGED <<started, covered, halted>>
     ELSE IF registered = <<>>
     THEN Started({}) /\ Release(t)
     ELSE /\ lock' = t
          /\ tasks' = [tasks EXCEPT ![t].stage = "starting", ![t].list = registered, ![t].pos = 1]
          /\ UNCHANGED <<started, covered, halted>>
  /\ UNCHANGED <<registered, up, orphans>>

\* The startup of a middleware returns.
Starts(t) ==
  LET list == tasks[t].list IN
  /\ tasks[t].stage = "starting"
  /\ up' = up \cup {HookOf(t)}
  /\ IF AtLast(t) THEN Started(Items(list)) /\ Release(t)
     ELSE Advance(t) /\ UNCHANGED <<started, covered, halted, lock>>
  /\ UNCHANGED <<registered, orphans>>

\* Mutant: those started before it are left running.
StartFails_NoRollback(t) ==
  /\ tasks[t].stage = "starting"
  /\ Release(t)
  /\ UNCHANGED <<registered, started, up, covered, halted, orphans>>

\* Mutant: the failure is taken for a start.
StartFails_Skipped(t) ==
  LET list == tasks[t].list IN
  /\ tasks[t].stage = "starting"
  /\ IF AtLast(t) THEN Started(Items(list)) /\ Release(t)
     ELSE Advance(t) /\ UNCHANGED <<started, covered, halted, lock>>
  /\ UNCHANGED <<registered, up, orphans>>

\* Mutant: the lock is not released.
StartFails_KeepsLock(t) ==
  /\ tasks[t].stage = "starting"
  /\ tasks' = [tasks EXCEPT ![t] = Idle]
  /\ UNCHANGED <<registered, started, lock, up, covered, halted, orphans>>

\* It raises: those started before it are shut down in reverse order.
StartFails(t) ==
  LET before == SubSeq(tasks[t].list, 1, tasks[t].pos - 1) IN
  /\ tasks[t].stage = "starting"
  /\ IF before = <<>> THEN Release(t)
     ELSE /\ tasks' = [tasks EXCEPT ![t].stage = "rolling_back", ![t].list = Reversed(before), ![t].pos = 1]
          /\ UNCHANGED lock
  /\ UNCHANGED <<registered, started, up, covered, halted, orphans>>

\* The shutdown of one of them returns or raises.
RollsBack(t) ==
  /\ tasks[t].stage = "rolling_back"
  /\ up' = up \ {HookOf(t)} /\ orphans' = orphans \ {HookOf(t)}
  /\ IF AtLast(t) THEN Release(t) ELSE Advance(t) /\ UNCHANGED lock
  /\ UNCHANGED <<registered, started, covered, halted>>

-----------------------------------------------------------------------------
(* shutdown *)

Stopped(t) == started' = FALSE /\ Release(t)

\* What follows the middlewares: the providers, if the pipeline owns them.
CleanUpOrStop(t) ==
  IF OwnsProvider
  THEN /\ tasks' = [tasks EXCEPT ![t].stage = "cleaning", ![t].list = <<>>, ![t].pos = 1]
       /\ lock' = t
       /\ UNCHANGED started
  ELSE Stopped(t)

AcquireToStop(t) ==
  /\ tasks[t].stage = "waiting" /\ tasks[t].op = "shutdown" /\ lock = Nobody
  /\ IF ~started THEN Release(t) /\ UNCHANGED started
     ELSE IF registered = <<>> THEN CleanUpOrStop(t)
     ELSE /\ lock' = t
          /\ tasks' = [tasks EXCEPT ![t].stage = "stopping", ![t].list = Reversed(registered), ![t].pos = 1]
          /\ UNCHANGED started
  /\ UNCHANGED <<registered, up, covered, halted, orphans>>

\* The shutdown of a middleware returns, or raises, which is collected.
Stops(t) ==
  /\ tasks[t].stage = "stopping"
  /\ up' = up \ {HookOf(t)} /\ orphans' = orphans \ {HookOf(t)}
  /\ IF AtLast(t) THEN CleanUpOrStop(t) ELSE Advance(t) /\ UNCHANGED <<started, lock>>
  /\ UNCHANGED <<registered, covered, halted>>

\* cleanup of a provider returns or raises.
CleansUp(t) ==
  /\ tasks[t].stage = "cleaning"
  /\ IF tasks[t].pos = Providers THEN Stopped(t) ELSE Advance(t) /\ UNCHANGED <<started, lock>>
  /\ UNCHANGED <<registered, up, covered, halted, orphans>>

-----------------------------------------------------------------------------
\* CancelledError is no Exception: nothing is rolled back, only the lock is released.
Interrupt(t) ==
  /\ tasks[t].stage # "idle"
  /\ tasks' = [tasks EXCEPT ![t] = Idle]
  /\ lock' = IF lock = t THEN Nobody ELSE lock
  /\ halted' = (halted \/ tasks[t].stage \in {"stopping", "cleaning"})
  /\ orphans' = IF tasks[t].stage \in {"starting", "rolling_back"}
                THEN orphans \cup up ELSE orphans
  /\ UNCHANGED <<registered, started, up, covered>>

Step(t) ==
  \/ AcquireToAdd(t) \/ AcquireToStart(t) \/ AcquireToStop(t)
  \/ \E ok \in BOOLEAN : LateStart(t, ok)
  \/ Starts(t) \/ StartFails(t) \/ RollsBack(t) \/ Stops(t) \/ CleansUp(t)

LifeNext ==
  \/ \E m \in Registrable : Register(m)
  \/ \E t \in Tasks :
       \/ \E m \in Registrable : CallAdd(t, m)
       \/ \E op \in {"startup", "shutdown"} : Call(t, op)
       \/ Step(t) \/ Interrupt(t)

LifeSpec == LifeInit /\ [][LifeNext]_lifeVars

\* Hooks return or raise, and asyncio.Lock is fair to those that wait for it.
LifeFairSpec == LifeSpec /\ \A t \in Tasks : SF_lifeVars(Step(t))

-----------------------------------------------------------------------------
(* Properties *)

\* The state is the one the tasks, the lock and the middlewares can be in.
LifeTypeOK ==
  /\ registered \in Seq(Registrable) /\ up \subseteq Registrable
  /\ covered \subseteq Registrable /\ orphans \subseteq Registrable
  /\ started \in BOOLEAN /\ halted \in BOOLEAN
  /\ lock \in Tasks \cup {Nobody}
  /\ tasks \in [Tasks -> [op : Operations, stage : TaskStages, list : Seq(Registrable), pos : Nat \ {0}]]

\* The task in a loop over hooks holds the lock, and nobody else does.
LockHeld == \A t \in Tasks : tasks[t].stage \in Holding <=> lock = t

\* startup: while the pipeline is started and at rest, every middleware that the
\* startup covered is up, unless a shutdown was cancelled half-way.
ReadyWhenStarted == started /\ lock = Nobody /\ ~halted => covered \subseteq up

\* startup and shutdown: when the pipeline is stopped and at rest, no middleware
\* is up, whatever failed, but for those a cancelled startup has left behind and
\* those whose own late start overlapped another operation.
NothingLeftRunning == ~started /\ lock = Nobody => up \subseteq orphans

\* Every operation comes to its end: the lock is released on all paths.
OperationsEnd == \A t \in Tasks : tasks[t].stage # "idle" ~> tasks[t].stage = "idle"
=============================================================================
