--------------------------- MODULE Lifecycle_proofs ---------------------------
(***************************************************************************)
(* Proofs about Lifecycle, for any number of tasks, middlewares and           *)
(* providers, whoever owns the providers; and about StreamSync, for any       *)
(* number of chunks.                                                          *)
(***************************************************************************)
EXTENDS Lifecycle, StreamSync, MiddlewareChain_proofs

Task == [op : Operations, stage : TaskStages, list : Seq(Registrable), pos : Nat \ {0}]

\* The middlewares of a list before position n, and from position n on.
Before(s, n) == {s[i] : i \in {j \in 1..Len(s) : j < n}}
From(s, n) == {s[i] : i \in {j \in 1..Len(s) : n <= j}}

\* The stages with a loop over middlewares.
Walking == {"starting", "rolling_back", "stopping"}

\* A task that walks a list is somewhere in it, and the list is of registered
\* middlewares; so is the middleware that is about to start late.
OnCourse(q, here) ==
  /\ q.stage \in Walking => q.pos <= Len(q.list) /\ Items(q.list) \subseteq here
  /\ q.stage = "waiting" /\ q.op = "add" => q.list # <<>> /\ q.pos = 1
  /\ q.stage = "late_start" => q.list # <<>> /\ q.pos = 1 /\ q.list[1] \in here

\* What is up, and may be, while nobody holds the lock ...
Resting ==
  /\ started /\ ~halted => covered \subseteq up
  /\ IF started THEN up \subseteq orphans \cup Items(registered) ELSE up \subseteq orphans

\* ... and while the task with the variables q does.
Held(q, st, u, o) ==
  /\ q.stage \in {"starting", "rolling_back"} <=> ~st
  /\ q.stage = "starting" => Before(q.list, q.pos) \subseteq u /\ u \subseteq o \cup Before(q.list, q.pos)
  /\ q.stage \in {"rolling_back", "stopping"} => u \subseteq o \cup From(q.list, q.pos)
  /\ q.stage = "cleaning" => u \subseteq o

LifeIInv ==
  /\ LifeTypeOK
  /\ LockHeld
  /\ \A t \in Tasks : OnCourse(tasks[t], Items(registered))
  /\ lock = Nobody => Resting
  /\ \A t \in Tasks : lock = t => Held(tasks[t], started, up, orphans)

-----------------------------------------------------------------------------
(* Positions in a list *)

LEMMA NextPosition ==
  ASSUME NEW M, NEW s \in Seq(M), NEW n \in 1..Len(s)
  PROVE  /\ Before(s, n + 1) = Before(s, n) \cup {s[n]}
         /\ From(s, n) = From(s, n + 1) \cup {s[n]}
<1>1. Len(s) \in Nat
  OBVIOUS
<1>2. \A j \in 1..Len(s) : (j < n + 1 <=> j < n \/ j = n) /\ (n <= j <=> n + 1 <= j \/ j = n)
  BY <1>1
<1>3. Before(s, n + 1) = Before(s, n) \cup {s[n]}
  BY <1>2 DEF Before
<1>4. From(s, n) = From(s, n + 1) \cup {s[n]}
  BY <1>2 DEF From
<1> QED BY <1>3, <1>4

LEMMA EndPositions ==
  ASSUME NEW M, NEW s \in Seq(M)
  PROVE  /\ Before(s, 1) = {} /\ From(s, 1) = Items(s)
         /\ Before(s, Len(s) + 1) = Items(s) /\ From(s, Len(s) + 1) = {}
<1>1. Len(s) \in Nat
  OBVIOUS
<1> QED BY <1>1 DEF Before, From, Items

LEMMA PrefixItems ==
  ASSUME NEW M, NEW s \in Seq(M), NEW n \in 1..Len(s)
  PROVE  /\ SubSeq(s, 1, n - 1) \in Seq(M)
         /\ Items(SubSeq(s, 1, n - 1)) = Before(s, n)
<1> DEFINE a == SubSeq(s, 1, n - 1)
<1>1. Len(s) \in Nat /\ n - 1 \in 0..Len(s) /\ \A i \in 1..Len(s) : s[i] \in M
  OBVIOUS
<1>2. a \in Seq(M) /\ Len(a) = n - 1 /\ \A i \in 1..n - 1 : a[i] = s[i]
  BY <1>1, SubSeqProperties
<1> HIDE DEF a
<1>3. \A j \in 1..Len(s) : j < n <=> j \in 1..n - 1
  BY <1>1
<1>4. \A j \in 1..n - 1 : j \in 1..Len(s)
  BY <1>1
<1>5. Items(a) = Before(s, n)
  BY <1>2, <1>3, <1>4 DEF Items, Before
<1> QED BY <1>2, <1>5 DEF a

-----------------------------------------------------------------------------
(* One task *)

LEMMA LifeInitially ==
  ASSUME LifeInit
  PROVE  LifeIInv
<1>1. Idle \in Task
  BY DEF Idle, Task, Operations, TaskStages
<1>2. LifeTypeOK
  <2>1. tasks \in [Tasks -> Task]
    BY <1>1 DEF LifeInit
  <2>2. registered \in Seq(Registrable) /\ lock \in Tasks \cup {Nobody}
    BY DEF LifeInit
  <2>3. /\ up \subseteq Registrable /\ covered \subseteq Registrable /\ orphans \subseteq Registrable
        /\ started \in BOOLEAN /\ halted \in BOOLEAN
    BY DEF LifeInit
  <2> QED BY <2>1, <2>2, <2>3 DEF LifeTypeOK, Task
<1>3. LockHeld
  BY LifecycleAssumption DEF LifeInit, LockHeld, Idle, Holding
<1>4. \A t \in Tasks : OnCourse(tasks[t], Items(registered))
  BY DEF LifeInit, Idle, OnCourse, Walking
<1>5. Resting
  BY DEF LifeInit, Resting
<1> QED BY <1>2, <1>3, <1>4, <1>5, LifecycleAssumption DEF LifeInit, LifeIInv

\* A step of task t leaves the variables of the others as they are.
LEMMA LifeStepOf ==
  ASSUME LifeIInv, NEW t \in Tasks, NEW q \in Task,
         tasks' = [tasks EXCEPT ![t] = q],
         registered' \in Seq(Registrable), Items(registered) \subseteq Items(registered'),
         up' \subseteq Registrable, covered' \subseteq Registrable, orphans' \subseteq Registrable,
         started' \in BOOLEAN, halted' \in BOOLEAN,
         q.stage \in Holding <=> lock' = t,
         lock' = lock \/ {lock, lock'} = {t, Nobody},
         OnCourse(q, Items(registered')),
         lock' = Nobody => Resting',
         lock' = t => Held(q, started', up', orphans'),
         \A u \in Tasks : u # t /\ lock' = u => Held(tasks[u], started', up', orphans')
  PROVE  LifeIInv'
<1>1. lock \in Tasks \cup {Nobody} /\ tasks \in [Tasks -> Task] /\ LockHeld /\ Nobody \notin Tasks
  BY LifecycleAssumption DEF LifeIInv, LifeTypeOK, Task
<1>2. tasks'[t] = q /\ \A u \in Tasks : u # t => tasks'[u] = tasks[u]
  BY <1>1
<1>3. LifeTypeOK'
  BY <1>1 DEF LifeTypeOK, Task
<1>4. LockHeld'
  BY <1>1, <1>2 DEF LockHeld
<1>5. \A u \in Tasks : OnCourse(tasks'[u], Items(registered'))
  BY <1>2 DEF LifeIInv, OnCourse
<1>6. Items(registered)' = Items(registered')
  BY DEF Items
<1>7. \A u \in Tasks : lock' = u => Held(tasks'[u], started', up', orphans')
  BY <1>2
<1> QED BY <1>3, <1>4, <1>5, <1>6, <1>7 DEF LifeIInv

\* What is known before a step of t.
LEMMA OfTask ==
  ASSUME LifeIInv, NEW t \in Tasks
  PROVE  /\ tasks[t] \in Task /\ Idle \in Task
         /\ registered \in Seq(Registrable) /\ up \subseteq Registrable
         /\ covered \subseteq Registrable /\ orphans \subseteq Registrable
         /\ started \in BOOLEAN /\ halted \in BOOLEAN
         /\ OnCourse(tasks[t], Items(registered)) /\ OnCourse(Idle, Items(registered))
         /\ tasks[t].stage \in Holding <=> lock = t
         /\ lock = t => Held(tasks[t], started, up, orphans)
         /\ lock = Nobody => Resting
         /\ \A u \in Tasks : u # t /\ lock = u => Held(tasks[u], started, up, orphans)
<1>1. Idle \in Task
  BY DEF Idle, Task, Operations, TaskStages
<1>2. tasks[t] \in Task
  BY DEF LifeIInv, LifeTypeOK, Task
<1>3. OnCourse(Idle, Items(registered))
  BY DEF OnCourse, Idle, Walking
<1> QED BY <1>1, <1>2, <1>3 DEF LifeIInv, LifeTypeOK, LockHeld

\* ... and of one that walks a list.
LEMMA OfWalker ==
  ASSUME LifeIInv, NEW t \in Tasks, tasks[t].stage \in Walking
  PROVE  /\ lock = t /\ Held(tasks[t], started, up, orphans)
         /\ tasks[t].list \in Seq(Registrable) /\ tasks[t].pos \in 1..Len(tasks[t].list)
         /\ Items(tasks[t].list) \subseteq Items(registered)
         /\ Items(tasks[t].list) \subseteq Registrable
         /\ HookOf(t) = tasks[t].list[tasks[t].pos]
         /\ HookOf(t) \in Registrable
<1>1. tasks[t] \in Task /\ OnCourse(tasks[t], Items(registered))
      /\ lock = t /\ Held(tasks[t], started, up, orphans)
  BY OfTask DEF Holding, Walking
<1>2. tasks[t].list \in Seq(Registrable) /\ tasks[t].pos \in Nat \ {0}
  BY <1>1 DEF Task
<1>3. tasks[t].pos \in 1..Len(tasks[t].list)
  BY <1>1, <1>2 DEF OnCourse
<1>4. \A i \in 1..Len(tasks[t].list) : tasks[t].list[i] \in Registrable
  BY <1>2
<1>5. Items(tasks[t].list) \subseteq Registrable
  BY <1>4 DEF Items
<1> QED BY <1>1, <1>2, <1>3, <1>4, <1>5 DEF OnCourse, HookOf

\* The list of a task that walks on.
LEMMA Advanced ==
  ASSUME LifeIInv, NEW t \in Tasks, tasks[t].stage \in Walking, ~AtLast(t)
  PROVE  LET q == [tasks[t] EXCEPT !.pos = @ + 1] IN
         /\ q \in Task /\ q.stage = tasks[t].stage /\ q.list = tasks[t].list
         /\ q.pos = tasks[t].pos + 1
         /\ OnCourse(q, Items(registered))
<1> DEFINE q == [tasks[t] EXCEPT !.pos = @ + 1]
<1>1. tasks[t] \in Task /\ OnCourse(tasks[t], Items(registered))
  BY OfTask
<1>2. tasks[t].pos \in 1..Len(tasks[t].list) /\ tasks[t].list \in Seq(Registrable)
      /\ tasks[t].pos # Len(tasks[t].list)
  BY OfWalker DEF AtLast
<1>3. tasks[t].pos + 1 \in Nat \ {0} /\ tasks[t].pos + 1 <= Len(tasks[t].list)
  BY <1>2
<1>4. q \in Task /\ q.stage = tasks[t].stage /\ q.list = tasks[t].list /\ q.pos = tasks[t].pos + 1
      /\ q.op = tasks[t].op
  BY <1>1, <1>3 DEF Task
<1> HIDE DEF q
<1>5. OnCourse(q, Items(registered))
  BY <1>1, <1>3, <1>4 DEF OnCourse, Walking
<1> QED BY <1>4, <1>5 DEF q

-----------------------------------------------------------------------------
(* One lemma per operation *)

LEMMA AddMiddlewareStep ==
  ASSUME LifeIInv, NEW m \in Registrable, Register(m)
  PROVE  LifeIInv'
<1>1. registered \in Seq(Registrable) /\ registered' = Inserted(PriorityOf, registered, m)
      /\ UNCHANGED <<started, lock, tasks, up, covered, halted, orphans>>
  BY DEF Register, LifeIInv, LifeTypeOK
<1>2. registered' \in Seq(Registrable) /\ Items(registered) \subseteq Items(registered')
  BY <1>1, InsertedFacts, LifecycleAssumption
<1>3. LifeTypeOK' /\ LockHeld'
  BY <1>1, <1>2 DEF LifeIInv, LifeTypeOK, LockHeld
<1>4. \A t \in Tasks : OnCourse(tasks[t], Items(registered'))
  BY <1>2 DEF LifeIInv, OnCourse
<1>5. Items(registered)' = Items(registered')
  BY DEF Items
<1>6. lock = Nobody => Resting'
  BY <1>1, <1>2, <1>5 DEF LifeIInv, Resting
<1> QED BY <1>1, <1>3, <1>4, <1>5, <1>6 DEF LifeIInv

\* A call waits for the lock.
LEMMA CallStep ==
  ASSUME LifeIInv, NEW t \in Tasks,
         (\E m \in Registrable : CallAdd(t, m)) \/ (\E op \in {"startup", "shutdown"} : Call(t, op))
  PROVE  LifeIInv'
<1>1. PICK q \in Task : /\ tasks' = [tasks EXCEPT ![t] = q] /\ q.stage = "waiting"
                        /\ q.op = "add" => q.list # <<>> /\ q.pos = 1
  <2>1. CASE \E m \in Registrable : CallAdd(t, m)
    <3>1. PICK m \in Registrable : CallAdd(t, m)
      BY <2>1
    <3> DEFINE q == [op |-> "add", stage |-> "waiting", list |-> <<m>>, pos |-> 1]
    <3>2. q \in Task /\ q.list # <<>>
      BY DEF Task, Operations, TaskStages
    <3> QED BY <3>1, <3>2 DEF CallAdd
  <2>2. CASE \E op \in {"startup", "shutdown"} : Call(t, op)
    <3>1. PICK op \in {"startup", "shutdown"} : Call(t, op)
      BY <2>2
    <3> DEFINE q == [tasks[t] EXCEPT !.op = op, !.stage = "waiting"]
    <3>2. q \in Task /\ q.op = op /\ q.stage = "waiting"
      BY OfTask DEF Task, Operations, TaskStages
    <3>3. tasks' = [tasks EXCEPT ![t] = q]
      BY <3>1 DEF Call, LifeIInv, LifeTypeOK
    <3> QED BY <3>2, <3>3
  <2> QED BY <2>1, <2>2
<1>2. tasks[t].stage = "idle"
      /\ UNCHANGED <<registered, started, lock, up, covered, halted, orphans>>
  BY DEF CallAdd, Call
<1>3. lock # t /\ (lock = Nobody => Resting')
  BY <1>2, OfTask, ZenonT(60) DEF Holding, Resting, Items
<1>4. OnCourse(q, Items(registered)) /\ q.stage \notin Holding
  BY <1>1 DEF OnCourse, Walking, Holding
<1> QED BY <1>1, <1>2, <1>3, <1>4, OfTask, LifeStepOf

\* It registers its middleware, and may have to start it.
LEMMA AcquireToAddStep ==
  ASSUME LifeIInv, NEW t \in Tasks, AcquireToAdd(t)
  PROVE  LifeIInv'
<1> DEFINE q == IF started THEN [tasks[t] EXCEPT !.stage = "late_start"] ELSE Idle
<1>1. /\ tasks[t].stage = "waiting" /\ lock = Nobody /\ lock' = Nobody
      /\ registered' = Inserted(PriorityOf, registered, HookOf(t))
      /\ tasks' = [tasks EXCEPT ![t] = q]
      /\ UNCHANGED <<started, lock, up, covered, halted, orphans>>
  BY DEF AcquireToAdd, LifeIInv, LifeTypeOK
<1>2. tasks[t] \in Task /\ tasks[t].list # <<>> /\ tasks[t].pos = 1
  BY OfTask DEF AcquireToAdd, OnCourse
<1>3. HookOf(t) = tasks[t].list[1] /\ HookOf(t) \in Registrable
  <2>1. tasks[t].list \in Seq(Registrable) /\ tasks[t].list # <<>>
    BY <1>2 DEF Task
  <2> QED BY <1>2, <2>1 DEF HookOf
<1>4. registered' \in Seq(Registrable) /\ Items(registered) \cup {HookOf(t)} \subseteq Items(registered')
  BY <1>1, <1>3, OfTask, InsertedFacts, LifecycleAssumption
<1>5. /\ q \in Task /\ q.stage \in {"late_start", "idle"}
      /\ q.stage = "late_start" => q.list = tasks[t].list /\ q.pos = tasks[t].pos
  <2>1. CASE started
    BY <1>2, <2>1 DEF Task, TaskStages
  <2>2. CASE ~started
    BY <2>2, OfTask DEF Idle
  <2> QED BY <2>1, <2>2
<1> HIDE DEF q
<1>6. OnCourse(q, Items(registered')) /\ q.stage \notin Holding
  BY <1>2, <1>3, <1>4, <1>5 DEF OnCourse, Walking, Holding
<1>7. Resting'
  <2>1. Items(registered)' = Items(registered')
    BY DEF Items
  <2> QED BY <1>1, <1>4, <2>1, OfTask DEF Resting
<1>8. Nobody \notin Tasks
  BY LifecycleAssumption
<1> QED BY <1>1, <1>4, <1>5, <1>6, <1>7, <1>8, OfTask, LifeStepOf

\* A middleware that starts late while the pipeline is started and nobody holds
\* the lock is registered; else no shutdown is bound to stop it.
LEMMA LateStartStep ==
  ASSUME LifeIInv, NEW t \in Tasks, NEW ok \in BOOLEAN, LateStart(t, ok)
  PROVE  LifeIInv'
<1>1. /\ tasks[t].stage = "late_start"
      /\ up' = (IF ok THEN up \cup {HookOf(t)} ELSE up)
      /\ orphans' = IF ok /\ (~started \/ lock # Nobody) THEN orphans \cup {HookOf(t)} ELSE orphans
      /\ tasks' = [tasks EXCEPT ![t] = Idle]
      /\ UNCHANGED <<registered, started, lock, covered, halted>>
  BY DEF LateStart
<1>2. tasks[t].list # <<>> /\ tasks[t].pos = 1 /\ tasks[t].list[1] \in Items(registered)
      /\ tasks[t].list \in Seq(Registrable)
  BY <1>1, OfTask DEF OnCourse, Task
<1>3. HookOf(t) \in Registrable /\ HookOf(t) \in Items(registered)
  BY <1>2 DEF HookOf
<1>4. lock # t /\ Idle.stage \notin Holding
  BY <1>1, OfTask DEF Holding, Idle
<1>5. up' \subseteq Registrable /\ orphans' \subseteq Registrable
  BY <1>1, <1>3, OfTask
<1>6. lock = Nobody => Resting'
  <2>1. Items(registered)' = Items(registered)
    BY <1>1 DEF Items
  <2> QED BY <1>1, <1>3, <2>1, OfTask DEF Resting
<1>7. \A u \in Tasks : u # t /\ lock = u => Held(tasks[u], started, up', orphans')
  <2> SUFFICES ASSUME NEW u \in Tasks, u # t, lock = u
               PROVE  Held(tasks[u], started, up', orphans')
    OBVIOUS
  <2>1. lock # Nobody
    BY LifecycleAssumption
  <2>2. Held(tasks[u], started, up, orphans)
    BY OfTask
  <2>3. \/ up' = up /\ orphans' = orphans
        \/ up' = up \cup {HookOf(t)} /\ orphans' = orphans \cup {HookOf(t)}
    BY <1>1, <2>1
  <2> QED BY <2>2, <2>3 DEF Held
<1> QED BY <1>1, <1>4, <1>5, <1>6, <1>7, OfTask, LifeStepOf

\* A task lets the lock go, and is done.
LEMMA ReleaseStep ==
  ASSUME LifeIInv, NEW t \in Tasks, lock \in {t, Nobody}, Release(t),
         registered' = registered, up' \subseteq Registrable, covered' \subseteq Registrable,
         orphans' \subseteq Registrable, started' \in BOOLEAN, halted' \in BOOLEAN,
         Resting'
  PROVE  LifeIInv'
<1>1. lock' = Nobody /\ tasks' = [tasks EXCEPT ![t] = Idle] /\ Nobody \notin Tasks
  BY LifecycleAssumption DEF Release
<1>2. Idle.stage \notin Holding
  BY DEF Idle, Holding
<1> QED BY <1>1, <1>2, OfTask, LifeStepOf

\* A task goes on, or begins, with the lock.
LEMMA HolderStep ==
  ASSUME LifeIInv, NEW t \in Tasks, lock \in {t, Nobody}, lock' = t,
         NEW q \in Task, tasks' = [tasks EXCEPT ![t] = q], q.stage \in Holding,
         registered' = registered, covered' = covered, halted' = halted, started' = started,
         up' \subseteq Registrable, orphans' \subseteq Registrable,
         OnCourse(q, Items(registered)), Held(q, started, up', orphans')
  PROVE  LifeIInv'
<1>1. Nobody \notin Tasks
  BY LifecycleAssumption
<1> QED BY <1>1, OfTask, LifeStepOf

\* startup begins: the list is that of the registered middlewares.
LEMMA AcquireToStartStep ==
  ASSUME LifeIInv, NEW t \in Tasks, AcquireToStart(t)
  PROVE  LifeIInv'
<1>1. /\ tasks[t].stage = "waiting" /\ lock = Nobody
      /\ UNCHANGED <<registered, up, orphans>> /\ Resting
      /\ Items(registered)' = Items(registered)
  BY OfTask DEF AcquireToStart, Items
<1>2. CASE started
  <2>1. Release(t) /\ UNCHANGED <<started, covered, halted>>
    BY <1>2 DEF AcquireToStart
  <2>2. Resting'
    BY <1>1, <2>1 DEF Resting
  <2> QED BY <1>1, <2>1, <2>2, OfTask, ReleaseStep
<1>3. CASE ~started /\ registered = <<>>
  <2>1. started' = TRUE /\ covered' = {} /\ halted' = FALSE /\ Release(t)
    BY <1>3 DEF AcquireToStart, Started
  <2>2. Resting'
    BY <1>1, <1>3, <2>1 DEF Resting
  <2> QED BY <1>1, <2>1, <2>2, OfTask, ReleaseStep
<1>4. CASE ~started /\ registered # <<>>
  <2> DEFINE q == [tasks[t] EXCEPT !.stage = "starting", !.list = registered, !.pos = 1]
  <2>1. /\ lock' = t /\ tasks' = [tasks EXCEPT ![t] = q] /\ UNCHANGED <<started, covered, halted>>
    BY <1>4 DEF AcquireToStart, LifeIInv, LifeTypeOK
  <2>2. q \in Task /\ q.stage = "starting" /\ q.list = registered /\ q.pos = 1
    <3>1. "starting" \in TaskStages /\ 1 \in Nat \ {0} /\ registered \in Seq(Registrable)
      BY OfTask DEF TaskStages, Holding
    <3>2. tasks[t] \in Task
      BY OfTask
    <3> QED BY <3>1, <3>2 DEF Task
  <2> HIDE DEF q
  <2>3. registered \in Seq(Registrable) /\ 1 <= Len(registered)
    BY <1>4, OfTask
  <2>4. OnCourse(q, Items(registered))
    BY <2>2, <2>3 DEF OnCourse
  <2>5. Held(q, started, up', orphans')
    BY <1>1, <1>4, <2>2, <2>3, EndPositions DEF Held, Resting
  <2>6. q.stage \in Holding
    BY <2>2 DEF Holding
  <2> QED BY <1>1, <2>1, <2>2, <2>4, <2>5, <2>6, OfTask, HolderStep
<1> QED BY <1>2, <1>3, <1>4

\* The last start covers the whole list.
LEMMA StartsStep ==
  ASSUME LifeIInv, NEW t \in Tasks, Starts(t)
  PROVE  LifeIInv'
<1> DEFINE s == tasks[t].list
           n == tasks[t].pos
<1>1. /\ tasks[t].stage = "starting" /\ up' = up \cup {HookOf(t)}
      /\ UNCHANGED <<registered, orphans>>
  BY DEF Starts
<1>2. /\ lock = t /\ Held(tasks[t], started, up, orphans)
      /\ s \in Seq(Registrable) /\ n \in 1..Len(s) /\ Items(s) \subseteq Items(registered)
      /\ Items(s) \subseteq Registrable /\ HookOf(t) = s[n] /\ HookOf(t) \in Registrable
  BY <1>1, OfWalker DEF Walking
<1>3. /\ ~started /\ Before(s, n) \subseteq up /\ up \subseteq orphans \cup Before(s, n)
  BY <1>1, <1>2 DEF Held
<1>4. Before(s, n + 1) = Before(s, n) \cup {HookOf(t)}
  <2>1. Before(s, n + 1) = Before(s, n) \cup {s[n]}
    BY <1>2, NextPosition
  <2> QED BY <1>2, <2>1
<1>5. up' \subseteq Registrable /\ Before(s, n + 1) \subseteq up'
      /\ up' \subseteq orphans' \cup Before(s, n + 1)
  BY <1>1, <1>2, <1>3, <1>4, OfTask
<1>6. CASE AtLast(t)
  <2>1. started' = TRUE /\ covered' = Items(s) /\ halted' = FALSE /\ Release(t)
    BY <1>6 DEF Starts, Started
  <2>2. Before(s, n + 1) = Items(s)
    BY <1>2, <1>6, EndPositions DEF AtLast
  <2>3. Items(registered)' = Items(registered)
    BY <1>1 DEF Items
  <2>4. Resting'
    BY <1>2, <1>5, <2>1, <2>2, <2>3 DEF Resting
  <2> QED BY <1>1, <1>2, <1>5, <2>1, <2>4, OfTask, ReleaseStep
<1>7. CASE ~AtLast(t)
  <2> DEFINE q == [tasks[t] EXCEPT !.pos = @ + 1]
  <2>1. /\ q \in Task /\ q.stage = "starting" /\ q.list = s /\ q.pos = n + 1
        /\ OnCourse(q, Items(registered))
    BY <1>1, <1>7, Advanced DEF Walking
  <2>2. tasks' = [tasks EXCEPT ![t] = q] /\ UNCHANGED <<started, covered, halted, lock>>
    BY <1>7 DEF Starts, Advance, LifeIInv, LifeTypeOK
  <2> HIDE DEF q
  <2>3. Held(q, started, up', orphans') /\ q.stage \in Holding
    BY <1>3, <1>5, <2>1 DEF Held, Holding
  <2> QED BY <1>1, <1>2, <1>5, <2>1, <2>2, <2>3, OfTask, HolderStep
<1> QED BY <1>6, <1>7

\* What was started before the failure is what is rolled back.
LEMMA StartFailsStep ==
  ASSUME LifeIInv, NEW t \in Tasks, StartFails(t)
  PROVE  LifeIInv'
<1> DEFINE s == tasks[t].list
           n == tasks[t].pos
           before == SubSeq(s, 1, n - 1)
<1>1. tasks[t].stage = "starting" /\ UNCHANGED <<registered, started, up, covered, halted, orphans>>
  BY DEF StartFails
<1>2. /\ lock = t /\ Held(tasks[t], started, up, orphans)
      /\ s \in Seq(Registrable) /\ n \in 1..Len(s) /\ Items(s) \subseteq Items(registered)
  BY <1>1, OfWalker DEF Walking
<1>3. ~started /\ up \subseteq orphans \cup Before(s, n)
  BY <1>1, <1>2 DEF Held
<1>4. before \in Seq(Registrable) /\ Items(before) = Before(s, n)
  BY <1>2, PrefixItems
<1>5. CASE before = <<>>
  <2>1. Release(t)
    BY <1>5 DEF StartFails
  <2>2. Items(<<>>) = {}
    BY DEF Items
  <2> HIDE DEF before
  <2>3. Resting'
    BY <1>1, <1>3, <1>4, <1>5, <2>2 DEF Resting
  <2> QED BY <1>1, <1>2, <2>1, <2>3, OfTask, ReleaseStep
<1>6. CASE before # <<>>
  <2> DEFINE q == [tasks[t] EXCEPT !.stage = "rolling_back", !.list = Reversed(before), !.pos = 1]
  <2>1. tasks' = [tasks EXCEPT ![t] = q] /\ lock' = lock
    BY <1>6 DEF StartFails, LifeIInv, LifeTypeOK
  <2> HIDE DEF before
  <2>2. /\ Reversed(before) \in Seq(Registrable) /\ Items(Reversed(before)) = Before(s, n)
        /\ 1 <= Len(Reversed(before))
    <3>1. Reversed(before) \in Seq(Registrable) /\ Len(Reversed(before)) = Len(before)
          /\ Items(Reversed(before)) = Items(before)
      BY <1>4, ReversedFacts
    <3>2. 1 <= Len(before)
      BY <1>4, <1>6
    <3> QED BY <1>4, <3>1, <3>2
  <2>3. q \in Task /\ q.stage = "rolling_back" /\ q.list = Reversed(before) /\ q.pos = 1
    <3>1. "rolling_back" \in TaskStages /\ 1 \in Nat \ {0}
      BY DEF TaskStages, Holding
    <3>2. tasks[t] \in Task
      BY OfTask
    <3> QED BY <2>2, <3>1, <3>2 DEF Task
  <2> HIDE DEF q
  <2>4. Before(s, n) \subseteq Items(s)
    BY DEF Before, Items
  <2>5. OnCourse(q, Items(registered))
    BY <1>2, <2>2, <2>3, <2>4 DEF OnCourse
  <2>6. From(q.list, q.pos) = Before(s, n)
    BY <2>2, <2>3, EndPositions
  <2>7. Held(q, started, up', orphans') /\ q.stage \in Holding
    BY <1>1, <1>3, <2>3, <2>6 DEF Held, Holding
  <2> QED BY <1>1, <1>2, <2>1, <2>3, <2>5, <2>7, OfTask, HolderStep
<1> QED BY <1>5, <1>6

\* A middleware of the list is stopped: what is up then.
LEMMA Stopped1 ==
  ASSUME LifeIInv, NEW t \in Tasks, tasks[t].stage \in {"rolling_back", "stopping"},
         up' = up \ {HookOf(t)}, orphans' = orphans \ {HookOf(t)}
  PROVE  /\ up' \subseteq Registrable /\ orphans' \subseteq Registrable
         /\ up' \subseteq orphans' \cup From(tasks[t].list, tasks[t].pos + 1)
         /\ AtLast(t) => up' \subseteq orphans'
<1> DEFINE s == tasks[t].list
           n == tasks[t].pos
<1>1. /\ Held(tasks[t], started, up, orphans)
      /\ s \in Seq(Registrable) /\ n \in 1..Len(s) /\ HookOf(t) = s[n]
  BY OfWalker DEF Walking
<1>2. up \subseteq orphans \cup From(s, n)
  BY <1>1 DEF Held
<1>3. From(s, n) = From(s, n + 1) \cup {HookOf(t)}
  BY <1>1, NextPosition
<1>4. up' \subseteq orphans' \cup From(s, n + 1)
  BY <1>2, <1>3
<1>5. ASSUME AtLast(t) PROVE up' \subseteq orphans'
  <2>1. From(s, n + 1) = {}
    BY <1>1, <1>5, EndPositions DEF AtLast
  <2> QED BY <1>4, <2>1
<1> QED BY <1>4, <1>5, OfTask

LEMMA RollsBackStep ==
  ASSUME LifeIInv, NEW t \in Tasks, RollsBack(t)
  PROVE  LifeIInv'
<1>1. /\ tasks[t].stage = "rolling_back" /\ tasks[t].stage \in Walking
      /\ up' = up \ {HookOf(t)} /\ orphans' = orphans \ {HookOf(t)}
      /\ UNCHANGED <<registered, started, covered, halted>>
  BY DEF RollsBack, Walking
<1>2. lock = t /\ ~started
  BY <1>1, OfWalker DEF Held
<1>3. CASE AtLast(t)
  <2>1. Release(t) /\ Resting'
    BY <1>1, <1>2, <1>3, Stopped1 DEF RollsBack, Resting
  <2> QED BY <1>1, <1>2, <2>1, Stopped1, OfTask, ReleaseStep
<1>4. CASE ~AtLast(t)
  <2> DEFINE q == [tasks[t] EXCEPT !.pos = @ + 1]
  <2>1. /\ q \in Task /\ q.stage = "rolling_back" /\ q.list = tasks[t].list /\ q.pos = tasks[t].pos + 1
        /\ OnCourse(q, Items(registered))
    BY <1>1, <1>4, Advanced
  <2>2. tasks' = [tasks EXCEPT ![t] = q] /\ UNCHANGED lock
    BY <1>4 DEF RollsBack, Advance, LifeIInv, LifeTypeOK
  <2> HIDE DEF q
  <2>3. Held(q, started, up', orphans') /\ q.stage \in Holding
    BY <1>1, <1>2, <2>1, Stopped1 DEF Held, Holding
  <2> QED BY <1>1, <1>2, <2>1, <2>2, <2>3, Stopped1, OfTask, HolderStep
<1> QED BY <1>3, <1>4

\* After the middlewares: nothing is up but orphans, and the providers follow.
LEMMA CleanUpOrStopStep ==
  ASSUME LifeIInv, NEW t \in Tasks, lock \in {t, Nobody}, CleanUpOrStop(t), started,
         UNCHANGED <<registered, covered, halted>>,
         up' \subseteq Registrable, orphans' \subseteq Registrable, up' \subseteq orphans'
  PROVE  LifeIInv'
<1>1. CASE OwnsProvider
  <2> DEFINE q == [tasks[t] EXCEPT !.stage = "cleaning", !.list = <<>>, !.pos = 1]
  <2>1. tasks' = [tasks EXCEPT ![t] = q] /\ lock' = t /\ UNCHANGED started
    BY <1>1 DEF CleanUpOrStop, LifeIInv, LifeTypeOK
  <2>2. q \in Task /\ q.stage = "cleaning"
    <3>1. "cleaning" \in TaskStages /\ 1 \in Nat \ {0} /\ <<>> \in Seq(Registrable)
      BY DEF TaskStages, Holding
    <3>2. tasks[t] \in Task
      BY OfTask
    <3> QED BY <3>1, <3>2 DEF Task
  <2> HIDE DEF q
  <2>3. OnCourse(q, Items(registered)) /\ q.stage \in Holding /\ Held(q, started, up', orphans')
    BY <2>2 DEF OnCourse, Walking, Holding, Held
  <2> QED BY <2>1, <2>2, <2>3, OfTask, HolderStep
<1>2. CASE ~OwnsProvider
  <2>1. started' = FALSE /\ Release(t)
    BY <1>2 DEF CleanUpOrStop, Stopped
  <2>2. Resting'
    BY <2>1 DEF Resting
  <2> QED BY <2>1, <2>2, OfTask, ReleaseStep
<1> QED BY <1>1, <1>2

LEMMA AcquireToStopStep ==
  ASSUME LifeIInv, NEW t \in Tasks, AcquireToStop(t)
  PROVE  LifeIInv'
<1>1. /\ tasks[t].stage = "waiting" /\ lock = Nobody /\ Resting
      /\ UNCHANGED <<registered, up, covered, halted, orphans>>
      /\ Items(registered)' = Items(registered)
  BY OfTask DEF AcquireToStop, Items
<1>2. CASE ~started
  <2>1. Release(t) /\ UNCHANGED started /\ Resting'
    BY <1>1, <1>2 DEF AcquireToStop, Resting
  <2> QED BY <1>1, <2>1, OfTask, ReleaseStep
<1>3. CASE started /\ registered = <<>>
  <2>1. CleanUpOrStop(t)
    BY <1>3 DEF AcquireToStop
  <2>2. up' \subseteq orphans'
    BY <1>1, <1>3 DEF Resting, Items
  <2> QED BY <1>1, <1>3, <2>1, <2>2, OfTask, CleanUpOrStopStep
<1>4. CASE started /\ registered # <<>>
  <2> DEFINE q == [tasks[t] EXCEPT !.stage = "stopping", !.list = Reversed(registered), !.pos = 1]
  <2>1. /\ lock' = t /\ tasks' = [tasks EXCEPT ![t] = q] /\ UNCHANGED started
    BY <1>4 DEF AcquireToStop, LifeIInv, LifeTypeOK
  <2>2. /\ Reversed(registered) \in Seq(Registrable)
        /\ Items(Reversed(registered)) = Items(registered) /\ 1 <= Len(Reversed(registered))
    <3>1. registered \in Seq(Registrable)
      BY OfTask
    <3>2. 1 <= Len(registered)
      BY <1>4, <3>1
    <3> QED BY <3>1, <3>2, ReversedFacts
  <2>3. q \in Task /\ q.stage = "stopping" /\ q.list = Reversed(registered) /\ q.pos = 1
    <3>1. "stopping" \in TaskStages /\ 1 \in Nat \ {0}
      BY DEF TaskStages, Holding
    <3>2. tasks[t] \in Task
      BY OfTask
    <3> QED BY <2>2, <3>1, <3>2 DEF Task
  <2> HIDE DEF q
  <2>4. OnCourse(q, Items(registered))
    BY <2>2, <2>3 DEF OnCourse
  <2>5. From(q.list, q.pos) = Items(registered)
    BY <2>2, <2>3, EndPositions
  <2>6. Held(q, started, up', orphans') /\ q.stage \in Holding
    BY <1>1, <1>4, <2>3, <2>5 DEF Held, Holding, Resting
  <2> QED BY <1>1, <2>1, <2>3, <2>4, <2>6, OfTask, HolderStep
<1> QED BY <1>2, <1>3, <1>4

LEMMA StopsStep ==
  ASSUME LifeIInv, NEW t \in Tasks, Stops(t)
  PROVE  LifeIInv'
<1>1. /\ tasks[t].stage = "stopping" /\ tasks[t].stage \in Walking
      /\ up' = up \ {HookOf(t)} /\ orphans' = orphans \ {HookOf(t)}
      /\ UNCHANGED <<registered, covered, halted>>
  BY DEF Stops, Walking
<1>2. lock = t /\ started
  BY <1>1, OfWalker DEF Held
<1>3. CASE AtLast(t)
  <2>1. CleanUpOrStop(t)
    BY <1>3 DEF Stops
  <2> QED BY <1>1, <1>2, <1>3, <2>1, Stopped1, CleanUpOrStopStep
<1>4. CASE ~AtLast(t)
  <2> DEFINE q == [tasks[t] EXCEPT !.pos = @ + 1]
  <2>1. /\ q \in Task /\ q.stage = "stopping" /\ q.list = tasks[t].list /\ q.pos = tasks[t].pos + 1
        /\ OnCourse(q, Items(registered))
    BY <1>1, <1>4, Advanced
  <2>2. tasks' = [tasks EXCEPT ![t] = q] /\ UNCHANGED <<started, lock>>
    BY <1>4 DEF Stops, Advance, LifeIInv, LifeTypeOK
  <2> HIDE DEF q
  <2>3. Held(q, started, up', orphans') /\ q.stage \in Holding
    BY <1>1, <1>2, <2>1, Stopped1 DEF Held, Holding
  <2> QED BY <1>1, <1>2, <2>1, <2>2, <2>3, Stopped1, OfTask, HolderStep
<1> QED BY <1>3, <1>4

LEMMA CleansUpStep ==
  ASSUME LifeIInv, NEW t \in Tasks, CleansUp(t)
  PROVE  LifeIInv'
<1>1. /\ tasks[t].stage = "cleaning" /\ tasks[t].stage \in Holding
      /\ UNCHANGED <<registered, up, covered, halted, orphans>>
  BY DEF CleansUp, Holding
<1>2. lock = t /\ started /\ up \subseteq orphans
  BY <1>1, OfTask DEF Held
<1>3. CASE tasks[t].pos = Providers
  <2>1. started' = FALSE /\ Release(t)
    BY <1>3 DEF CleansUp, Stopped
  <2>2. Resting'
    BY <1>1, <1>2, <2>1 DEF Resting
  <2> QED BY <1>1, <1>2, <2>1, <2>2, OfTask, ReleaseStep
<1>4. CASE tasks[t].pos # Providers
  <2> DEFINE q == [tasks[t] EXCEPT !.pos = @ + 1]
  <2>1. tasks' = [tasks EXCEPT ![t] = q] /\ UNCHANGED <<started, lock>>
    BY <1>4 DEF CleansUp, Advance, LifeIInv, LifeTypeOK
  <2>2. q \in Task /\ q.stage = "cleaning"
    <3>1. tasks[t].pos + 1 \in Nat \ {0}
      BY OfTask DEF Task
    <3> QED BY <1>1, <3>1, OfTask DEF Task
  <2> HIDE DEF q
  <2>3. OnCourse(q, Items(registered)) /\ Held(q, started, up', orphans') /\ q.stage \in Holding
    BY <1>1, <1>2, <2>2 DEF OnCourse, Walking, Held, Holding
  <2> QED BY <1>1, <1>2, <2>1, <2>2, <2>3, OfTask, HolderStep
<1> QED BY <1>3, <1>4

\* A cancelled task lets the lock go; what it leaves behind is on record.
LEMMA CancelStep ==
  ASSUME LifeIInv, NEW t \in Tasks, Interrupt(t)
  PROVE  LifeIInv'
<1>1. /\ tasks' = [tasks EXCEPT ![t] = Idle]
      /\ lock' = (IF lock = t THEN Nobody ELSE lock)
      /\ halted' = (halted \/ tasks[t].stage \in {"stopping", "cleaning"})
      /\ orphans' = (IF tasks[t].stage \in {"starting", "rolling_back"}
                     THEN orphans \cup up ELSE orphans)
      /\ UNCHANGED <<registered, started, up, covered>>
      /\ Items(registered)' = Items(registered)
  BY DEF Interrupt, Items
<1>2. /\ Idle.stage \notin Holding /\ Nobody \notin Tasks
      /\ halted' \in BOOLEAN /\ orphans' \subseteq Registrable
  BY <1>1, OfTask, LifecycleAssumption DEF Idle, Holding
<1>3. CASE lock # t
  <2>1. lock' = lock /\ tasks[t].stage \notin Holding
    BY <1>1, <1>3, OfTask
  <2>2. orphans' = orphans /\ halted' = halted
    BY <1>1, <2>1, OfTask DEF Holding
  <2>3. lock = Nobody => Resting'
    BY <1>1, <2>2, OfTask DEF Resting
  <2> QED BY <1>1, <1>2, <1>3, <2>1, <2>2, <2>3, OfTask, LifeStepOf
<1>4. CASE lock = t
  <2>1. lock' = Nobody /\ Release(t) /\ Held(tasks[t], started, up, orphans)
        /\ tasks[t].stage \in Holding
    BY <1>1, <1>4, OfTask DEF Release
  <2>2. CASE tasks[t].stage \in {"starting", "rolling_back"}
    <3>1. ~started /\ orphans' = orphans \cup up
      BY <1>1, <2>1, <2>2 DEF Held
    <3>2. Resting'
      BY <1>1, <3>1 DEF Resting
    <3> QED BY <1>1, <1>2, <1>4, <2>1, <3>2, OfTask, ReleaseStep
  <2>3. CASE tasks[t].stage \in {"stopping", "cleaning"}
    <3>1. started /\ halted' /\ orphans' = orphans
      BY <1>1, <2>1, <2>3 DEF Held
    <3>2. up \subseteq orphans \cup Items(registered)
      <4>1. CASE tasks[t].stage = "stopping"
        <5>1. From(tasks[t].list, tasks[t].pos) \subseteq Items(registered)
          BY <4>1, OfWalker DEF Walking, From, Items
        <5> QED BY <2>1, <4>1, <5>1 DEF Held
      <4>2. CASE tasks[t].stage = "cleaning"
        BY <2>1, <4>2 DEF Held
      <4> QED BY <2>3, <4>1, <4>2
    <3>3. Resting'
      BY <1>1, <3>1, <3>2 DEF Resting
    <3> QED BY <1>1, <1>2, <1>4, <2>1, <3>3, OfTask, ReleaseStep
  <2> QED BY <2>1, <2>2, <2>3 DEF Holding
<1> QED BY <1>3, <1>4

LEMMA LifeSteps ==
  ASSUME LifeIInv, [LifeNext]_lifeVars
  PROVE  LifeIInv'
<1>1. ASSUME NEW m \in Registrable, Register(m) PROVE LifeIInv'
  BY <1>1, AddMiddlewareStep
<1>2. ASSUME NEW t \in Tasks,
             \/ \E m \in Registrable : CallAdd(t, m)
             \/ \E op \in {"startup", "shutdown"} : Call(t, op)
      PROVE  LifeIInv'
  BY <1>2, CallStep
<1>3. ASSUME NEW t \in Tasks, Step(t) PROVE LifeIInv'
  BY <1>3, AcquireToAddStep, AcquireToStartStep, AcquireToStopStep, LateStartStep, StartsStep,
     StartFailsStep, RollsBackStep, StopsStep, CleansUpStep DEF Step
<1>4. ASSUME NEW t \in Tasks, Interrupt(t) PROVE LifeIInv'
  BY <1>4, CancelStep
<1>5. CASE UNCHANGED lifeVars
  <2>1. LifeTypeOK' /\ LockHeld' /\ Items(registered)' = Items(registered)
    BY <1>5 DEF LifeIInv, LifeTypeOK, LockHeld, lifeVars, Items
  <2>2. Resting => Resting'
    BY <1>5, <2>1 DEF Resting, lifeVars
  <2> QED BY <1>5, <2>1, <2>2 DEF LifeIInv, lifeVars
<1> QED BY <1>1, <1>2, <1>3, <1>4, <1>5 DEF LifeNext

\* Every reachable state satisfies the inductive invariant.
LEMMA LifeInvariance == LifeSpec => []LifeIInv
<1>1. LifeInit => LifeIInv
  BY LifeInitially
<1>2. LifeIInv /\ [LifeNext]_lifeVars => LifeIInv'
  BY LifeSteps
<1> QED BY <1>1, <1>2, PTL DEF LifeSpec

-----------------------------------------------------------------------------
(* Theorems *)

\* The task in a loop over hooks holds the lock and no other does, however
\* startups, shutdowns, additions, failures and cancellations follow each other.
THEOREM LockIsHeld == LifeSpec => []LockHeld
<1>1. LifeIInv => LockHeld
  BY DEF LifeIInv
<1> QED BY LifeInvariance, <1>1, PTL

\* A pipeline that is started and at rest has up what its startup covered,
\* unless a shutdown was cancelled half-way (pipeline.py:167).
THEOREM StartedIsReady == LifeSpec => []ReadyWhenStarted
<1>1. LifeIInv => ReadyWhenStarted
  BY DEF LifeIInv, Resting, ReadyWhenStarted
<1> QED BY LifeInvariance, <1>1, PTL

\* A pipeline that is stopped and at rest has nothing up but what a cancelled
\* startup or an overlapping late start has left (pipeline.py:193).
THEOREM StoppedLeavesNothing == LifeSpec => []NothingLeftRunning
<1>1. LifeIInv => NothingLeftRunning
  BY DEF LifeIInv, Resting, NothingLeftRunning
<1> QED BY LifeInvariance, <1>1, PTL

-----------------------------------------------------------------------------
(* The synchronous stream.                                                   *)

Things == [kind : {"chunk", "error", "sentinel"}, n : Nat]

SyncTypes ==
  /\ queue \in Seq(Things) /\ received \in Seq(Nat) /\ produced \in Nat
  /\ stop \in BOOLEAN /\ failed \in BOOLEAN
  /\ worker \in WorkerStages
  /\ consumer \in [stage : ConsumerStages, outcome : ConsumerOutcomes]

Streaming == worker \in {"new", "streaming", "putting"}
Finished == worker \in {"closing", "dead"}

\* The chunks that have been put.
PutSoFar == IF worker = "putting" THEN produced - 1 ELSE produced

\* What the worker puts behind the chunks: the error, then the sentinel.
Behind == (IF failed THEN 1 ELSE 0) + (IF Finished THEN 1 ELSE 0)

\* The queue holds the chunks that were put and not taken, and what is behind.
Holds(n) ==
  /\ PutSoFar = Len(received) + n /\ Len(queue) = n + Behind
  /\ \A i \in 1..n : queue[i] = ChunkItem(Len(received) + i)
  /\ failed => queue[n + 1] = Error
  /\ Finished => queue[Len(queue)] = Sentinel

InQueue == \E n \in Nat : Holds(n)

\* A consumer that has not come to its end finds it so; one that has met the
\* error or the sentinel has got every chunk.
SyncIInv ==
  /\ SyncTypes
  /\ \A i \in DOMAIN received : received[i] = i
  /\ failed => ~Streaming
  /\ consumer.outcome = "none" => ~stop /\ InQueue
  /\ consumer.stage \in {"get", "yielded"} <=> consumer.outcome = "none"
  /\ consumer.outcome \in {"complete", "raised"} =>
       ~Streaming /\ Len(received) = produced
  /\ consumer.outcome = "complete" => Finished /\ ~failed

LEMMA SyncInitially == StreamInit => SyncIInv
<1> SUFFICES ASSUME StreamInit PROVE SyncIInv
  OBVIOUS
<1>1. SyncTypes
  <2>1. queue \in Seq(Things) /\ received \in Seq(Nat)
    BY DEF StreamInit
  <2>2. produced \in Nat /\ stop \in BOOLEAN /\ failed \in BOOLEAN
    BY DEF StreamInit
  <2>3. worker \in WorkerStages
    BY DEF StreamInit, WorkerStages
  <2>4. consumer \in [stage : ConsumerStages, outcome : ConsumerOutcomes]
    BY DEF StreamInit, ConsumerStages, ConsumerOutcomes
  <2> QED
    BY <2>1, <2>2, <2>3, <2>4 DEF SyncTypes
<1>2. PutSoFar = 0 /\ Len(received) = 0 /\ Len(queue) = 0 /\ Behind = 0
  BY DEF StreamInit, PutSoFar, Behind, Finished
<1>4. \A i \in 1..0 : queue[i] = ChunkItem(Len(received) + i)
  OBVIOUS
<1>5. ~failed /\ ~Finished
  BY DEF StreamInit, Finished
<1>6. Holds(0)
  BY <1>2, <1>4, <1>5 DEF Holds
<1>3. InQueue
  BY <1>6 DEF InQueue
<1> QED
  BY <1>1, <1>3 DEF StreamInit, SyncIInv

\* What one item more makes of the queue.
LEMMA OneMore ==
  ASSUME queue \in Seq(Things), NEW item \in Things,
         queue' = Append(queue, item)
  PROVE  /\ queue' \in Seq(Things) /\ Len(queue') = Len(queue) + 1
         /\ queue'[Len(queue) + 1] = item
         /\ \A i \in 1..Len(queue) : queue'[i] = queue[i]
OBVIOUS

LEMMA ThingsAre ==
  /\ Error \in Things /\ Sentinel \in Things
  /\ \A n \in Nat : ChunkItem(n) \in Things
  /\ \A n \in Nat : ChunkItem(n) # Error /\ ChunkItem(n) # Sentinel
  /\ Error # Sentinel
BY DEF Error, Sentinel, ChunkItem, Things

\* A step of the worker keeps everything but the queue's order by itself.
LEMMA WorkerSteps ==
  ASSUME SyncIInv, Worker
  PROVE  /\ SyncTypes' /\ UNCHANGED <<stop, consumer, received>>
         /\ failed' => ~Streaming'
         /\ ~Streaming => ~Streaming' /\ UNCHANGED <<produced, failed>>
         /\ Finished => Finished'
<1> USE DEF SyncIInv, SyncTypes
<1>1. \A item \in Things : Put(item) => queue' \in Seq(Things)
  BY DEF Put
<1>3. UNCHANGED <<stop, consumer, received>> /\ worker' \in WorkerStages
  BY DEF Worker, WorkerStarts, ChunkArrives, PutChunk, SourceEnds, SourceFails,
         CleanUp, PutSentinel, WorkerDies, WorkerStages
<1>6. produced' \in {produced, produced + 1}
  BY DEF Worker, WorkerStarts, ChunkArrives, PutChunk, SourceEnds, SourceFails,
         CleanUp, PutSentinel, WorkerDies
<1>5. failed' \in BOOLEAN
  BY DEF Worker, WorkerStarts, ChunkArrives, PutChunk, SourceEnds, SourceFails,
         CleanUp, PutSentinel, WorkerDies
<1>4. UNCHANGED queue \/ \E item \in Things : Put(item)
  BY ThingsAre
     DEF Worker, WorkerStarts, ChunkArrives, PutChunk, SourceEnds, SourceFails,
         CleanUp, PutSentinel, WorkerDies
<1>2. SyncTypes'
  BY <1>1, <1>3, <1>4, <1>5, <1>6
<1> QED
  BY <1>2 DEF Worker, WorkerStarts, ChunkArrives, PutChunk, SourceEnds,
              SourceFails, CleanUp, PutSentinel, WorkerDies, Streaming, Finished

LEMMA WorkerInQueue ==
  ASSUME SyncIInv, Worker, ~stop, InQueue
  PROVE  InQueue'
<1>1. /\ queue \in Seq(Things) /\ received \in Seq(Nat) /\ produced \in Nat
      /\ worker \in WorkerStages /\ failed \in BOOLEAN
      /\ UNCHANGED received /\ (failed => ~Streaming)
  BY WorkerSteps DEF SyncIInv, SyncTypes
<1>2. PICK n \in Nat : Holds(n)
  BY DEF InQueue
<1>3. /\ PutSoFar = Len(received) + n /\ Len(queue) = n + Behind
      /\ \A i \in 1..n : queue[i] = ChunkItem(Len(received) + i)
      /\ failed => queue[n + 1] = Error
      /\ Finished => queue[Len(queue)] = Sentinel
      /\ Len(received) \in Nat
  BY <1>1, <1>2 DEF Holds
<1>4. ASSUME UNCHANGED <<queue, failed>>, PutSoFar' = PutSoFar,
             Behind' = Behind, Finished' <=> Finished
      PROVE  InQueue'
  <2>1. Holds(n)'
    BY <1>1, <1>3, <1>4 DEF Holds
  <2> QED
    BY <2>1 DEF InQueue
<1>5. CASE WorkerStarts \/ SourceEnds \/ CleanUp \/ WorkerDies \/ ChunkArrives
  <2>1. UNCHANGED <<queue, failed>> /\ PutSoFar' = PutSoFar
        /\ Behind' = Behind /\ (Finished' <=> Finished)
    BY <1>1, <1>5 DEF WorkerStarts, SourceEnds, CleanUp, WorkerDies, ChunkArrives,
                      PutSoFar, Behind, Finished
  <2> QED
    BY <1>4, <2>1
<1>7. CASE PutChunk
  <2>1. /\ worker = "putting" /\ worker' = "streaming" /\ ~failed /\ ~failed'
        /\ queue' = Append(queue, ChunkItem(produced)) /\ produced' = produced
    BY <1>1, <1>7 DEF PutChunk, Put, Streaming
  <2>2. /\ PutSoFar' = produced /\ PutSoFar = produced - 1
        /\ Behind = 0 /\ Behind' = 0 /\ ~Finished'
    BY <2>1 DEF PutSoFar, Behind, Finished
  <2>3. Len(queue) = n /\ produced = Len(received) + (n + 1)
    BY <1>1, <1>3, <2>2
  <2>4. /\ Len(queue') = n + 1
        /\ queue'[n + 1] = ChunkItem(Len(received') + (n + 1))
        /\ \A i \in 1..n : queue'[i] = queue[i]
    BY <1>1, <2>1, <2>3, OneMore, ThingsAre
  <2>5. ASSUME NEW i \in 1..(n + 1)
        PROVE  queue'[i] = ChunkItem(Len(received') + i)
    <3>1. CASE i \in 1..n
      BY <1>1, <1>3, <2>4, <3>1
    <3>2. CASE i = n + 1
      BY <2>4, <3>2
    <3> QED
      BY <3>1, <3>2
  <2>6. PutSoFar' = Len(received') + (n + 1)
    BY <1>1, <2>2, <2>3
  <2>7. Holds(n + 1)'
    BY <2>1, <2>2, <2>4, <2>5, <2>6 DEF Holds
  <2> QED
    BY <2>7 DEF InQueue
<1>8. CASE SourceFails
  <2>1. /\ worker = "streaming" /\ worker' = "cleanup" /\ ~failed /\ failed'
        /\ queue' = Append(queue, Error) /\ produced' = produced
    BY <1>1, <1>8 DEF SourceFails, Put, Streaming
  <2>2. /\ PutSoFar' = PutSoFar /\ Behind = 0 /\ Behind' = 1 /\ ~Finished'
    BY <1>1, <2>1 DEF PutSoFar, Behind, Finished
  <2>3. Len(queue) = n
    BY <1>3, <2>2
  <2>4. /\ Len(queue') = n + 1 /\ queue'[n + 1] = Error
        /\ \A i \in 1..n : queue'[i] = queue[i]
    BY <1>1, <2>1, <2>3, OneMore, ThingsAre
  <2>5. Holds(n)'
    BY <1>1, <1>3, <2>2, <2>4 DEF Holds
  <2> QED
    BY <2>5 DEF InQueue
<1>9. CASE PutSentinel
  <2>1. /\ worker = "ending" /\ worker' = "closing" /\ UNCHANGED failed
        /\ queue' = Append(queue, Sentinel) /\ produced' = produced
    BY <1>1, <1>9 DEF PutSentinel, Put
  <2>2. /\ PutSoFar' = PutSoFar /\ Behind' = Behind + 1 /\ Finished'
        /\ Behind = (IF failed THEN 1 ELSE 0)
    BY <1>1, <2>1 DEF PutSoFar, Behind, Finished
  <2>3. /\ Len(queue') = Len(queue) + 1 /\ queue'[Len(queue) + 1] = Sentinel
        /\ \A i \in 1..Len(queue) : queue'[i] = queue[i]
    BY <1>1, <2>1, OneMore, ThingsAre
  <2>4. /\ Len(queue') = n + Behind' /\ queue'[Len(queue')] = Sentinel
        /\ Len(queue) \in Nat /\ Len(queue) >= n
        /\ failed => Len(queue) = n + 1
    BY <1>1, <1>3, <2>2, <2>3
  <2>5. /\ failed' => queue'[n + 1] = Error
        /\ \A i \in 1..n : queue'[i] = ChunkItem(Len(received') + i)
    BY <1>1, <1>3, <2>1, <2>3, <2>4
  <2>6. PutSoFar' = Len(received') + n
    BY <1>1, <1>3, <2>2
  <2>7. Holds(n)'
    BY <2>4, <2>5, <2>6 DEF Holds
  <2> QED
    BY <2>7 DEF InQueue
<1> QED
  BY <1>5, <1>7, <1>8, <1>9 DEF Worker

\* The consumer takes a chunk, which is the next one, or finds every chunk taken
\* and the error, or else the sentinel.
LEMMA GetStep ==
  ASSUME SyncIInv, Get
  PROVE  SyncIInv'
<1>1. /\ queue \in Seq(Things) /\ received \in Seq(Nat) /\ produced \in Nat
      /\ worker \in WorkerStages /\ failed \in BOOLEAN /\ stop \in BOOLEAN
      /\ consumer \in [stage : ConsumerStages, outcome : ConsumerOutcomes]
      /\ \A i \in DOMAIN received : received[i] = i
      /\ failed => ~Streaming
  BY DEF SyncIInv, SyncTypes
<1>2. /\ consumer.stage = "get" /\ queue # <<>> /\ queue' = Tail(queue)
      /\ UNCHANGED <<stop, worker, produced, failed>>
  BY DEF Get
<1>3. consumer.outcome = "none" /\ ~stop /\ InQueue
  BY <1>2 DEF SyncIInv
<1>4. PICK n \in Nat : Holds(n)
  BY <1>3 DEF InQueue
<1>5. /\ PutSoFar = Len(received) + n /\ Len(queue) = n + Behind
      /\ \A i \in 1..n : queue[i] = ChunkItem(Len(received) + i)
      /\ failed => queue[n + 1] = Error
      /\ Finished => queue[Len(queue)] = Sentinel
      /\ Len(received) \in Nat
  BY <1>1, <1>4 DEF Holds
<1>6. /\ queue' \in Seq(Things) /\ Len(queue') = Len(queue) - 1
      /\ \A i \in 1..Len(queue') : queue'[i] = queue[i + 1]
      /\ Head(queue) = queue[1]
  BY <1>1, <1>2
<1>7. PutSoFar' = PutSoFar /\ Behind' = Behind /\ (Finished' <=> Finished)
      /\ (Streaming' <=> Streaming)
  BY <1>2 DEF PutSoFar, Behind, Finished, Streaming
<1>8. CASE n > 0
  <2>1. Head(queue) = ChunkItem(Len(received) + 1)
    BY <1>5, <1>6, <1>8
  <2>2. /\ consumer' = [consumer EXCEPT !.stage = "yielded"]
        /\ received' = Append(received, Len(received) + 1)
    BY <2>1 DEF Get, ChunkItem
  <2>3. /\ consumer'.outcome = "none" /\ consumer'.stage = "yielded"
        /\ consumer' \in [stage : ConsumerStages, outcome : ConsumerOutcomes]
    BY <1>1, <1>3, <2>2 DEF ConsumerStages
  <2>4. /\ received' \in Seq(Nat) /\ Len(received') = Len(received) + 1
        /\ \A i \in DOMAIN received' : received'[i] = i
    BY <1>1, <2>2
  <2>5. ASSUME NEW i \in 1..(n - 1)
        PROVE  queue'[i] = ChunkItem(Len(received') + i)
    <3>1. /\ i + 1 \in 1..n /\ i \in 1..Len(queue')
          /\ Len(received) + (i + 1) = Len(received') + i
      BY <1>5, <1>6, <2>4 DEF Behind
    <3> QED
      BY <1>5, <1>6, <3>1
  <2>6. Behind \in Nat /\ (failed => Behind >= 1) /\ (Finished => Behind >= 1)
    BY DEF Behind
  <2>7. /\ n - 1 \in Nat /\ PutSoFar' = Len(received') + (n - 1)
        /\ Len(queue') = (n - 1) + Behind'
    <3>1. n - 1 \in Nat /\ Len(received') + (n - 1) = Len(received) + n
      BY ONLY <1>5, <1>8, <2>4
    <3>2. Len(queue) - 1 = (n - 1) + Behind
      BY ONLY <1>5, <1>8, <2>6
    <3> QED
      BY ONLY <1>5, <1>6, <1>7, <3>1, <3>2
  <2>8. /\ failed' => queue'[(n - 1) + 1] = Error
        /\ Finished' => queue'[Len(queue')] = Sentinel
    BY <1>2, <1>5, <1>6, <1>7, <1>8, <2>6
  <2>9. Holds(n - 1)'
    BY <2>5, <2>7, <2>8 DEF Holds
  <2>10. InQueue'
    BY <2>7, <2>9 DEF InQueue
  <2> QED
    BY <1>1, <1>2, <1>3, <1>6, <1>7, <2>3, <2>4, <2>10 DEF SyncIInv, SyncTypes
<1>9. CASE n = 0
  <2>1. Len(queue) = Behind /\ Len(queue) > 0 /\ PutSoFar = Len(received)
    <3>1. Behind \in Nat
      BY DEF Behind
    <3>2. Len(queue) > 0
      BY <1>1, <1>2
    <3> QED
      BY <1>1, <1>5, <1>9, <3>1, <3>2
  <2>2. CASE failed
    <3>1. Head(queue) = Error
      BY <1>5, <1>6, <1>9, <2>2
    <3>2. consumer' = Finally("raised") /\ UNCHANGED received
      BY <3>1 DEF Get, Error
    <3>3. ~Streaming /\ Len(received) = produced
      BY <1>1, <2>1, <2>2 DEF PutSoFar, Streaming
    <3>4. consumer' \in [stage : ConsumerStages, outcome : ConsumerOutcomes]
          /\ consumer'.stage = "stopping" /\ consumer'.outcome = "raised"
      BY <3>2 DEF Finally, ConsumerStages, ConsumerOutcomes
    <3> QED
      BY <1>1, <1>2, <1>6, <1>7, <3>2, <3>3, <3>4 DEF SyncIInv, SyncTypes
  <2>3. CASE ~failed
    <3>1. Finished /\ Len(queue) = 1
      BY <2>1, <2>3 DEF Behind
    <3>2. Head(queue) = Sentinel
      BY <1>5, <1>6, <3>1
    <3>3. consumer' = Finally("complete") /\ UNCHANGED received
      BY <3>2 DEF Get, Sentinel
    <3>4. ~Streaming /\ Len(received) = produced
      BY <1>1, <2>1, <3>1 DEF PutSoFar, Streaming, Finished
    <3>5. consumer' \in [stage : ConsumerStages, outcome : ConsumerOutcomes]
          /\ consumer'.stage = "stopping" /\ consumer'.outcome = "complete"
      BY <3>3 DEF Finally, ConsumerStages, ConsumerOutcomes
    <3> QED
      BY <1>1, <1>2, <1>6, <1>7, <2>3, <3>1, <3>3, <3>4, <3>5
         DEF SyncIInv, SyncTypes
  <2> QED
    BY <1>1, <2>2, <2>3
<1> QED
  BY <1>8, <1>9

\* A step of the worker.
LEMMA WorkerStep ==
  ASSUME SyncIInv, Worker
  PROVE  SyncIInv'
<1>1. /\ SyncTypes' /\ UNCHANGED <<stop, consumer, received>>
      /\ failed' => ~Streaming'
      /\ ~Streaming => ~Streaming' /\ UNCHANGED <<produced, failed>>
      /\ Finished => Finished'
  BY WorkerSteps
<1>2. consumer.outcome = "none" => InQueue'
  BY WorkerInQueue DEF SyncIInv
<1> QED
  BY <1>1, <1>2 DEF SyncIInv, Finished, Streaming

\* The other steps of the consumer and of its caller leave the queue alone.
LEMMA ConsumerStep ==
  ASSUME SyncIInv, Stop \/ CancelProducer \/ Join \/ Resume \/ Close
  PROVE  SyncIInv'
<1>1. UNCHANGED <<queue, worker, produced, failed, received>>
  BY DEF Stop, CancelProducer, Join, Resume, Close
<1>2. InQueue => InQueue'
  <2>1. PutSoFar' = PutSoFar /\ Behind' = Behind /\ (Finished' <=> Finished)
    BY <1>1 DEF PutSoFar, Behind, Finished
  <2>2. \A n \in Nat : Holds(n) => Holds(n)'
    BY <1>1, <2>1 DEF Holds
  <2> QED
    BY <2>2 DEF InQueue
<1>3. stop' \in BOOLEAN
      /\ consumer' \in [stage : ConsumerStages, outcome : ConsumerOutcomes]
  <2>1. stop \in BOOLEAN
        /\ consumer \in [stage : ConsumerStages, outcome : ConsumerOutcomes]
    BY DEF SyncIInv, SyncTypes
  <2>2. CASE Stop
    BY <2>1, <2>2 DEF Stop
  <2>4. CASE Close
    BY <2>1, <2>4 DEF Close, Finally, ConsumerStages, ConsumerOutcomes
  <2>3. CASE CancelProducer \/ Join \/ Resume
    BY <2>1, <2>3 DEF CancelProducer, Join, Resume, ConsumerStages
  <2> QED
    BY <2>2, <2>3, <2>4
<1>4. SyncTypes'
  BY <1>1, <1>3 DEF SyncIInv, SyncTypes
<1>5. CASE Stop
  BY <1>1, <1>4, <1>5 DEF SyncIInv, Stop, Streaming, Finished
<1>6. CASE Close
  BY <1>1, <1>4, <1>6 DEF SyncIInv, Close, Finally, Streaming, Finished
<1>7. CASE CancelProducer \/ Join \/ Resume
  <2>1. consumer'.outcome = consumer.outcome /\ stop' = stop
    BY <1>7 DEF CancelProducer, Join, Resume, SyncIInv, SyncTypes
  <2>2. consumer'.stage \in {"get", "yielded"} <=> consumer.stage \in {"get", "yielded"}
    BY <1>7 DEF CancelProducer, Join, Resume, SyncIInv, SyncTypes
  <2> QED
    BY <1>1, <1>2, <1>4, <2>1, <2>2 DEF SyncIInv, Streaming, Finished
<1> QED
  BY <1>5, <1>6, <1>7

LEMMA SyncStep == SyncIInv /\ [StreamNext]_streamVars => SyncIInv'
<1> SUFFICES ASSUME SyncIInv, [StreamNext]_streamVars PROVE SyncIInv'
  OBVIOUS
<1>1. CASE Worker
  BY <1>1, WorkerStep
<1>2. CASE Get
  BY <1>2, GetStep
<1>3. CASE Stop \/ CancelProducer \/ Join \/ Resume \/ Close
  BY <1>3, ConsumerStep
<1>4. CASE UNCHANGED streamVars
  <2>1. PutSoFar' = PutSoFar /\ Behind' = Behind /\ (Finished' <=> Finished)
        /\ UNCHANGED <<queue, worker, produced, failed, received>>
    BY <1>4 DEF PutSoFar, Behind, Finished, streamVars
  <2>2. \A n \in Nat : Holds(n) => Holds(n)'
    BY <2>1 DEF Holds
  <2>3. InQueue => InQueue'
    BY <2>2 DEF InQueue
  <2> QED
    BY <1>4, <2>1, <2>3 DEF SyncIInv, SyncTypes, streamVars, Streaming
<1> QED
  BY <1>1, <1>2, <1>3, <1>4 DEF StreamNext, Consumer

\* stream_sync (pipeline.py:1075): however the two threads interleave, the caller
\* gets the chunks in order without a gap; a generator that ends or raises by
\* itself has delivered all of them, and does not end where the stream raised.
THEOREM StreamIsComplete == StreamSpec => []StreamComplete
<1>1. SyncIInv => StreamComplete
  BY DEF SyncIInv, StreamComplete
<1> QED
  BY SyncInitially, SyncStep, <1>1, PTL DEF StreamSpec

=============================================================================
