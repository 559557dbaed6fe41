---------------------------- MODULE AgentRuntime ----------------------------
(***************************************************************************)
(* The ReAct loop of AgentRuntime (agent.py): think, act, think, ...       *)
(* finish.  All runs of one runtime object share _state, _fsm and          *)
(* _cancelled: every step of every run works on the state that the run     *)
(* begun last installed.  A step of the model is what happens between two  *)
(* suspension points of _run_loop: the await of the memory trim, the await *)
(* of the provider, the two yields and the await of the tools.             *)
(*                                                                         *)
(* States are named by the run that created them; a caller may hand the    *)
(* state of an ended run to a new one.  Messages, hooks and logging are    *)
(* left out.                                                               *)
(***************************************************************************)
EXTENDS Naturals, FiniteSets

CONSTANTS
  Runs,       \* calls of run(), run_streaming() or run_streaming_text()
  MaxSteps,   \* AgentConfig.max_steps
  NoState     \* _state before the first run

ASSUME RuntimeAssumption ==
  /\ MaxSteps \in Nat \ {0} /\ NoState \notin Runs /\ IsFiniteSet(Runs)

VARIABLES
  pc,         \* per run: where it is suspended
  decision,   \* per run: the planner's decision it goes on with
  obj,        \* per run: the state it was begun with
  status, steps, last,  \* per state: AgentState.status, .steps, last response
  current,    \* self._state, and self._fsm over it
  cancelled,  \* self._cancelled
  active,     \* self._active_count
  drain,      \* drain(), as the signal handler starts it
  told,       \* observer: cancel() was called while the run was under way
  late,       \* observer: provider calls the run began after that
  acts,       \* observer: tool phases the run began after that
  mixed,      \* observer: another run was under way during this one
  closed      \* observer: the consumer closed the run's generator

vars == <<pc, decision, obj, status, steps, last, current, cancelled, active,
          drain, told, late, acts, mixed, closed>>
observers == <<told, late, acts, mixed, closed>>

Terminal == {"FINISHED", "ERROR", "CANCELLED"}
Status == Terminal \cup {"IDLE", "THINKING", "ACTING"}
UnderWay == {"trimming", "asking", "thought", "acting", "acted"}
Responses == {"tools", "finished", "neither"}
Decisions == {"act", "finish", "reason", "error"}

Allowed(s) == CASE s = "IDLE"     -> {"THINKING"}
                [] s = "THINKING" -> {"ACTING", "FINISHED", "ERROR"}
                [] s = "ACTING"   -> {"THINKING", "FINISHED", "ERROR"}
                [] OTHER          -> {}

\* transition_to returns; otherwise it raises StateTransitionError.
CanTransition(s, target) == s = target \/ target \in Allowed(s)

Running(r) == pc[r] \in UnderWay

Init == /\ pc = [r \in Runs |-> "new"]
        /\ decision = [r \in Runs |-> "reason"]
        /\ obj = [r \in Runs |-> r]
        /\ status = [o \in Runs |-> "IDLE"]
        /\ steps = [o \in Runs |-> 0]
        /\ last = [o \in Runs |-> "none"]
        /\ current = NoState
        /\ cancelled = FALSE
        /\ active = 0
        /\ drain = "no"
        /\ told = [r \in Runs |-> FALSE]
        /\ late = [r \in Runs |-> 0]
        /\ acts = [r \in Runs |-> 0]
        /\ mixed = [r \in Runs |-> FALSE]
        /\ closed = [r \in Runs |-> FALSE]

-----------------------------------------------------------------------------
(* How a run goes on with the state o in status s; n is the count of       *)
(* active runs it is one of, c the flag _cancelled.                        *)

\* Mutant: the exhausted budget is only logged.
Leave_BudgetUndecided(r, o, s, k, n, c) ==
  /\ status' = [status EXCEPT ![o] = IF c THEN "CANCELLED" ELSE s]
  /\ steps' = [steps EXCEPT ![o] = k]
  /\ pc' = [pc EXCEPT ![r] = "ended"]
  /\ active' = n - 1

\* Behind the loop: a cancel wins, an exhausted budget forces FINISHED.
Leave(r, o, s, k, n, c) ==
  /\ status' = [status EXCEPT ![o] = IF c THEN "CANCELLED"
                                     ELSE IF k >= MaxSteps /\ s = "THINKING"
                                          THEN "FINISHED" ELSE s]
  /\ steps' = [steps EXCEPT ![o] = k]
  /\ pc' = [pc EXCEPT ![r] = "ended"]
  /\ active' = n - 1

\* The outer except: a terminal status is kept, any other becomes ERROR.
Fatal(r, o, s, n) ==
  /\ status' = [status EXCEPT ![o] = IF s \in Terminal THEN s ELSE "ERROR"]
  /\ pc' = [pc EXCEPT ![r] = "ended"]
  /\ active' = n - 1
  /\ UNCHANGED steps

\* Mutant: the step is counted only by turns that call tools.
GoOn_NotCounted(r, o, s, n, c) ==
  IF c THEN Leave(r, o, s, steps[o], n, c)
  ELSE /\ status' = [status EXCEPT ![o] = s]
       /\ pc' = [pc EXCEPT ![r] = "trimming"]
       /\ active' = n
       /\ UNCHANGED steps

\* The head of the while loop: count the step, look for a cancel, trim.
GoOn(r, o, s, n, c) ==
  \/ /\ steps[o] < MaxSteps /\ ~c
     /\ status' = [status EXCEPT ![o] = s]
     /\ steps' = [steps EXCEPT ![o] = @ + 1]
     /\ pc' = [pc EXCEPT ![r] = "trimming"]
     /\ active' = n
  \/ /\ steps[o] < MaxSteps /\ c
     /\ Leave(r, o, s, steps[o] + 1, n, c)
  \/ /\ steps[o] >= MaxSteps
     /\ Leave(r, o, s, steps[o], n, c)

-----------------------------------------------------------------------------
\* _run_loop up to its first await; o is a fresh state or one handed in.
Begin(r, o) ==
  /\ pc[r] = "new"
  /\ o = r \/ (pc[o] = "ended" /\ obj[o] = o)
  /\ cancelled' = FALSE
  /\ current' = o
  /\ obj' = [obj EXCEPT ![r] = o]
  /\ mixed' = [q \in Runs |->
                 \/ mixed[q]
                 \/ Running(q)
                 \/ q = r /\ \E p \in Runs : Running(p)]
  /\ IF CanTransition(status[o], "THINKING")
     THEN GoOn(r, o, "THINKING", active + 1, FALSE)
     ELSE Fatal(r, o, status[o], active + 1)
  /\ UNCHANGED <<decision, last, drain, told, late, acts, closed>>

\* trim_with_summary returns and the provider is called: nothing in between
\* looks at the cancel flag.
Ask(r) ==
  /\ pc[r] = "trimming"
  /\ pc' = [pc EXCEPT ![r] = "asking"]
  /\ late' = [late EXCEPT ![r] = IF told[r] THEN @ + 1 ELSE @]
  /\ UNCHANGED <<decision, obj, status, steps, last, current, cancelled,
                 active, drain, told, acts, mixed, closed>>

\* DefaultPlanner.decide on the state o after response k.
Decide(o, k) ==
  IF status[o] \in {"ERROR", "CANCELLED"} THEN "error"
  ELSE IF steps[o] >= MaxSteps THEN "finish"
  ELSE CASE k = "tools" -> "act" [] k = "finished" -> "finish"
         [] OTHER -> "reason"

\* The provider answers; the step is recorded and handed to the consumer.
Answered(r, k) ==
  /\ pc[r] = "asking"
  /\ decision' = [decision EXCEPT ![r] = Decide(current, k)]
  /\ last' = [last EXCEPT ![current] = k]
  /\ pc' = [pc EXCEPT ![r] = "thought"]
  /\ UNCHANGED <<obj, status, steps, current, cancelled, active, drain,
                 observers>>

\* The trim or the provider raises: ERROR, unless the status forbids it.
Raised(r) ==
  /\ pc[r] \in {"trimming", "asking"}
  /\ IF CanTransition(status[current], "ERROR")
     THEN Leave(r, current, "ERROR", steps[current], active, cancelled)
     ELSE Fatal(r, current, status[current], active)
  /\ UNCHANGED <<decision, obj, last, current, cancelled, drain, observers>>

\* _run_act_phase: ACTING, and the calls of the last step of the state.
StartTools(r) ==
  LET o == current IN
  IF ~CanTransition(status[o], "ACTING")
  THEN Fatal(r, o, status[o], active) /\ UNCHANGED acts
  ELSE IF last[o] = "none"
  THEN GoOn(r, o, "ACTING", active, cancelled) /\ UNCHANGED acts
  ELSE /\ status' = [status EXCEPT ![o] = "ACTING"]
       /\ pc' = [pc EXCEPT ![r] =
                   IF last[o] = "tools" THEN "acting" ELSE "acted"]
       /\ acts' = [acts EXCEPT ![r] = IF told[r] THEN @ + 1 ELSE @]
       /\ UNCHANGED <<steps, active>>

\* The consumer asks for the next step: the decision is carried out.
Resume(r) ==
  /\ pc[r] = "thought"
  /\ LET o == current
         s == status[o]
     IN \/ /\ decision[r] = "finish"
           /\ IF CanTransition(s, "FINISHED")
              THEN Leave(r, o, "FINISHED", steps[o], active, cancelled)
              ELSE Fatal(r, o, s, active)
           /\ UNCHANGED acts
        \/ /\ decision[r] = "error"
           /\ IF CanTransition(s, "ERROR")
              THEN Leave(r, o, "ERROR", steps[o], active, cancelled)
              ELSE Fatal(r, o, s, active)
           /\ UNCHANGED acts
        \/ /\ decision[r] = "act"
           /\ StartTools(r)
        \/ /\ decision[r] = "reason"
           /\ GoOn(r, o, s, active, cancelled)
           /\ UNCHANGED acts
  /\ UNCHANGED <<decision, obj, last, current, cancelled, drain, told, late,
                 mixed, closed>>

\* The tools have answered: back to THINKING, and the step is yielded again.
ToolsDone(r) ==
  /\ pc[r] = "acting"
  /\ IF CanTransition(status[current], "THINKING")
     THEN /\ status' = [status EXCEPT ![current] = "THINKING"]
          /\ pc' = [pc EXCEPT ![r] = "acted"]
          /\ UNCHANGED <<steps, active>>
     ELSE Fatal(r, current, status[current], active)
  /\ UNCHANGED <<decision, obj, last, current, cancelled, drain, observers>>

\* The consumer asks for the next step after a tool phase.
NextTurn(r) ==
  /\ pc[r] = "acted"
  /\ GoOn(r, current, status[current], active, cancelled)
  /\ UNCHANGED <<decision, obj, last, current, cancelled, drain, observers>>

\* The task is cancelled or the generator closed: only the count is undone.
Close(r) ==
  /\ Running(r)
  /\ pc' = [pc EXCEPT ![r] = "ended"]
  /\ active' = active - 1
  /\ closed' = [closed EXCEPT ![r] = TRUE]
  /\ UNCHANGED <<decision, obj, status, steps, last, current, cancelled,
                 drain, told, late, acts, mixed>>

-----------------------------------------------------------------------------
\* Mutant: cancel() leaves the status to the loop.
MarkCancelled_FlagOnly ==
  /\ cancelled' = TRUE
  /\ told' = [r \in Runs |-> told[r] \/ Running(r)]
  /\ UNCHANGED status

\* cancel(): the flag, and CANCELLED past the state machine.
MarkCancelled ==
  /\ cancelled' = TRUE
  /\ status' = IF current = NoState THEN status
               ELSE [status EXCEPT ![current] = "CANCELLED"]
  /\ told' = [r \in Runs |-> told[r] \/ Running(r)]

Cancel == /\ MarkCancelled
          /\ UNCHANGED <<pc, decision, obj, steps, last, current, active,
                         drain, late, acts, mixed, closed>>

\* The first SIGTERM or SIGINT: cancel and start to drain.
Signal == /\ drain = "no"
          /\ MarkCancelled
          /\ drain' = "waiting"
          /\ UNCHANGED <<pc, decision, obj, steps, last, current, active,
                         late, acts, mixed, closed>>

\* drain() sees the count at zero; a drain that times out reports nothing.
DrainEnds == /\ drain = "waiting" /\ active = 0
             /\ drain' = "drained"
             /\ UNCHANGED <<pc, decision, obj, status, steps, last, current,
                            cancelled, active, observers>>

Step(r) == \/ \E o \in Runs : Begin(r, o)
           \/ Ask(r) \/ Raised(r) \/ Resume(r) \/ ToolsDone(r) \/ NextTurn(r)
           \/ \E k \in Responses : Answered(r, k)
           \/ Close(r)

Next == (\E r \in Runs : Step(r)) \/ Cancel \/ Signal \/ DrainEnds

Spec == Init /\ [][Next]_vars

\* Trims, providers and tools return, and consumers go on or close.
Advance(r) == Ask(r) \/ Resume(r) \/ ToolsDone(r) \/ NextTurn(r)
               \/ \E k \in Responses : Answered(r, k)

Fairness == \A r \in Runs : WF_vars(Advance(r))

FairSpec == Spec /\ Fairness

-----------------------------------------------------------------------------
(* Properties.                                                             *)

\* Types, and the count of active runs.
TypeOK ==
  /\ pc \in [Runs -> UnderWay \cup {"new", "ended"}]
  /\ decision \in [Runs -> Decisions]
  /\ obj \in [Runs -> Runs]
  /\ status \in [Runs -> Status]
  /\ steps \in [Runs -> 0..MaxSteps]
  /\ last \in [Runs -> Responses \cup {"none"}]
  /\ current \in Runs \cup {NoState}
  /\ cancelled \in BOOLEAN
  /\ active \in Nat
  /\ drain \in {"no", "waiting", "drained"}
  /\ told \in [Runs -> BOOLEAN]
  /\ late \in [Runs -> Nat]
  /\ acts \in [Runs -> Nat]
  /\ mixed \in [Runs -> BOOLEAN]
  /\ closed \in [Runs -> BOOLEAN]

\* cancel() during a run that has the runtime to itself is honoured whatever
\* the run is doing: it makes at most the provider call it was about to make,
\* starts no tool, and its state is and stays CANCELLED, although cancel()
\* writes past the state machine the loop goes on with (agent.py:844).
CancelHonoured ==
  \A r \in Runs : told[r] /\ ~mixed[r] =>
    late[r] <= 1 /\ acts[r] = 0 /\ status[obj[r]] = "CANCELLED"

\* A run that has the runtime to itself and is not closed from outside leaves
\* its state in a terminal status, through whichever of the breaks, the
\* exhausted loop and the two handlers of _run_loop it ends (agent.py:878).
EndsDecided ==
  \A r \in Runs : pc[r] = "ended" /\ ~mixed[r] /\ ~closed[r] =>
    status[obj[r]] \in Terminal

\* Every run that is begun ends, whatever runs share the state with it: the
\* steps are counted before anything is awaited (agent.py:881).
RunsEnd == \A r \in Runs : Running(r) ~> pc[r] = "ended"

\* CHANGELOG.md:247: shutdown signals could be silently lost; now cancel is
\* thread-safe.  Stated as: a run that was told to stop does.
CancelNeverLost == \A r \in Runs : told[r] => late[r] <= 1
=============================================================================
