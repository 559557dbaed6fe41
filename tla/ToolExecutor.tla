---------------------------- MODULE ToolExecutor ----------------------------
(***************************************************************************)
(* One tool phase of AgentRuntime: ToolExecutor.execute_all runs the calls *)
(* of a response under a semaphore, each with a timeout per attempt, retry *)
(* and back-off.  A coroutine ends with its timeout; a plain function runs *)
(* in a thread of the event loop's default pool and keeps that thread when *)
(* its attempt has timed out.  The next think phase needs a thread of the  *)
(* same pool for the token count of the memory trim, without a timeout.    *)
(***************************************************************************)
EXTENDS Naturals, FiniteSets

CONSTANTS
  Calls,          \* the tool calls of the response
  MaxConcurrent,  \* AgentConfig.max_concurrent_tools
  MaxRetries,     \* AgentConfig.tool_max_retries
  PoolSize        \* threads of the default executor

ASSUME ExecutorAssumption == MaxRetries \in Nat

VARIABLES
  kind,     \* per call: what the registry holds under its name
  phase,    \* per call: where execute is
  attempt,  \* per call: the loop variable
  outcome,  \* observer, per call and attempt: how it ended
  answer,   \* per call: "result", "error" or "none" yet
  threads,  \* executions in the pool, also those nobody waits for any more
  trim      \* the token count of the next think phase

executorVars == <<kind, phase, attempt, outcome, answer, threads, trim>>

Kinds == {"coroutine", "function", "unknown"}
Attempts == 0..MaxRetries
Holding == {"submitted", "running", "sleeping"}  \* inside the semaphore

ExecutorInit == /\ kind \in [Calls -> Kinds]
                /\ phase = [c \in Calls |-> "queued"]
                /\ attempt = [c \in Calls |-> 0]
                /\ outcome = [c \in Calls |-> [a \in Attempts |-> "none"]]
                /\ answer = [c \in Calls |-> "none"]
                /\ threads = {}
                /\ trim = "no"

\* The phase an attempt starts in: a function waits for a thread.
Started(c) == IF kind[c] = "function" THEN "submitted" ELSE "running"

FreeThread == Cardinality(threads) < PoolSize

\* async with self._semaphore; an unknown tool is answered at once.
Acquire(c) ==
  /\ phase[c] = "queued"
  /\ Cardinality({d \in Calls : phase[d] \in Holding}) < MaxConcurrent
  /\ IF kind[c] = "unknown"
     THEN /\ phase' = [phase EXCEPT ![c] = "answered"]
          /\ answer' = [answer EXCEPT ![c] = "error"]
     ELSE /\ phase' = [phase EXCEPT ![c] = Started(c)]
          /\ UNCHANGED answer
  /\ UNCHANGED <<kind, attempt, outcome, threads, trim>>

\* The pool takes up the function of the attempt.
ThreadTaken(c) ==
  /\ phase[c] = "submitted" /\ FreeThread
  /\ phase' = [phase EXCEPT ![c] = "running"]
  /\ threads' = threads \cup {<<c, attempt[c]>>}
  /\ UNCHANGED <<kind, attempt, outcome, answer, trim>>

\* The attempt that is waited for ends as o; execute answers with a.
Answers(c, o, a) ==
  /\ phase' = [phase EXCEPT ![c] = "answered"]
  /\ outcome' = [outcome EXCEPT ![c][attempt[c]] = o]
  /\ answer' = [answer EXCEPT ![c] = a]
  /\ UNCHANGED <<kind, attempt, trim>>

\* It ends as o, and another attempt is left: sleep before it.
BacksOff(c, o) ==
  /\ attempt[c] < MaxRetries
  /\ phase' = [phase EXCEPT ![c] = "sleeping"]
  /\ outcome' = [outcome EXCEPT ![c][attempt[c]] = o]
  /\ UNCHANGED <<kind, attempt, answer, trim>>

\* The tool returns a result.
Returns(c) ==
  /\ phase[c] = "running"
  /\ Answers(c, "returned", "result")
  /\ threads' = threads \ {<<c, attempt[c]>>}

\* Mutant: a FATAL failure is retried like any other.
Fails_RetriesFatal(c) ==
  /\ phase[c] = "running"
  /\ \E o \in {"fatal", "failed"} :
       BacksOff(c, o) \/ (attempt[c] = MaxRetries /\ Answers(c, o, "error"))
  /\ threads' = threads \ {<<c, attempt[c]>>}

\* The tool raises: only FATAL, or the last attempt, ends the loop.
Fails(c) ==
  /\ phase[c] = "running"
  /\ \/ Answers(c, "fatal", "error")
     \/ BacksOff(c, "failed")
     \/ attempt[c] = MaxRetries /\ Answers(c, "failed", "error")
  /\ threads' = threads \ {<<c, attempt[c]>>}

\* Mutant: the timeout covers the work, not the wait for a thread.
TimesOut_RunningOnly(c) ==
  /\ phase[c] = "running"
  /\ BacksOff(c, "timed out")
     \/ (attempt[c] = MaxRetries /\ Answers(c, "timed out", "error"))
  /\ UNCHANGED threads

\* wait_for gives up: a job still queued is withdrawn, a thread is not.
TimesOut(c) ==
  /\ phase[c] \in {"submitted", "running"}
  /\ \/ BacksOff(c, "timed out")
     \/ attempt[c] = MaxRetries /\ Answers(c, "timed out", "error")
  /\ UNCHANGED threads

\* The back-off is over: the next attempt.
Wakes(c) ==
  /\ phase[c] = "sleeping"
  /\ attempt' = [attempt EXCEPT ![c] = @ + 1]
  /\ phase' = [phase EXCEPT ![c] = Started(c)]
  /\ UNCHANGED <<kind, outcome, answer, threads, trim>>

\* A function that nobody waits for returns, and its thread is free again.
StrayEnds(t) ==
  /\ t \in threads
  /\ outcome[t[1]][t[2]] = "timed out"
  /\ threads' = threads \ {t}
  /\ UNCHANGED <<kind, phase, attempt, outcome, answer, trim>>

\* gather has every answer; the run goes on to trim its memory.
Gathered ==
  /\ trim = "no" /\ \A c \in Calls : phase[c] = "answered"
  /\ trim' = "submitted"
  /\ UNCHANGED <<kind, phase, attempt, outcome, answer, threads>>

\* A thread counts the tokens.
Trimmed ==
  /\ trim = "submitted" /\ FreeThread
  /\ trim' = "done"
  /\ UNCHANGED <<kind, phase, attempt, outcome, answer, threads>>

CallStep(c) == Acquire(c) \/ ThreadTaken(c) \/ Returns(c) \/ Fails(c)
               \/ TimesOut(c) \/ Wakes(c)
PoolStep == \E c \in Calls, a \in Attempts : StrayEnds(<<c, a>>)

ExecutorNext == (\E c \in Calls : CallStep(c)) \/ PoolStep \/ Gathered \/ Trimmed

ExecutorSpec == ExecutorInit /\ [][ExecutorNext]_executorVars

-----------------------------------------------------------------------------
\* An answer is explained by its attempts: a result comes from the attempt
\* execute was waiting for, never from a thread it had given up; after a
\* success or a FATAL nothing is tried again; an error means FATAL, an
\* unknown tool, or every attempt used up (agent.py:449).
AnswersExplained ==
  \A c \in Calls : LET end == outcome[c][attempt[c]] IN
    /\ \A a \in Attempts : a < attempt[c] =>
         outcome[c][a] \in {"failed", "timed out"}
    /\ answer[c] = "result" => end = "returned"
    /\ answer[c] = "error" => \/ kind[c] = "unknown" \/ end = "fatal"
                              \/ /\ attempt[c] = MaxRetries
                                 /\ end \in {"failed", "timed out"}
    /\ kind[c] = "coroutine" => \A t \in threads : t[1] # c

\* The phase ends and the run can think again, though tools may never answer
\* within their timeout: every wait of execute is bounded, and the trim, which
\* has no timeout, finds a thread once the strays return (agent.py:469).
TurnEnds == <>(trim = "done")

\* The calls, their timeouts and back-offs, and strays that return at last.
Waits(c) == Acquire(c) \/ TimesOut(c) \/ Wakes(c)
Collects == Gathered \/ Trimmed
=============================================================================
