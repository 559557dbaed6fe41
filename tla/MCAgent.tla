------------------------------- MODULE MCAgent -------------------------------
(***************************************************************************)
(* Small instances of AgentRuntime, ToolExecutor, StreamingText, AgentLoop    *)
(* and ConversationMemory for TLC.  They share no state; a behaviour is one   *)
(* of one of the five.                                                       *)
(***************************************************************************)
EXTENDS AgentRuntime, ToolExecutor, StreamingText, AgentLoop,
        ConversationMemory, TLC

VARIABLE subject

\* Answers of the model: equal ids, equal signatures, several calls.
ToolCall(i, s) == [id |-> i, signature |-> s]
SomeResponses ==
  {<<>>, <<ToolCall(1, "a"), ToolCall(1, "b")>>,
   <<ToolCall(1, "a"), ToolCall(2, "a")>>,
   <<ToolCall(1, "b"), ToolCall(2, "a"), ToolCall(2, "b")>>}

InitEither ==
  /\ Init /\ ExecutorInit /\ TextInit /\ LoopInit /\ MemoryInit
  /\ subject \in {"runtime", "executor", "text", "loop", "memory"}
  /\ subject # "executor" => kind = [c \in Calls |-> "unknown"]
  /\ subject # "loop" => policy = "off"
  /\ subject # "memory" => mode = "loop"

NextEither ==
  /\ UNCHANGED subject
  /\ \/ subject = "runtime" /\ Next
        /\ UNCHANGED <<executorVars, textVars, loopVars, memoryVars>>
     \/ subject = "executor" /\ ExecutorNext
        /\ UNCHANGED <<vars, textVars, loopVars, memoryVars>>
     \/ subject = "text" /\ TextNext
        /\ UNCHANGED <<vars, executorVars, loopVars, memoryVars>>
     \/ subject = "loop" /\ LoopNext
        /\ UNCHANGED <<vars, executorVars, textVars, memoryVars>>
     \/ subject = "memory" /\ MemoryNext
        /\ UNCHANGED <<vars, executorVars, textVars, loopVars>>

everything == <<vars, executorVars, textVars, loopVars, memoryVars, subject>>

SpecEither == InitEither /\ [][NextEither]_everything

\* Runs go on, waits of tools and strays end, the tasks of a stream are run.
FairSpecEither ==
  /\ SpecEither
  /\ \A r \in Runs :
       WF_vars(subject = "runtime" /\ Advance(r)
               /\ UNCHANGED <<executorVars, textVars, loopVars, memoryVars, subject>>)
  /\ \A c \in Calls :
       WF_executorVars(subject = "executor" /\ Waits(c)
                       /\ UNCHANGED <<vars, textVars, loopVars, memoryVars, subject>>)
  /\ WF_executorVars(subject = "executor" /\ (PoolStep \/ Collects)
                     /\ UNCHANGED <<vars, textVars, loopVars, memoryVars, subject>>)
  /\ WF_textVars(subject = "text" /\ Runner
                 /\ UNCHANGED <<vars, executorVars, loopVars, memoryVars, subject>>)
  /\ WF_textVars(subject = "text" /\ Generator
                 /\ UNCHANGED <<vars, executorVars, loopVars, memoryVars, subject>>)

\* A tool phase ends, whatever its tools do.
EveryTurnEnds == subject = "executor" => TurnEnds

\* The generator of streamed text ends, unless closed over a full queue.
EveryTextStreamEnds == subject = "text" => TextStreamEnds
=============================================================================
