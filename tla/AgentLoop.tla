----------------------------- MODULE AgentLoop -----------------------------
(***************************************************************************)
(* AgentLoop._run_internal: ask the pipeline, execute the tool calls of    *)
(* the answer one after another, ask again.  One context is used by        *)
(* several run() calls, as a caller does that retries after a failure.     *)
(*                                                                         *)
(* Of the messages only those since the last assistant message are kept    *)
(* here; the trim of the memory, whose await is part of the turn, is       *)
(* ConversationMemory.  A response is the sequence of its tool calls and   *)
(* a text, which stands for its content and its finish_reason.             *)
(***************************************************************************)
EXTENDS Naturals, Sequences, FiniteSets

CONSTANTS
  ModelAnswers,  \* sequences of calls [id, signature] the model may answer with
  Texts,         \* content and finish_reason of an answer, told apart by hash
  Outcomes,      \* results of tools, told apart by their hash
  MaxTurns,      \* max_turns
  Window,        \* agent_progress_window
  MaxDepth,      \* _MAX_TOOL_CALL_DEPTH
  MaxRuns        \* bound: run() calls with one context

ASSUME LoopAssumption ==
  /\ \A r \in ModelAnswers : r \in Seq({r[i] : i \in DOMAIN r})
  /\ Window \in Nat

VARIABLES
  policy,      \* tool_call_dedup_policy
  stage, turn, runs,
  tail,        \* messages since the last assistant message, which comes first
  response, said, todo, \* the answer's calls and text; calls not yet looked at
  seenIds, seenSigs,    \* turn_seen_ids, turn_seen_signatures
  summaries,   \* turn_result_summaries
  recent,      \* recent_state_hashes
  depth,       \* metadata["tool_calls_depth"]
  marked,      \* metadata["_is_tool_call_phase"]
  broken,      \* observer: the tool step of the last response was cut off
  streak       \* observer: equal turns in a row, the last included

loopVars == <<policy, stage, turn, runs, tail, response, said, todo, seenIds,
              seenSigs, summaries, recent, depth, marked, broken, streak>>
toolVars == <<tail, response, said, todo, seenIds, seenSigs, summaries>>

Policies == {"off", "relaxed", "strict"}

LoopInit == /\ policy \in Policies
            /\ stage = "idle" /\ turn = 0 /\ runs = 0
            /\ tail = <<>> /\ response = <<>> /\ said = <<>> /\ todo = <<>>
            /\ seenIds = {} /\ seenSigs = {}
            /\ summaries = <<>> /\ recent = <<>>
            /\ depth = 0 /\ marked = FALSE /\ broken = FALSE /\ streak = 0

\* run(): the locals of the loop start afresh, the context does not.
Run == /\ stage \in {"idle", "returned", "exhausted", "raised"}
       /\ runs < MaxRuns
       /\ runs' = runs + 1
       /\ turn' = 1
       /\ recent' = <<>> /\ streak' = 0
       /\ stage' = "trimming"
       /\ UNCHANGED <<policy, toolVars, depth, marked, broken>>

\* The trim returns and the pipeline is run; its validation refuses a context
\* whose last turn counted too many calls.
AskModel == /\ stage = "trimming"
            /\ stage' = IF depth > MaxDepth THEN "raised" ELSE "asking"
            /\ UNCHANGED <<policy, turn, runs, toolVars, recent, depth, marked,
                           broken, streak>>

\* Mutant: what a turn has seen is still known in the next one.
Answer_KeepsSeen(r, text) ==
  /\ stage = "asking"
  /\ IF r = <<>>
     THEN /\ stage' = "returned"
          /\ UNCHANGED <<toolVars, depth, broken>>
     ELSE /\ stage' = "calls"
          /\ response' = r /\ said' = text /\ todo' = r
          /\ tail' = <<[role |-> "assistant", call |-> r]>>
          /\ summaries' = <<>>
          /\ depth' = 0
          /\ broken' = FALSE
          /\ UNCHANGED <<seenIds, seenSigs>>
  /\ UNCHANGED <<policy, turn, runs, recent, marked, streak>>

\* An answer without tool calls ends the run; another is appended before any
\* of its calls is executed; a mark left by a run that was cut off stays.
Answer(r, text) ==
  /\ stage = "asking"
  /\ IF r = <<>>
     THEN /\ stage' = "returned"
          /\ UNCHANGED <<toolVars, depth, broken>>
     ELSE /\ stage' = "calls"
          /\ response' = r /\ said' = text /\ todo' = r
          /\ tail' = <<[role |-> "assistant", call |-> r]>>
          /\ seenIds' = {} /\ seenSigs' = {}
          /\ summaries' = <<>>
          /\ depth' = 0
          /\ broken' = FALSE
  /\ UNCHANGED <<policy, turn, runs, recent, marked, streak>>

\* _is_duplicate_tool_call, before it adds the call to what it has seen.
Duplicate(c) ==
  /\ policy # "off"
  /\ c.id \in seenIds \/ (policy = "strict" /\ c.signature \in seenSigs)

\* The sets are not kept when the policy is off.
See(c) == IF policy = "off" THEN UNCHANGED <<seenIds, seenSigs>>
          ELSE /\ seenIds' = seenIds \cup {c.id}
               /\ seenSigs' = seenSigs \cup {c.signature}

Skip == /\ stage = "calls" /\ todo # <<>>
        /\ Duplicate(Head(todo))
        /\ See(Head(todo))
        /\ todo' = Tail(todo)
        /\ UNCHANGED <<policy, stage, turn, runs, tail, response, said,
                       summaries, recent, depth, marked, broken, streak>>

\* Count and mark the call, and hand it to the pipeline and the registry.
Execute == /\ stage = "calls" /\ todo # <<>>
           /\ ~Duplicate(Head(todo))
           /\ See(Head(todo))
           /\ depth' = depth + 1
           /\ marked' = TRUE
           /\ stage' = "executing"
           /\ UNCHANGED <<policy, turn, runs, tail, response, said, todo,
                          summaries, recent, broken, streak>>

\* The processed result is summarised and appended; the registry answers a
\* call beyond the depth with an error of its own.
Executed(o) ==
  LET c == Head(todo)
      result == IF depth > MaxDepth THEN "too deep" ELSE o
  IN /\ stage = "executing"
     /\ marked' = FALSE
     /\ summaries' = Append(summaries, <<c.id, result>>)
     /\ tail' = Append(tail, [role |-> "tool", call |-> c])
     /\ todo' = Tail(todo)
     /\ stage' = "calls"
     /\ UNCHANGED <<policy, turn, runs, response, said, seenIds, seenSigs,
                    recent, depth, broken, streak>>

\* Mutant: a deque without maxlen.
Newest_Unbounded(s) == s

\* The last Window elements of a sequence.
Newest(s) == IF Len(s) > Window THEN Tail(s) ELSE s

\* All calls are done: compare the turn with the ones before it, in all that
\* _build_turn_state_hash takes in.
EndTurn ==
  LET hash == <<said, response, summaries>>
      window == Newest(Append(recent, hash))
      stuck == /\ Window > 0 /\ Len(window) = Window
               /\ \A i \in 1..Window : window[i] = hash
  IN /\ stage = "calls" /\ todo = <<>>
     /\ recent' = window
     /\ streak' = IF recent # <<>> /\ recent[Len(recent)] = hash
                  THEN streak + 1 ELSE 1
     /\ IF stuck THEN stage' = "returned" /\ UNCHANGED turn
        ELSE IF turn = MaxTurns THEN stage' = "exhausted" /\ UNCHANGED turn
        ELSE stage' = "trimming" /\ turn' = turn + 1
     /\ UNCHANGED <<policy, runs, toolVars, depth, marked, broken>>

\* The pipeline or a middleware of the tool step raises, or run_timeout or the
\* caller cancels: whatever the turn had done so far stays in the context.
CutOff == /\ stage \in {"trimming", "asking", "executing"}
          /\ stage' = "raised"
          /\ broken' = (broken \/ stage = "executing")
          /\ UNCHANGED <<policy, turn, runs, toolVars, recent, depth, marked,
                         streak>>

LoopNext == Run \/ AskModel \/ Skip \/ Execute \/ EndTurn \/ CutOff
            \/ (\E r \in ModelAnswers, text \in Texts : Answer(r, text))
            \/ (\E o \in Outcomes : Executed(o))

LoopSpec == LoopInit /\ [][LoopNext]_loopVars

-----------------------------------------------------------------------------
\* The calls of a response that are to be executed, by position: the first
\* with their id, and under "strict" the first with their signature.
Wanted(r) == {i \in DOMAIN r :
  \/ policy = "off"
  \/ \A j \in 1..(i - 1) : /\ r[j].id # r[i].id
                           /\ policy = "strict" => r[j].signature # r[i].signature}

\* When the model is asked, the answers to the calls of the last response are
\* there once each and in order, but for the duplicates the policy drops
\* (agent.py:195).  They are all there and the context is not marked as being in
\* a tool step, unless that step failed or was cancelled: then the answers stop
\* short of a call and the mark is left (agent.py:210), and the next run with
\* the context asks the model like that.
AskShowsTheTurn ==
  stage = "asking" =>
    /\ marked <=> broken
    /\ tail # <<>> =>
         LET calls == tail[1].call
             answers == Tail(tail)
             wanted == Wanted(calls)
             Place(i) == Cardinality({j \in wanted : j <= i})
         IN /\ \A i \in wanted :
                 Place(i) <= Len(answers) => answers[Place(i)].call = calls[i]
            /\ IF broken THEN Len(answers) < Cardinality(wanted)
                         ELSE Len(answers) = Cardinality(wanted)

\* A run does not go on after Window turns in a row that are equal in content
\* and finish_reason, in their calls and in the results (agent.py:227, 281).
NoSpin == Window > 0 =>
            /\ streak <= Window
            /\ streak = Window => stage \notin {"trimming", "asking"}
=============================================================================
