----------------------------- MODULE Agent_proofs -----------------------------
(***************************************************************************)
(* Proofs about the agent, for any numbers of runs, steps, calls, retries,    *)
(* threads, chunks, turns and messages: AgentRuntime, whose runs share its    *)
(* state; the tool phase of ToolExecutor; the streamed text of StreamingText; *)
(* the loop of AgentLoop; and what ConversationMemory leaves of a             *)
(* conversation.                                                              *)
(***************************************************************************)
EXTENDS AgentRuntime, ToolExecutor, StreamingText, AgentLoop, ConversationMemory,
        Inductions

-----------------------------------------------------------------------------
(* Runs that share a runtime                                                 *)

\* Some run has been begun once a state is installed, and _active_count is the
\* number of runs under way.
Counted ==
  /\ current = NoState => \A r \in Runs : pc[r] = "new"
  /\ active = Cardinality({r \in Runs : Running(r)})

\* A run that has the runtime to itself works on its own state, and no other
\* run is under way.
Alone ==
  \A r \in Runs : Running(r) /\ ~mixed[r] =>
    current = obj[r] /\ \A q \in Runs : Running(q) => q = r

\* A run that is not told to stop has done nothing after that; a run is told
\* only while it is under way.
Untold ==
  \A r \in Runs :
    /\ ~told[r] => late[r] = 0 /\ acts[r] = 0
    /\ pc[r] = "new" => ~told[r]

\* A run that is told to stop finds the flag set.
Stopping ==
  \A r \in Runs : told[r] /\ ~mixed[r] /\ Running(r) =>
    cancelled /\ (pc[r] = "trimming" => late[r] = 0)

\* Where a run is and the status of its state agree, unless that is terminal.
OnCourse ==
  \A r \in Runs : Running(r) /\ ~mixed[r] =>
    /\ pc[r] = "acting" => status[current] \in Terminal \cup {"ACTING"}
    /\ pc[r] # "acting" => status[current] \in Terminal \cup {"THINKING"}
    /\ pc[r] = "thought" /\ decision[r] = "act" => last[current] = "tools"

IInv == TypeOK /\ Counted /\ Alone /\ Untold /\ Stopping /\ CancelHonoured
        /\ OnCourse /\ EndsDecided

-----------------------------------------------------------------------------
(* How a run goes on *)

\* Run r goes on with state o, in a program of n active runs: what Leave, Fatal
\* and GoOn have in common.
Goes(r, o, n) ==
  /\ pc'[r] \in UnderWay \cup {"ended"}
  /\ pc' = [pc EXCEPT ![r] = pc'[r]]
  /\ active' = IF pc'[r] = "ended" THEN n - 1 ELSE n
  /\ status'[o] \in Status
  /\ status' = [status EXCEPT ![o] = status'[o]]
  /\ steps' \in [Runs -> 0..MaxSteps]

\* A status that is terminal stays so, and CANCELLED stays CANCELLED.
Settled(s, t) == /\ s \in Terminal => t \in Terminal
                 /\ s = "CANCELLED" => t = "CANCELLED"

\* Behind the loop.
LEMMA LeaveGoes ==
  ASSUME TypeOK, NEW r \in Runs, NEW o \in Runs, NEW s \in Status, NEW k \in 0..MaxSteps,
         NEW n \in Int, NEW c \in BOOLEAN, Leave(r, o, s, k, n, c)
  PROVE  /\ Goes(r, o, n) /\ pc'[r] = "ended"
         /\ Settled(s, status'[o])
         /\ c => status'[o] = "CANCELLED"
         /\ s = "THINKING" /\ k >= MaxSteps => status'[o] \in Terminal
BY DEF TypeOK, Leave, Goes, Settled, Status, Terminal

\* The outer except.
LEMMA FatalGoes ==
  ASSUME TypeOK, NEW r \in Runs, NEW o \in Runs, NEW s \in Status, NEW n \in Int,
         Fatal(r, o, s, n)
  PROVE  /\ Goes(r, o, n) /\ pc'[r] = "ended"
         /\ Settled(s, status'[o]) /\ status'[o] \in Terminal
BY DEF TypeOK, Fatal, Goes, Settled, Status, Terminal

\* The head of the loop.
LEMMA GoOnGoes ==
  ASSUME TypeOK, NEW r \in Runs, NEW o \in Runs, NEW s \in Status, NEW n \in Int,
         NEW c \in BOOLEAN, GoOn(r, o, s, n, c)
  PROVE  /\ Goes(r, o, n)
         /\ Settled(s, status'[o])
         /\ \/ pc'[r] = "trimming" /\ ~c /\ status'[o] = s
            \/ /\ pc'[r] = "ended"
               /\ s \in Terminal \cup {"THINKING"} => status'[o] \in Terminal
<1> USE RuntimeAssumption
<1>0. steps[o] \in 0..MaxSteps /\ MaxSteps \in Nat
  BY DEF TypeOK
<1>1. CASE /\ steps[o] < MaxSteps /\ ~c
           /\ status' = [status EXCEPT ![o] = s]
           /\ steps' = [steps EXCEPT ![o] = @ + 1]
           /\ pc' = [pc EXCEPT ![r] = "trimming"]
           /\ active' = n
  BY <1>0, <1>1 DEF TypeOK, Goes, Settled, UnderWay
<1>2. CASE steps[o] < MaxSteps /\ c /\ Leave(r, o, s, steps[o] + 1, n, c)
  <2>1. steps[o] + 1 \in 0..MaxSteps
    BY <1>0, <1>2
  <2> QED BY <1>2, <2>1, LeaveGoes, ZenonT(60) DEF Terminal
<1>3. CASE steps[o] >= MaxSteps /\ Leave(r, o, s, steps[o], n, c)
  BY <1>0, <1>3, LeaveGoes DEF Settled
<1> QED BY <1>1, <1>2, <1>3 DEF GoOn

-----------------------------------------------------------------------------
(* A turn: the step of a run under way *)

Turn(r) == \/ Ask(r) \/ Raised(r) \/ Resume(r) \/ ToolsDone(r) \/ NextTurn(r)
           \/ \E k \in Responses : Answered(r, k)
           \/ Close(r)

\* A turn is one of a run under way; it works on the state installed, leaves
\* who is told and mixed alone, and settles what is settled.
Turned(r) ==
  /\ Running(r)
  /\ Goes(r, current, active)
  /\ Settled(status[current], status'[current])
  /\ UNCHANGED <<obj, current, cancelled, drain, told, mixed>>
  /\ decision' \in [Runs -> Decisions] /\ last' \in [Runs -> Responses \cup {"none"}]
  /\ late' = [late EXCEPT ![r] = late'[r]] /\ acts' = [acts EXCEPT ![r] = acts'[r]]
  /\ late'[r] = IF pc[r] = "trimming" /\ pc'[r] = "asking" /\ told[r] THEN late[r] + 1 ELSE late[r]
  /\ acts'[r] = IF told[r] /\ status[current] # "CANCELLED" THEN acts'[r] ELSE acts[r]
  /\ acts'[r] \in Nat
  /\ closed' \in [Runs -> BOOLEAN] /\ \A q \in Runs : closed[q] => closed'[q]
  /\ cancelled => pc'[r] # "trimming"

\* Where a run is and the status of the state agree.
InPlace(r) ==
  /\ pc[r] = "acting" => status[current] \in Terminal \cup {"ACTING"}
  /\ pc[r] # "acting" => status[current] \in Terminal \cup {"THINKING"}
  /\ pc[r] = "thought" /\ decision[r] = "act" => last[current] = "tools"

\* Once they do they do until the run ends, with a terminal status.
KeepsFitting(r) ==
  InPlace(r) => IF pc'[r] = "ended" THEN closed'[r] \/ status'[current] \in Terminal ELSE InPlace(r)'

LEMMA AskTurns ==
  ASSUME TypeOK, Counted, NEW r \in Runs, Ask(r)
  PROVE  Turned(r) /\ KeepsFitting(r)
BY DEF TypeOK, Counted, Ask, Turned, KeepsFitting, InPlace, Goes, Settled, Running, UnderWay

\* A run under way finds a state installed.
LEMMA Installed ==
  ASSUME TypeOK, Counted, NEW r \in Runs, Running(r)
  PROVE  /\ current \in Runs /\ status[current] \in Status /\ steps[current] \in 0..MaxSteps
         /\ active \in Int /\ cancelled \in BOOLEAN
BY DEF TypeOK, Counted, Running, UnderWay

\* What a run may do to the status of its state.
LEMMA Transitions ==
  /\ \A s \in Terminal, t \in Status : CanTransition(s, t) => s = t
  /\ Terminal \subseteq Status
  /\ "THINKING" \in Status \ Terminal /\ "ACTING" \in Status \ Terminal
BY DEF Terminal, Status, CanTransition, Allowed

LEMMA AnsweredTurns ==
  ASSUME TypeOK, Counted, NEW r \in Runs, NEW k \in Responses, Answered(r, k)
  PROVE  Turned(r) /\ KeepsFitting(r)
<1>1. Running(r)
  BY DEF Answered, Running, UnderWay
<1>2. Decide(current, k) \in Decisions /\ (Decide(current, k) = "act" => k = "tools")
  BY DEF Decide, Decisions, Responses
<1>3. current \in Runs /\ status[current] \in Status
  BY <1>1, Installed
<1> QED BY <1>1, <1>2, <1>3
        DEF TypeOK, Answered, Turned, KeepsFitting, InPlace, Goes, Settled, Running, UnderWay, observers

LEMMA CloseTurns ==
  ASSUME TypeOK, Counted, NEW r \in Runs, Close(r)
  PROVE  Turned(r) /\ KeepsFitting(r)
<1>1. current \in Runs /\ status[current] \in Status
  BY Installed DEF Close
<1> QED BY <1>1 DEF TypeOK, Close, Turned, KeepsFitting, InPlace, Goes, Settled, Running, UnderWay

LEMMA RaisedTurns ==
  ASSUME TypeOK, Counted, NEW r \in Runs, Raised(r)
  PROVE  Turned(r) /\ KeepsFitting(r)
<1>1. Running(r)
  BY DEF Raised, Running, UnderWay
<1>2. current \in Runs /\ status[current] \in Status /\ steps[current] \in 0..MaxSteps
      /\ active \in Int /\ cancelled \in BOOLEAN /\ "ERROR" \in Status
  BY <1>1, Installed DEF Status, Terminal
<1>3. /\ Goes(r, current, active) /\ pc'[r] = "ended"
      /\ Settled(status[current], status'[current])
      /\ status'[current] \in Terminal
  <2>1. CASE CanTransition(status[current], "ERROR")
    BY <1>2, <2>1, LeaveGoes, Transitions DEF Raised, Settled, Terminal
  <2>2. CASE ~CanTransition(status[current], "ERROR")
    BY <1>2, <2>2, FatalGoes DEF Raised
  <2> QED BY <2>1, <2>2
<1> QED BY <1>1, <1>3 DEF TypeOK, Raised, Turned, KeepsFitting, observers

LEMMA ToolsDoneTurns ==
  ASSUME TypeOK, Counted, NEW r \in Runs, ToolsDone(r)
  PROVE  Turned(r) /\ KeepsFitting(r)
<1>1. Running(r)
  BY DEF ToolsDone, Running, UnderWay
<1>2. current \in Runs /\ status[current] \in Status /\ active \in Int
  BY <1>1, Installed
<1>3. CASE CanTransition(status[current], "THINKING")
  <2>1. status[current] \notin Terminal
    BY <1>2, <1>3, Transitions
  <2>2. /\ status' = [status EXCEPT ![current] = "THINKING"]
        /\ pc' = [pc EXCEPT ![r] = "acted"]
        /\ UNCHANGED <<steps, active>>
    BY <1>3 DEF ToolsDone
  <2>3. Goes(r, current, active) /\ pc'[r] = "acted" /\ status'[current] = "THINKING"
    BY <1>2, <2>2, Transitions DEF TypeOK, Goes, UnderWay
  <2> QED BY <1>1, <2>1, <2>3
          DEF TypeOK, ToolsDone, Turned, KeepsFitting, InPlace, Settled, observers, Terminal
<1>4. CASE ~CanTransition(status[current], "THINKING")
  <2>1. Fatal(r, current, status[current], active)
    BY <1>4 DEF ToolsDone
  <2> QED BY <1>1, <1>2, <2>1, FatalGoes
          DEF TypeOK, ToolsDone, Turned, KeepsFitting, observers
<1> QED BY <1>3, <1>4

LEMMA NextTurnTurns ==
  ASSUME TypeOK, Counted, NEW r \in Runs, NextTurn(r)
  PROVE  Turned(r) /\ KeepsFitting(r)
<1>1. Running(r) /\ pc[r] = "acted"
  BY DEF NextTurn, Running, UnderWay
<1>2. current \in Runs /\ status[current] \in Status /\ active \in Int /\ cancelled \in BOOLEAN
  BY <1>1, Installed
<1>3. GoOn(r, current, status[current], active, cancelled)
  BY DEF NextTurn
<1> QED BY <1>1, <1>2, <1>3, GoOnGoes
        DEF TypeOK, NextTurn, Turned, KeepsFitting, InPlace, observers

LEMMA StartToolsTurns ==
  ASSUME TypeOK, Counted, NEW r \in Runs, pc[r] = "thought", StartTools(r),
         InPlace(r) => last[current] = "tools"
  PROVE  /\ Goes(r, current, active) /\ Settled(status[current], status'[current])
         /\ acts' = [acts EXCEPT ![r] = acts'[r]] /\ acts'[r] \in Nat
         /\ ~told[r] \/ status[current] = "CANCELLED" => acts'[r] = acts[r]
         /\ cancelled => pc'[r] # "trimming"
         /\ pc'[r] \in {"ended", "acting", "acted", "trimming"}
         /\ InPlace(r) => \/ pc'[r] = "ended" /\ status'[current] \in Terminal
                          \/ pc'[r] = "acting" /\ status'[current] = "ACTING"
<1>1. Running(r)
  BY DEF Running, UnderWay
<1>2. current \in Runs /\ status[current] \in Status /\ active \in Int /\ cancelled \in BOOLEAN
  BY <1>1, Installed
<1>3. acts[r] \in Nat /\ acts \in [Runs -> Nat]
  BY DEF TypeOK
<1>4. CASE ~CanTransition(status[current], "ACTING")
  BY <1>2, <1>3, <1>4, FatalGoes DEF StartTools
<1>5. CASE CanTransition(status[current], "ACTING") /\ last[current] = "none"
  <2>1. status[current] \notin Terminal
    BY <1>2, <1>5, Transitions
  <2>2. GoOn(r, current, "ACTING", active, cancelled) /\ acts' = acts
    BY <1>5 DEF StartTools
  <2>3. ~InPlace(r)
    BY <1>5
  <2> QED BY <1>2, <1>3, <2>1, <2>2, <2>3, GoOnGoes, Transitions DEF Settled, Terminal
<1>6. CASE CanTransition(status[current], "ACTING") /\ last[current] # "none"
  <2>1. status[current] \notin Terminal
    BY <1>2, <1>6, Transitions
  <2>2. /\ status' = [status EXCEPT ![current] = "ACTING"]
        /\ pc' = [pc EXCEPT ![r] = IF last[current] = "tools" THEN "acting" ELSE "acted"]
        /\ acts' = [acts EXCEPT ![r] = IF told[r] THEN @ + 1 ELSE @]
        /\ UNCHANGED <<steps, active>>
    BY <1>6 DEF StartTools
  <2>3. Goes(r, current, active) /\ pc'[r] \in {"acting", "acted"} /\ status'[current] = "ACTING"
    BY <1>2, <2>2, Transitions DEF TypeOK, Goes, UnderWay
  <2>4. InPlace(r) => pc'[r] = "acting"
    BY <2>2 DEF TypeOK
  <2>5. acts' = [acts EXCEPT ![r] = acts'[r]] /\ acts'[r] \in Nat /\ (~told[r] => acts'[r] = acts[r])
    BY <1>3, <2>2
  <2> QED BY <2>1, <2>3, <2>4, <2>5 DEF Settled, Terminal
<1> QED BY <1>4, <1>5, <1>6

LEMMA ResumeTurns ==
  ASSUME TypeOK, Counted, NEW r \in Runs, Resume(r)
  PROVE  Turned(r) /\ KeepsFitting(r)
<1>1. Running(r) /\ pc[r] = "thought"
  BY DEF Resume, Running, UnderWay
<1>2. current \in Runs /\ status[current] \in Status /\ steps[current] \in 0..MaxSteps
      /\ active \in Int /\ cancelled \in BOOLEAN
  BY <1>1, Installed
<1>3. UNCHANGED <<decision, obj, last, current, cancelled, drain, told, late, mixed, closed>>
  BY DEF Resume
<1>4. ASSUME NEW t \in {"FINISHED", "ERROR"},
             IF CanTransition(status[current], t)
             THEN Leave(r, current, t, steps[current], active, cancelled)
             ELSE Fatal(r, current, status[current], active),
             UNCHANGED acts
      PROVE  Turned(r) /\ KeepsFitting(r)
  <2>1. t \in Terminal /\ t \in Status /\ t # "CANCELLED" /\ "CANCELLED" \in Terminal
    BY <1>4 DEF Terminal, Status
  <2>2. /\ Goes(r, current, active) /\ pc'[r] = "ended"
        /\ Settled(status[current], status'[current]) /\ status'[current] \in Terminal
    <3>1. CASE CanTransition(status[current], t)
      BY <1>2, <1>4, <2>1, <3>1, LeaveGoes, Transitions DEF Settled
    <3>2. CASE ~CanTransition(status[current], t)
      BY <1>2, <1>4, <3>2, FatalGoes
    <3> QED BY <3>1, <3>2
  <2> QED BY <1>1, <1>3, <1>4, <2>2 DEF TypeOK, Turned, KeepsFitting
<1>5. CASE decision[r] = "act" /\ StartTools(r)
  <2>1. InPlace(r) => last[current] = "tools"
    BY <1>1, <1>5 DEF InPlace
  <2> QED BY <1>1, <1>3, <1>5, <2>1, StartToolsTurns DEF TypeOK, Turned, KeepsFitting, InPlace
<1>6. CASE GoOn(r, current, status[current], active, cancelled) /\ UNCHANGED acts
  BY <1>1, <1>2, <1>3, <1>6, GoOnGoes DEF TypeOK, Turned, KeepsFitting, InPlace
<1> QED BY <1>4, <1>5, <1>6 DEF Resume

\* Every turn is one.
LEMMA TurnTurns ==
  ASSUME TypeOK, Counted, NEW r \in Runs, Turn(r)
  PROVE  Turned(r) /\ KeepsFitting(r)
BY AskTurns, AnsweredTurns, RaisedTurns, ResumeTurns, ToolsDoneTurns, NextTurnTurns, CloseTurns
   DEF Turn

-----------------------------------------------------------------------------
(* The inductive invariant *)

LEMMA InitIInv == Init => IInv
<1> SUFFICES ASSUME Init PROVE IInv
  OBVIOUS
<1> USE RuntimeAssumption DEF Init
<1>1. {r \in Runs : Running(r)} = {}
  BY DEF Running, UnderWay
<1>2. TypeOK
  <2>1. 0 \in 0..MaxSteps /\ 0 \in Nat
    OBVIOUS
  <2>2. "IDLE" \in Status /\ "reason" \in Decisions
    BY DEF Status, Decisions
  <2>3. /\ pc \in [Runs -> UnderWay \cup {"new", "ended"}]
        /\ decision \in [Runs -> Decisions] /\ obj \in [Runs -> Runs]
        /\ status \in [Runs -> Status] /\ steps \in [Runs -> 0..MaxSteps]
        /\ last \in [Runs -> Responses \cup {"none"}]
    BY <2>1, <2>2
  <2>4. /\ told \in [Runs -> BOOLEAN] /\ mixed \in [Runs -> BOOLEAN] /\ closed \in [Runs -> BOOLEAN]
        /\ late \in [Runs -> Nat] /\ acts \in [Runs -> Nat]
    BY <2>1
  <2> QED BY <2>1, <2>3, <2>4 DEF TypeOK
<1>3. Counted
  BY <1>1, FS_EmptySet DEF Counted
<1>4. Alone /\ Untold /\ Stopping /\ CancelHonoured /\ OnCourse /\ EndsDecided
  BY DEF Alone, Untold, Stopping, CancelHonoured, OnCourse, EndsDecided, Running, UnderWay
<1> QED BY <1>2, <1>3, <1>4 DEF IInv

\* The number of runs under way, when one of them ends or one joins.
LEMMA CountRuns ==
  ASSUME TypeOK, NEW r \in Runs, pc'[r] \in UnderWay \cup {"ended"},
         pc' = [pc EXCEPT ![r] = pc'[r]],
         active = Cardinality({q \in Runs : Running(q)}),
         active' = (IF Running(r) THEN active ELSE active + 1) - (IF Running(r)' THEN 0 ELSE 1)
  PROVE  active' = Cardinality({q \in Runs : Running(q)}')
<1> DEFINE S == {q \in Runs : Running(q)}
           T == {q \in Runs : Running(q)}'
<1>1. IsFiniteSet(S) /\ Cardinality(S) \in Nat
  BY RuntimeAssumption, FS_Subset, FS_CardinalityType
<1>2. T = IF Running(r)' THEN S \cup {r} ELSE S \ {r}
  BY DEF TypeOK, Running
<1>3. r \in S <=> Running(r)
  OBVIOUS
<1> HIDE DEF S, T
<1>4. CASE Running(r)'
  <2>1. Cardinality(T) = IF r \in S THEN Cardinality(S) ELSE Cardinality(S) + 1
    BY <1>1, <1>2, <1>4, FS_AddElement
  <2> QED BY <1>1, <1>3, <1>4, <2>1 DEF S, T
<1>5. CASE ~Running(r)'
  <2>1. Cardinality(T) = IF r \in S THEN Cardinality(S) - 1 ELSE Cardinality(S)
    BY <1>1, <1>2, <1>5, FS_RemoveElement
  <2> QED BY <1>1, <1>3, <1>5, <2>1 DEF S, T
<1> QED BY <1>4, <1>5

\* A turn of a run under way keeps the invariant.
LEMMA TurnKeeps ==
  ASSUME IInv, NEW r \in Runs, Turn(r)
  PROVE  IInv'
<1>1. Turned(r) /\ KeepsFitting(r) /\ TypeOK /\ Counted
  BY TurnTurns DEF IInv
<1>2. Running(r) /\ current \in Runs
  BY <1>1, Installed DEF Turned
<1>3. /\ UNCHANGED <<obj, current, cancelled, told, mixed>>
      /\ pc' = [pc EXCEPT ![r] = pc'[r]] /\ pc'[r] \in UnderWay \cup {"ended"}
      /\ status' = [status EXCEPT ![current] = status'[current]] /\ status'[current] \in Status
      /\ Settled(status[current], status'[current])
  BY <1>1 DEF Turned, Goes
<1>4. \A o \in Runs : Settled(status[o], status'[o])
  BY <1>1, <1>3 DEF TypeOK, Settled
<1>5. \A q \in Runs : q # r => pc'[q] = pc[q]
  BY <1>1, <1>3 DEF TypeOK
<1>6. active' \in Nat /\ Counted'
  <2>1. active' = (IF Running(r) THEN active ELSE active + 1) - (IF Running(r)' THEN 0 ELSE 1)
    BY <1>1, <1>2, <1>3 DEF Turned, Goes, TypeOK, Running, UnderWay
  <2>2. active' = Cardinality({q \in Runs : Running(q)}')
    BY <1>1, <1>3, <2>1, CountRuns DEF Counted
  <2>3. IsFiniteSet({q \in Runs : Running(q)}')
    BY RuntimeAssumption, FS_Subset
  <2>4. active' \in Nat
    BY <2>2, <2>3, FS_CardinalityType
  <2>5. current' # NoState
    BY <1>2, <1>3, RuntimeAssumption
  <2> QED BY <2>2, <2>4, <2>5 DEF Counted
<1>7. TypeOK'
  BY <1>1, <1>3, <1>6 DEF Turned, Goes, TypeOK
<1>8. \A q \in Runs : Running(q)' => Running(q)
  BY <1>2, <1>5 DEF Running
<1>9. Alone'
  BY <1>3, <1>8 DEF IInv, Alone
<1>10. Untold'
  BY <1>1, <1>2, <1>3, <1>5 DEF IInv, Untold, Turned, TypeOK, Running, UnderWay
<1>11. Stopping'
  BY <1>1, <1>3, <1>5, <1>8 DEF IInv, Stopping, Turned, TypeOK
<1>12. CancelHonoured'
  <2>1. ASSUME NEW q \in Runs, told[q], ~mixed[q]
        PROVE  late'[q] <= 1 /\ acts'[q] = 0 /\ status'[obj[q]] = "CANCELLED"
    <3>1. late[q] <= 1 /\ acts[q] = 0 /\ status[obj[q]] = "CANCELLED"
      BY <2>1 DEF IInv, CancelHonoured
    <3>2. status'[obj[q]] = "CANCELLED"
      BY <1>1, <1>4, <3>1 DEF TypeOK, Settled
    <3>3. CASE q # r
      BY <1>1, <3>1, <3>2, <3>3 DEF Turned, TypeOK
    <3>4. CASE q = r
      <4>1. current = obj[r]
        BY <1>2, <2>1, <3>4 DEF IInv, Alone
      <4>2. pc[r] = "trimming" => late[r] = 0
        BY <1>2, <2>1, <3>4 DEF IInv, Stopping
      <4> QED BY <1>1, <3>1, <3>2, <3>4, <4>1, <4>2 DEF Turned
    <3> QED BY <3>3, <3>4
  <2> QED BY <1>3, <2>1 DEF CancelHonoured
<1>13. OnCourse'
  <2>1. ASSUME NEW q \in Runs, Running(q)', ~mixed[q] PROVE InPlace(q)'
    <3>1. q = r /\ InPlace(q)
      BY <1>2, <1>8, <2>1 DEF IInv, Alone, OnCourse, InPlace
    <3> QED BY <1>1, <2>1, <3>1 DEF KeepsFitting, Running, UnderWay
  <2> QED BY <1>3, <2>1 DEF OnCourse, InPlace
<1>14. EndsDecided'
  <2>1. ASSUME NEW q \in Runs, pc'[q] = "ended", ~mixed[q], ~closed'[q]
        PROVE  status'[obj[q]] \in Terminal
    <3>1. CASE q # r
      <4>1. pc[q] = "ended" /\ ~closed[q]
        BY <1>1, <1>5, <2>1, <3>1 DEF Turned
      <4> QED BY <1>1, <1>4, <2>1, <4>1 DEF IInv, EndsDecided, TypeOK, Settled
    <3>2. CASE q = r
      <4>1. current = obj[r] /\ InPlace(r)
        BY <1>2, <2>1, <3>2 DEF IInv, Alone, OnCourse, InPlace
      <4> QED BY <1>1, <2>1, <3>2, <4>1 DEF KeepsFitting
    <3> QED BY <3>1, <3>2
  <2> QED BY <1>3, <2>1 DEF EndsDecided
<1> QED BY <1>6, <1>7, <1>9, <1>10, <1>11, <1>12, <1>13, <1>14 DEF IInv

\* So does the begin of a run.
LEMMA BeginKeeps ==
  ASSUME IInv, NEW r \in Runs, NEW o \in Runs, Begin(r, o)
  PROVE  IInv'
<1>1. TypeOK /\ Counted /\ pc[r] = "new" /\ ~Running(r)
  BY DEF IInv, Begin, Running, UnderWay
<1>2. /\ status[o] \in Status /\ active + 1 \in Int /\ "THINKING" \in Status
      /\ current' = o /\ cancelled' = FALSE /\ obj' = [obj EXCEPT ![r] = o]
      /\ UNCHANGED <<decision, last, drain, told, late, acts, closed>>
  BY <1>1, Transitions DEF Begin, TypeOK
<1>3. /\ mixed' \in [Runs -> BOOLEAN]
      /\ \A q \in Runs : mixed[q] \/ Running(q) => mixed'[q]
      /\ ~mixed'[r] => \A p \in Runs : ~Running(p)
  BY DEF Begin
<1>4. /\ Goes(r, o, active + 1)
      /\ Settled(status[o], status'[o])
      /\ \/ pc'[r] = "trimming" /\ status'[o] = "THINKING"
         \/ pc'[r] = "ended" /\ status'[o] \in Terminal
  <2>1. CASE CanTransition(status[o], "THINKING")
    <3>1. GoOn(r, o, "THINKING", active + 1, FALSE)
      BY <2>1 DEF Begin
    <3>2. status[o] \notin Terminal
      BY <2>1, <1>2, Transitions
    <3>3. /\ Goes(r, o, active + 1)
          /\ \/ pc'[r] = "trimming" /\ status'[o] = "THINKING"
             \/ pc'[r] = "ended" /\ status'[o] \in Terminal
      BY <1>1, <1>2, <3>1, GoOnGoes
    <3> QED BY <3>2, <3>3 DEF Settled, Terminal
  <2>2. CASE ~CanTransition(status[o], "THINKING")
    <3>1. Fatal(r, o, status[o], active + 1)
      BY <2>2 DEF Begin
    <3> QED BY <1>1, <1>2, <3>1, FatalGoes
  <2> QED BY <2>1, <2>2
<1>5. /\ pc' = [pc EXCEPT ![r] = pc'[r]] /\ pc'[r] \in UnderWay \cup {"ended"}
      /\ status' = [status EXCEPT ![o] = status'[o]] /\ status'[o] \in Status
      /\ \A q \in Runs : q # r => pc'[q] = pc[q]
  BY <1>1, <1>4 DEF Goes, TypeOK
<1>6. \A q \in Runs : Settled(status[q], status'[q])
  BY <1>1, <1>4, <1>5 DEF TypeOK, Settled
<1>7. active' \in Nat /\ Counted'
  <2>1. active' = (IF Running(r) THEN active ELSE active + 1) - (IF Running(r)' THEN 0 ELSE 1)
    BY <1>1, <1>4, <1>5 DEF Goes, TypeOK, Running, UnderWay
  <2>2. active' = Cardinality({q \in Runs : Running(q)}')
    BY <1>1, <1>5, <2>1, CountRuns DEF Counted
  <2>3. IsFiniteSet({q \in Runs : Running(q)}')
    BY RuntimeAssumption, FS_Subset
  <2>4. active' \in Nat
    BY <2>2, <2>3, FS_CardinalityType
  <2>5. current' # NoState
    BY <1>2, RuntimeAssumption
  <2> QED BY <2>2, <2>4, <2>5 DEF Counted
<1>8. TypeOK'
  <2>1. pc' \in [Runs -> UnderWay \cup {"new", "ended"}]
    BY <1>1, <1>5 DEF TypeOK
  <2>2. status' \in [Runs -> Status] /\ obj' \in [Runs -> Runs]
    BY <1>1, <1>2, <1>5 DEF TypeOK
  <2>3. steps' \in [Runs -> 0..MaxSteps]
    BY <1>4 DEF Goes
  <2> QED BY <1>1, <1>2, <1>3, <1>7, <2>1, <2>2, <2>3 DEF TypeOK
<1>9. \A q \in Runs : Running(q)' /\ ~mixed'[q] => q = r
  BY <1>3, <1>5 DEF Running
<1>10. Alone'
  BY <1>1, <1>2, <1>3, <1>5, <1>9 DEF Alone, TypeOK, Running
<1>11. Untold' /\ ~told'[r] /\ late'[r] = 0 /\ acts'[r] = 0
  BY <1>1, <1>2, <1>5 DEF IInv, Untold, UnderWay
<1>12. Stopping'
  BY <1>9, <1>11 DEF Stopping
<1>13. CancelHonoured'
  <2>1. ASSUME NEW q \in Runs, told'[q], ~mixed'[q]
        PROVE  late'[q] <= 1 /\ acts'[q] = 0 /\ status'[obj'[q]] = "CANCELLED"
    <3>1. q # r /\ told[q] /\ ~mixed[q]
      BY <1>2, <1>3, <1>11, <2>1
    <3>2. late[q] <= 1 /\ acts[q] = 0 /\ status[obj[q]] = "CANCELLED"
      BY <3>1 DEF IInv, CancelHonoured
    <3>3. obj'[q] = obj[q] /\ obj[q] \in Runs
      BY <1>1, <1>2, <3>1 DEF TypeOK
    <3> QED BY <1>2, <1>6, <3>2, <3>3 DEF Settled
  <2> QED BY <2>1 DEF CancelHonoured
<1>14. OnCourse'
  BY <1>2, <1>4, <1>9 DEF OnCourse, Running, UnderWay
<1>15. EndsDecided'
  <2>1. ASSUME NEW q \in Runs, pc'[q] = "ended", ~mixed'[q], ~closed'[q]
        PROVE  status'[obj'[q]] \in Terminal
    <3>1. CASE q # r
      <4>1. pc[q] = "ended" /\ ~mixed[q] /\ ~closed[q] /\ obj'[q] = obj[q] /\ obj[q] \in Runs
        BY <1>1, <1>2, <1>3, <1>5, <2>1, <3>1 DEF TypeOK
      <4> QED BY <1>6, <4>1 DEF IInv, EndsDecided, Settled
    <3>2. CASE q = r
      <4>1. obj'[q] = o
        BY <1>1, <1>2, <3>2 DEF TypeOK
      <4> QED BY <1>4, <2>1, <3>2, <4>1
    <3> QED BY <3>1, <3>2
  <2> QED BY <2>1 DEF EndsDecided
<1> QED BY <1>7, <1>8, <1>10, <1>11, <1>12, <1>13, <1>14, <1>15 DEF IInv

\* So does a cancel, by whom ever.
LEMMA CancelKeeps ==
  ASSUME IInv, MarkCancelled, drain' \in {"no", "waiting", "drained"},
         UNCHANGED <<pc, decision, obj, steps, last, current, active, late, acts, mixed, closed>>
  PROVE  IInv'
<1>1. TypeOK /\ Counted
  BY DEF IInv
<1>2. /\ cancelled' = TRUE /\ told' \in [Runs -> BOOLEAN]
      /\ \A r \in Runs : told'[r] = (told[r] \/ Running(r))
  BY <1>1 DEF MarkCancelled, TypeOK, Running
<1>3. /\ status' \in [Runs -> Status]
      /\ \A o \in Runs : status'[o] = IF o = current THEN "CANCELLED" ELSE status[o]
  BY <1>1, RuntimeAssumption DEF MarkCancelled, TypeOK, Status, Terminal
<1>4. \A r \in Runs : Running(r)' <=> Running(r)
  BY DEF Running
<1>5. TypeOK'
  BY <1>1, <1>2, <1>3 DEF TypeOK
<1>6. Counted' /\ Alone'
  BY <1>1, <1>4 DEF IInv, Counted, Alone, Running
<1>7. Untold'
  BY <1>2, <1>4 DEF IInv, Untold, Running, UnderWay
<1>8. Stopping'
  BY <1>2, <1>4 DEF IInv, Stopping, Untold
<1>9. CancelHonoured'
  <2>1. ASSUME NEW r \in Runs, told'[r], ~mixed[r]
        PROVE  late[r] <= 1 /\ acts[r] = 0 /\ status'[obj[r]] = "CANCELLED"
    <3>1. obj[r] \in Runs
      BY <1>1 DEF TypeOK
    <3>2. CASE told[r]
      BY <1>3, <2>1, <3>1, <3>2 DEF IInv, CancelHonoured
    <3>3. CASE ~told[r]
      BY <1>2, <1>3, <2>1, <3>1, <3>3 DEF IInv, Alone, Untold
    <3> QED BY <3>2, <3>3
  <2> QED BY <2>1 DEF CancelHonoured
<1>10. OnCourse'
  BY <1>1, <1>3, <1>4, Installed DEF IInv, OnCourse, Terminal
<1>11. EndsDecided'
  BY <1>1, <1>3 DEF IInv, EndsDecided, TypeOK, Terminal
<1> QED BY <1>5, <1>6, <1>7, <1>8, <1>9, <1>10, <1>11 DEF IInv

\* Every step keeps it.
LEMMA NextIInv == IInv /\ [Next]_vars => IInv'
<1> SUFFICES ASSUME IInv, [Next]_vars PROVE IInv'
  OBVIOUS
<1>1. ASSUME NEW r \in Runs, Step(r) PROVE IInv'
  BY <1>1, TurnKeeps, BeginKeeps DEF Step, Turn
<1>2. CASE Cancel
  BY <1>2, CancelKeeps DEF Cancel, IInv, TypeOK
<1>3. CASE Signal
  BY <1>3, CancelKeeps DEF Signal
<1>4. CASE DrainEnds \/ UNCHANGED vars
  <2>1. UNCHANGED <<pc, decision, obj, status, steps, last, current, cancelled, active,
                    told, late, acts, mixed, closed>> /\ drain' \in {"no", "waiting", "drained"}
    BY <1>4 DEF DrainEnds, vars, observers, IInv, TypeOK
  <2>2. \A r \in Runs : Running(r)' <=> Running(r)
    BY <2>1 DEF Running
  <2>3. TypeOK'
    BY <2>1 DEF IInv, TypeOK
  <2>4. Counted' /\ Alone' /\ Untold' /\ Stopping'
    BY <2>1, <2>2 DEF IInv, Counted, Alone, Untold, Stopping, Running
  <2>5. CancelHonoured' /\ OnCourse' /\ EndsDecided'
    BY <2>1, <2>2 DEF IInv, CancelHonoured, OnCourse, EndsDecided
  <2> QED BY <2>3, <2>4, <2>5 DEF IInv
<1> QED BY <1>1, <1>2, <1>3, <1>4 DEF Next

LEMMA Invariance == Spec => []IInv
BY InitIInv, NextIInv, PTL DEF Spec

-----------------------------------------------------------------------------
(* Theorems *)

\* The variables of the runtime keep to their types; _active_count, which is
\* counted down on every way out of a run, never falls below zero.
THEOREM TypeCorrect == Spec => []TypeOK
<1>1. IInv => TypeOK
  BY DEF IInv
<1> QED BY Invariance, <1>1, PTL

\* cancel() during a run that has the runtime to itself is honoured.
THEOREM CancelIsHonoured == Spec => []CancelHonoured
<1>1. IInv => CancelHonoured
  BY DEF IInv
<1> QED BY Invariance, <1>1, PTL

\* A run that has the runtime to itself ends with a terminal status.
THEOREM EndsAreDecided == Spec => []EndsDecided
<1>1. IInv => EndsDecided
  BY DEF IInv
<1> QED BY Invariance, <1>1, PTL

\* drain() reports an idle runtime only when no run is under way: each way out
\* of a run, closing included, gives its count back once (agent.py:952).
THEOREM DrainMeansQuiet ==
  Spec => [][drain' = "drained" /\ drain # "drained" => \A r \in Runs : ~Running(r)]_vars
<1> DEFINE Quiet == drain' = "drained" /\ drain # "drained" => \A r \in Runs : ~Running(r)
<1>1. IInv /\ [Next]_vars => [Quiet]_vars
  <2> SUFFICES ASSUME IInv, Next, drain' = "drained", drain # "drained", NEW r \in Runs
               PROVE  ~Running(r)
    OBVIOUS
  <2>1. DrainEnds
    BY DEF Next, Step, Begin, Ask, Raised, Resume, ToolsDone, NextTurn, Answered, Close, Cancel, Signal
  <2>2. Cardinality({q \in Runs : Running(q)}) = 0
    BY <2>1 DEF DrainEnds, IInv, Counted
  <2>3. IsFiniteSet({q \in Runs : Running(q)})
    BY RuntimeAssumption, FS_Subset
  <2> QED BY <2>2, <2>3, FS_EmptySet
<1> QED BY Invariance, <1>1, PTL DEF Spec

-----------------------------------------------------------------------------
(* The text of a stream.                                                     *)

TextTypes == /\ queue \in Seq(Nat) /\ received \in Seq(Nat) /\ sent \in Nat

Chunks(s, n) == \A i \in 1..n : s[i] = Len(received) + i

\* The queue continues what was received, and holds all that was sent; the
\* sentinel comes last, from a task that is done.
Continues ==
  \/ /\ Chunks(queue, Len(queue))
     /\ sent = Len(received) + Len(queue)
  \/ /\ runner = "done" /\ queue # <<>>
     /\ queue[Len(queue)] = Sentinel
     /\ Chunks(queue, Len(queue) - 1)
     /\ sent = Len(received) + Len(queue) - 1

\* A generator that has met the sentinel has met everything, and it does not
\* end before its task.
Left == /\ consumer \in {"closing", "ended"} /\ ~early =>
             runner = "done" /\ queue = <<>> /\ sent = Len(received)
        /\ consumer = "ended" => runner = "done"

TextIInv == /\ TextTypes /\ Continues /\ Left
            /\ \A i \in 1..Len(received) : received[i] = i

LEMMA TextInitially == TextInit => TextIInv
BY DEF TextInit, TextIInv, TextTypes, Continues, Chunks, Left

\* A task that is not done has put no sentinel.
LEMMA ChunkPut ==
  ASSUME TextIInv, runner # "done", queue' = Append(queue, sent + 1),
         sent' = sent + 1, runner' # "done",
         UNCHANGED <<consumer, received, early>>
  PROVE  TextIInv'
<1> USE DEF TextIInv, TextTypes, Left
<1>1. TextTypes'
  OBVIOUS
<1>2. Chunks(queue, Len(queue)) /\ sent = Len(received) + Len(queue)
  BY DEF Continues
<1>3. Continues'
  BY <1>1, <1>2 DEF Continues, Chunks
<1> QED
  BY <1>1, <1>3

LEMMA SentinelPut ==
  ASSUME TextIInv, runner # "done", runner' = "done",
         queue' = Append(queue, Sentinel),
         UNCHANGED <<sent, consumer, received, early>>
  PROVE  TextIInv'
<1> USE DEF TextIInv, TextTypes, Left
<1>1. TextTypes'
  BY DEF Sentinel
<1>2. Chunks(queue, Len(queue)) /\ sent = Len(received) + Len(queue)
  BY DEF Continues
<1>3. /\ queue' # <<>> /\ Len(queue') = Len(queue) + 1
      /\ queue'[Len(queue')] = Sentinel
      /\ \A i \in 1..Len(queue) : queue'[i] = queue[i]
  BY SMTT(40)
<1>4. Continues'
  BY <1>1, <1>2, <1>3 DEF Continues, Chunks
<1> QED
  BY <1>1, <1>4

\* A task that waits or gives up leaves the queue as it was.
LEMMA NothingPut ==
  ASSUME TextIInv, runner # "done",
         UNCHANGED <<queue, sent, consumer, received, early>>
  PROVE  TextIInv'
<1>1. Continues'
  BY DEF TextIInv, Continues, Chunks
<1> QED
  BY <1>1 DEF TextIInv, TextTypes, Left

LEMMA TextStep ==
  ASSUME TextIInv, [TextNext]_textVars
  PROVE  TextIInv'
<1> USE DEF TextIInv
<1>1. CASE Collect
  <2>1. runner # "done"
    BY <1>1 DEF Collect
  <2>2. CASE UNCHANGED queue
    BY <1>1, <2>1, <2>2, NothingPut DEF Collect, TextTypes
  <2>3. CASE queue' = Append(queue, sent + 1) /\ runner' # "done"
    BY <1>1, <2>1, <2>3, ChunkPut DEF Collect
  <2> QED
    BY <1>1, <2>2, <2>3 DEF Collect
<1>2. ASSUME NEW w \in {"ending", "stuck"}, PutSentinel(w), runner # "done",
             UNCHANGED <<sent, consumer, received, early>>
      PROVE  TextIInv'
  BY <1>2, SentinelPut, NothingPut DEF PutSentinel
<1>3. CASE RunEnds
  BY <1>2, <1>3 DEF RunEnds
<1>4. CASE Cancelled
  <2>1. CASE runner = "ending" /\ UNCHANGED queue
    BY <1>4, <2>1, NothingPut DEF Cancelled
  <2> QED
    BY <1>2, <1>4, <2>1 DEF Cancelled
<1>5. CASE SentinelGoes
  BY <1>2, <1>5 DEF SentinelGoes
<1>6. CASE Get
  <2> USE DEF TextTypes
  <2>1. /\ Len(queue') = Len(queue) - 1 /\ Len(queue) \in Nat \ {0}
        /\ \A i \in 1..Len(queue') : queue'[i] = queue[i + 1]
        /\ Head(queue) = queue[1]
        /\ UNCHANGED <<sent, runner, early>>
    BY <1>6 DEF Get
  <2>2. CASE queue[1] = Sentinel
    <3>1. Len(queue) = 1 /\ runner = "done" /\ sent = Len(received)
      BY <2>1, <2>2 DEF Continues, Chunks, Sentinel
    <3>2. UNCHANGED received /\ consumer' = "closing"
      BY <1>6, <2>1, <2>2 DEF Get
    <3>3. queue' \in Seq(Nat) /\ Len(queue') = 0
      BY <1>6, <2>1, <3>1 DEF Get
    <3>4. queue' = <<>>
      BY <3>3
    <3> QED
      BY <2>1, <3>1, <3>2, <3>4 DEF Continues, Chunks, Left
  <2>3. CASE queue[1] # Sentinel
    <3>1. queue[1] = Len(received) + 1
      BY <2>1, <2>3 DEF Continues, Chunks
    <3>2. /\ received' = Append(received, queue[1])
          /\ Len(received') = Len(received) + 1
          /\ consumer' = "yielding"
      BY <1>6, <2>1, <2>3 DEF Get
    <3>3. TextTypes'
      BY <1>6, <2>1, <3>1, <3>2 DEF Get
    <3>4. \A i \in 1..Len(received') : received'[i] = i
      BY <3>1, <3>2
    <3>5. Continues'
      <4>1. CASE Chunks(queue, Len(queue)) /\ sent = Len(received) + Len(queue)
        BY <2>1, <3>2, <3>3, <4>1, SMTT(40) DEF Continues, Chunks
      <4>2. CASE /\ runner = "done" /\ queue # <<>>
                 /\ queue[Len(queue)] = Sentinel
                 /\ Chunks(queue, Len(queue) - 1)
                 /\ sent = Len(received) + Len(queue) - 1
        <5>1. Len(queue) > 1
          BY <2>1, <2>3, <4>2
        <5>2. queue'[Len(queue')] = queue[Len(queue)]
          BY <2>1, <5>1
        <5>3. Chunks(queue, Len(queue) - 1)'
          <6>1. SUFFICES ASSUME NEW i \in 1..(Len(queue) - 2)
                         PROVE  queue'[i] = Len(received) + 1 + i
            BY <2>1, <3>2, <3>3 DEF Chunks
          <6>2. Len(queue) \in Nat /\ Len(queue') = Len(queue) - 1
            BY <2>1
          <6>3. i + 1 \in 1..(Len(queue) - 1) /\ i \in 1..Len(queue')
            BY <6>2
          <6>4. queue'[i] = queue[i + 1]
            BY <2>1, <6>3
          <6>5. queue[i + 1] = Len(received) + (i + 1)
            BY <4>2, <6>3 DEF Chunks
          <6> QED
            BY <6>4, <6>5
        <5>4. queue' # <<>>
          BY <2>1, <5>1
        <5>5. sent' = Len(received') + Len(queue') - 1
          BY <2>1, <3>2, <3>3, <4>2
        <5> QED
          BY <2>1, <4>2, <5>2, <5>3, <5>4, <5>5 DEF Continues, Sentinel
      <4> QED
        BY <4>1, <4>2 DEF Continues
    <3> QED
      BY <3>2, <3>3, <3>4, <3>5 DEF Left
  <2> QED
    BY <2>2, <2>3
<1>7. CASE AskNext \/ CloseEarly \/ Closed \/ UNCHANGED textVars
  BY <1>7 DEF AskNext, CloseEarly, Closed, textVars, TextTypes, Continues,
              Chunks, Left
<1> QED
  BY <1>1, <1>3, <1>4, <1>5, <1>6, <1>7 DEF TextNext, Runner, Generator

\* A caller that reads to the end gets every chunk the run put, in order and
\* once, for any size of the queue and any number of chunks: the sentinel is
\* behind them all, and a task that is not done has not put it.
THEOREM TextIsComplete == TextSpec => []TextComplete
<1>1. TextIInv => TextComplete
  BY DEF TextIInv, TextComplete, Left
<1> QED
  BY <1>1, TextInitially, TextStep, PTL DEF TextSpec

-----------------------------------------------------------------------------
(* The tool phase.                                                           *)

LEMMA RetriesAreFinite == MaxRetries \in Nat
BY ExecutorAssumption DEF ExecutorAssumption

Phases == {"queued", "submitted", "running", "sleeping", "answered"}
Ends == {"none", "returned", "fatal", "failed", "timed out"}

ExecutorTypes ==
  /\ kind \in [Calls -> Kinds]
  /\ phase \in [Calls -> Phases]
  /\ attempt \in [Calls -> Attempts]
  /\ outcome \in [Calls -> [Attempts -> Ends]]
  /\ answer \in [Calls -> {"none", "result", "error"}]
  /\ threads \subseteq Calls \X Attempts

\* Attempts before the present one ended in a way that is tried again.
Retried(c) == \A a \in Attempts :
                a < attempt[c] => outcome[c][a] \in {"failed", "timed out"}

\* Another attempt is due only when one is left; only an answer is no longer
\* "none", and it is explained.
Explained(c) ==
  /\ phase[c] = "sleeping" =>
       /\ attempt[c] < MaxRetries
       /\ outcome[c][attempt[c]] \in {"failed", "timed out"}
  /\ phase[c] # "answered" => answer[c] = "none"
  /\ answer[c] = "result" => outcome[c][attempt[c]] = "returned"
  /\ answer[c] = "error" =>
       \/ kind[c] = "unknown" \/ outcome[c][attempt[c]] = "fatal"
       \/ /\ attempt[c] = MaxRetries
          /\ outcome[c][attempt[c]] \in {"failed", "timed out"}

\* Only a function waits for a thread or holds one.
OnLoop(c) == kind[c] = "coroutine" =>
               phase[c] # "submitted" /\ \A t \in threads : t[1] # c

ExecutorIInv == /\ ExecutorTypes
                /\ \A c \in Calls : Retried(c) /\ Explained(c) /\ OnLoop(c)

LEMMA ExecutorInitially == ExecutorInit => ExecutorIInv
<1> SUFFICES ASSUME ExecutorInit PROVE ExecutorIInv
  OBVIOUS
<1>1. 0 \in Attempts
  BY RetriesAreFinite DEF Attempts
<1>2. ExecutorTypes
  BY <1>1 DEF ExecutorInit, ExecutorTypes, Phases, Ends
<1>3. ASSUME NEW c \in Calls
      PROVE  Retried(c) /\ Explained(c) /\ OnLoop(c)
  BY <1>1, RetriesAreFinite
     DEF ExecutorInit, Retried, Explained, OnLoop, Attempts
<1> QED
  BY <1>2, <1>3 DEF ExecutorIInv

LEMMA CallTypes ==
  ASSUME ExecutorTypes, NEW c \in Calls
  PROVE  /\ kind[c] \in Kinds /\ phase[c] \in Phases
         /\ attempt[c] \in Nat /\ attempt[c] \in Attempts
         /\ attempt[c] <= MaxRetries
         /\ outcome[c] \in [Attempts -> Ends]
         /\ \A t \in threads : t \in Calls \X Attempts
BY RetriesAreFinite DEF ExecutorTypes, Attempts

LEMMA OutcomeChanged ==
  ASSUME NEW f \in [Attempts -> Ends], NEW n \in Attempts, NEW o
  PROVE  /\ [f EXCEPT ![n] = o][n] = o
         /\ \A b \in Attempts : b < n => [f EXCEPT ![n] = o][b] = f[b]
BY RetriesAreFinite DEF Attempts

LEMMA NextAttempt ==
  ASSUME NEW n \in Attempts, n < MaxRetries
  PROVE  /\ n + 1 \in Attempts
         /\ \A a \in Attempts : a < n + 1 => a = n \/ a < n
BY RetriesAreFinite DEF Attempts

\* What a step of one call leaves alone stays explained.
LEMMA OtherCall ==
  ASSUME ExecutorIInv, NEW d \in Calls,
         phase'[d] = phase[d], attempt'[d] = attempt[d],
         outcome'[d] = outcome[d], answer'[d] = answer[d], UNCHANGED kind,
         \A t \in threads' : t[1] = d => t \in threads
  PROVE  Retried(d)' /\ Explained(d)' /\ OnLoop(d)'
<1>1. Retried(d) /\ Explained(d) /\ OnLoop(d)
  BY DEF ExecutorIInv
<1>2. Retried(d)'
  BY <1>1 DEF Retried
<1>3. Explained(d)'
  BY <1>1 DEF Explained
<1>4. OnLoop(d)'
  BY <1>1 DEF OnLoop
<1> QED
  BY <1>2, <1>3, <1>4

\* An attempt ends: with an answer that it explains, or with another one left.
LEMMA AttemptEnds ==
  ASSUME ExecutorIInv, NEW c \in Calls, phase[c] \in {"submitted", "running"},
         NEW o \in Ends, NEW p \in {"sleeping", "answered"},
         NEW a \in {"none", "result", "error"},
         phase' = [phase EXCEPT ![c] = p],
         outcome' = [outcome EXCEPT ![c][attempt[c]] = o],
         answer' = [answer EXCEPT ![c] = a],
         UNCHANGED <<kind, attempt>>, threads' \subseteq threads,
         p = "sleeping" => attempt[c] < MaxRetries
                           /\ o \in {"failed", "timed out"} /\ a = "none",
         a = "result" => o = "returned",
         a = "error" => \/ o = "fatal"
                        \/ attempt[c] = MaxRetries /\ o \in {"failed", "timed out"}
  PROVE  ExecutorIInv'
<1> USE DEF ExecutorIInv
<1>1. ExecutorTypes'
  BY DEF ExecutorTypes, Phases
<1>2. /\ attempt[c] \in Nat /\ attempt[c] \in Attempts
      /\ outcome \in [Calls -> [Attempts -> Ends]]
      /\ outcome[c] \in [Attempts -> Ends]
      /\ phase'[c] = p /\ answer'[c] = a /\ attempt'[c] = attempt[c]
  BY CallTypes DEF ExecutorTypes
<1>8. outcome'[c] = [outcome[c] EXCEPT ![attempt[c]] = o]
  BY <1>2
<1>3. /\ outcome'[c][attempt[c]] = o
      /\ \A b \in Attempts : b < attempt[c] => outcome'[c][b] = outcome[c][b]
  <2> HIDE DEF ExecutorIInv
  <2>1. /\ [outcome[c] EXCEPT ![attempt[c]] = o][attempt[c]] = o
        /\ \A b \in Attempts :
             b < attempt[c] =>
               [outcome[c] EXCEPT ![attempt[c]] = o][b] = outcome[c][b]
    BY ONLY <1>2, OutcomeChanged
  <2> QED
    BY ONLY <1>8, <2>1
<1>5. Retried(c)'
  BY <1>2, <1>3 DEF Retried
<1>6. Explained(c)'
  BY <1>2, <1>3 DEF Explained
<1>7. OnLoop(c)'
  BY <1>2 DEF OnLoop
<1>4. ASSUME NEW d \in Calls, d # c
      PROVE  Retried(d)' /\ Explained(d)' /\ OnLoop(d)'
  <2>1. /\ phase'[d] = phase[d] /\ attempt'[d] = attempt[d]
        /\ outcome'[d] = outcome[d] /\ answer'[d] = answer[d]
    BY <1>4 DEF ExecutorTypes
  <2> QED
    BY <2>1, OtherCall
<1> QED
  BY <1>1, <1>4, <1>5, <1>6, <1>7

\* A call moves on without an end of an attempt.
LEMMA CallMoves ==
  ASSUME ExecutorIInv, NEW c \in Calls, ExecutorTypes',
         UNCHANGED <<kind, outcome>>,
         Retried(c)', Explained(c)', OnLoop(c)',
         \A d \in Calls \ {c} : phase'[d] = phase[d] /\ answer'[d] = answer[d]
                                /\ attempt'[d] = attempt[d],
         \A t \in threads' : t \in threads \/ t[1] = c
  PROVE  ExecutorIInv'
<1>1. ASSUME NEW d \in Calls, d # c
      PROVE  Retried(d)' /\ Explained(d)' /\ OnLoop(d)'
  BY <1>1, OtherCall
<1> QED
  BY <1>1 DEF ExecutorIInv

LEMMA ExecutorStep ==
  ASSUME ExecutorIInv, [ExecutorNext]_executorVars
  PROVE  ExecutorIInv'
<1>1. ASSUME NEW c \in Calls, Acquire(c)
      PROVE  ExecutorIInv'
  <2> USE <1>1 DEF ExecutorIInv, Acquire
  <2>1. ExecutorTypes'
    BY DEF ExecutorTypes, Phases, Started
  <2>2. /\ Retried(c) /\ Explained(c) /\ OnLoop(c)
        /\ kind[c] = "unknown" =>
             phase'[c] = "answered" /\ answer'[c] = "error"
        /\ kind[c] # "unknown" =>
             phase'[c] = Started(c) /\ answer'[c] = "none"
    BY ZenonT(60) DEF ExecutorTypes, Explained
  <2>3. Retried(c)'
    BY <2>2 DEF Retried
  <2>5. Explained(c)' /\ OnLoop(c)'
    BY <2>2, CallTypes DEF Explained, OnLoop, Started, Kinds
  <2>4. \A d \in Calls \ {c} : phase'[d] = phase[d] /\ answer'[d] = answer[d]
                               /\ attempt'[d] = attempt[d]
    BY DEF ExecutorTypes
  <2> QED
    BY <2>1, <2>3, <2>4, <2>5, CallMoves
<1>2. ASSUME NEW c \in Calls, ThreadTaken(c)
      PROVE  ExecutorIInv'
  <2> USE <1>2 DEF ExecutorIInv, ThreadTaken
  <2>1. ExecutorTypes'
    BY DEF ExecutorTypes, Phases
  <2>2. /\ Retried(c) /\ Explained(c) /\ OnLoop(c)
        /\ phase'[c] = "running"
        /\ \A t \in threads' : t \in threads \/ t = <<c, attempt[c]>>
    BY DEF ExecutorTypes
  <2>4. Retried(c)' /\ Explained(c)'
    BY <2>2 DEF Retried, Explained
  <2>5. OnLoop(c)'
    BY <2>2 DEF OnLoop
  <2>3. \A d \in Calls \ {c} : phase'[d] = phase[d] /\ answer'[d] = answer[d]
                               /\ attempt'[d] = attempt[d]
    BY DEF ExecutorTypes
  <2> QED
    BY <2>1, <2>2, <2>3, <2>4, <2>5, CallMoves
<1>3. ASSUME NEW c \in Calls, NEW o \in Ends, NEW a \in {"result", "error"},
             phase[c] \in {"submitted", "running"}, Answers(c, o, a),
             threads' \subseteq threads,
             a = "result" => o = "returned",
             a = "error" => \/ o = "fatal"
                            \/ /\ attempt[c] = MaxRetries
                               /\ o \in {"failed", "timed out"}
      PROVE  ExecutorIInv'
  BY <1>3, AttemptEnds DEF Answers
<1>4. ASSUME NEW c \in Calls, NEW o \in {"failed", "timed out"},
             phase[c] \in {"submitted", "running"}, BacksOff(c, o),
             threads' \subseteq threads
      PROVE  ExecutorIInv'
  <2>1. answer' = [answer EXCEPT ![c] = "none"]
    BY <1>4 DEF BacksOff, ExecutorIInv, ExecutorTypes, Explained
  <2> QED
    BY <1>4, <2>1, AttemptEnds DEF BacksOff, Ends
<1>5. ASSUME NEW c \in Calls, Returns(c)
      PROVE  ExecutorIInv'
  BY <1>3, <1>5 DEF Returns, Ends
<1>6. ASSUME NEW c \in Calls, Fails(c)
      PROVE  ExecutorIInv'
  <2>1. phase[c] \in {"submitted", "running"} /\ threads' \subseteq threads
    BY <1>6 DEF Fails
  <2>2. CASE BacksOff(c, "failed")
    BY <1>4, <2>1, <2>2
  <2>3. CASE Answers(c, "fatal", "error")
    BY <1>3, <2>1, <2>3 DEF Ends
  <2>4. CASE attempt[c] = MaxRetries /\ Answers(c, "failed", "error")
    BY <1>3, <2>1, <2>4 DEF Ends
  <2> QED
    BY <1>6, <2>2, <2>3, <2>4 DEF Fails
<1>7. ASSUME NEW c \in Calls, TimesOut(c)
      PROVE  ExecutorIInv'
  <2>1. phase[c] \in {"submitted", "running"} /\ threads' \subseteq threads
    BY <1>7 DEF TimesOut
  <2>2. CASE BacksOff(c, "timed out")
    BY <1>4, <2>1, <2>2
  <2>3. CASE attempt[c] = MaxRetries /\ Answers(c, "timed out", "error")
    BY <1>3, <2>1, <2>3 DEF Ends
  <2> QED
    BY <1>7, <2>2, <2>3 DEF TimesOut
<1>8. ASSUME NEW c \in Calls, Wakes(c)
      PROVE  ExecutorIInv'
  <2> USE <1>8 DEF ExecutorIInv, Wakes
  <2>1. /\ Retried(c) /\ Explained(c) /\ OnLoop(c)
        /\ attempt[c] \in Attempts /\ attempt[c] < MaxRetries
        /\ outcome[c][attempt[c]] \in {"failed", "timed out"}
        /\ answer[c] = "none"
    BY CallTypes DEF Explained
  <2>7. /\ attempt[c] + 1 \in Attempts
        /\ \A a \in Attempts :
             a < attempt[c] + 1 => a = attempt[c] \/ a < attempt[c]
    BY <2>1, NextAttempt
  <2>2. ExecutorTypes'
    BY <2>7 DEF ExecutorTypes, Phases, Started
  <2>3. attempt'[c] = attempt[c] + 1 /\ phase'[c] = Started(c)
    BY DEF ExecutorTypes
  <2>4. Retried(c)'
    <3>1. SUFFICES ASSUME NEW a \in Attempts, a < attempt[c] + 1
                   PROVE  outcome[c][a] \in {"failed", "timed out"}
      BY <2>3 DEF Retried
    <3> QED
      BY <2>1, <2>7, <3>1 DEF Retried
  <2>5. phase'[c] \in {"submitted", "running"}
        /\ (kind[c] = "coroutine" => phase'[c] = "running")
    BY <2>3 DEF Started
  <2>8. Explained(c)' /\ OnLoop(c)'
    BY <2>1, <2>5 DEF Explained, OnLoop
  <2>6. \A d \in Calls \ {c} : phase'[d] = phase[d] /\ answer'[d] = answer[d]
                               /\ attempt'[d] = attempt[d]
    BY DEF ExecutorTypes
  <2> QED
    BY <2>2, <2>4, <2>8, <2>6, CallMoves
<1>9. CASE PoolStep \/ Gathered \/ Trimmed \/ UNCHANGED executorVars
  <2>1. UNCHANGED <<kind, phase, attempt, outcome, answer>>
        /\ threads' \subseteq threads
    BY <1>9 DEF PoolStep, StrayEnds, Gathered, Trimmed, executorVars
  <2>2. ExecutorTypes'
    BY <2>1 DEF ExecutorIInv, ExecutorTypes
  <2>3. ASSUME NEW d \in Calls
        PROVE  Retried(d)' /\ Explained(d)' /\ OnLoop(d)'
    BY <2>1, OtherCall
  <2> QED
    BY <2>2, <2>3 DEF ExecutorIInv
<1> QED
  BY <1>1, <1>2, <1>5, <1>6, <1>7, <1>8, <1>9 DEF ExecutorNext, CallStep

\* Whatever its tools do, an answer of a tool phase is explained by the
\* attempts of its call, for any number of calls, retries and threads: a
\* thread nobody waits for can no longer change an answer.
THEOREM AnswersAreExplained == ExecutorSpec => []AnswersExplained
<1>1. ExecutorIInv => AnswersExplained
  BY DEF ExecutorIInv, AnswersExplained, Retried, Explained, OnLoop
<1> QED
  BY <1>1, ExecutorInitially, ExecutorStep, PTL DEF ExecutorSpec

-----------------------------------------------------------------------------
(* The loop.                                                                 *)

AnyCall == UNION {{r[i] : i \in DOMAIN r} : r \in ModelAnswers}
Results == Outcomes \cup {"too deep"}
RunSummaries == Seq({c.id : c \in AnyCall} \X Results)
Said == Texts \cup {<<>>}
Turns == Said \X Seq(AnyCall) \X RunSummaries

LoopTypes ==
  /\ response \in Seq(AnyCall) /\ todo \in Seq(AnyCall)
  /\ stage = "executing" => todo # <<>>
  /\ summaries \in RunSummaries /\ said \in Said
  /\ recent \in Seq(Turns)
  /\ streak \in Nat /\ broken \in BOOLEAN

\* The last turns of the window are the streak of equal ones, which is shorter
\* than the window while the run goes on.
StreakSeen ==
  Window > 0 =>
    /\ streak <= Len(recent) /\ Len(recent) <= Window
    /\ \A i \in 1..Len(recent) :
         i > Len(recent) - streak => recent[i] = recent[Len(recent)]
    /\ streak = Window => stage \notin {"trimming", "asking", "calls", "executing"}

\* How many calls of the response have been looked at, the one that is
\* executed not included.
Looked == Len(response) - Len(todo)

\* The calls of the response up to n that are to be executed.
Upto(n) == Wanted(response) \cap 1..n

\* The calls up to n have their answers, in order.
AnsweredUpto(n) ==
  LET answers == Tail(tail) IN
  /\ Len(answers) = Cardinality(Upto(n))
  /\ \A i \in Upto(n) : /\ Cardinality(Upto(i)) \in 1..Len(answers)
                        /\ answers[Cardinality(Upto(i))].call = response[i]

\* What the turn has seen are the ids and signatures of the calls up to n.
SeenUpto(n) ==
  policy # "off" => /\ seenIds = {response[i].id : i \in 1..n}
                    /\ seenSigs = {response[i].signature : i \in 1..n}

Messages == [role : {"assistant", "tool"}, call : AnyCall \cup Seq(AnyCall)]

\* Outside the calls of a turn: nothing is left of it and the context is not
\* marked, or its tool step was cut off, at a call without an answer.
OutsideCalls ==
  /\ marked <=> broken
  /\ ~broken => todo = <<>>
  /\ broken => todo # <<>> /\ tail # <<>> /\ Looked + 1 \in Wanted(response)

\* The messages since the response are it and the answers to its calls so far;
\* what is left is the rest of it.  A mark left in the context is there until
\* the first call of the next response has been executed.
InOrder ==
  /\ Len(todo) <= Len(response)
  /\ \A i \in 1..Len(todo) : todo[i] = response[Looked + i]
  /\ tail \in Seq(Messages)
  /\ tail = <<>> => response = <<>> /\ stage \notin {"calls", "executing"}
  /\ tail # <<>> => tail[1].call = response /\ AnsweredUpto(Looked)
  /\ stage = "calls" => /\ SeenUpto(Looked) /\ ~broken
                        /\ response # <<>>
                        /\ marked => Looked = 0
  /\ stage = "executing" => /\ SeenUpto(Looked + 1) /\ ~broken /\ marked
                            /\ Looked + 1 \in Wanted(response)
  /\ stage \notin {"calls", "executing"} => OutsideCalls

LoopIInv == LoopTypes /\ StreakSeen /\ InOrder

LEMMA WindowNat == Window \in Nat
BY LoopAssumption DEF LoopAssumption

LEMMA AnswersAreCalls ==
  ASSUME NEW r \in ModelAnswers
  PROVE  r \in Seq(AnyCall)
<1>1. r \in Seq({r[i] : i \in DOMAIN r})
  BY LoopAssumption DEF LoopAssumption
<1>2. {r[i] : i \in DOMAIN r} \subseteq AnyCall
  BY DEF AnyCall
<1> QED
  BY <1>1, <1>2

LEMMA LoopInitially == LoopInit => LoopIInv
<1> SUFFICES ASSUME LoopInit PROVE LoopIInv
  OBVIOUS
<1>1. LoopTypes
  <2>1. said \in Said
    BY DEF LoopInit, Said
  <2>2. summaries \in RunSummaries
    BY DEF LoopInit, RunSummaries
  <2>3. response \in Seq(AnyCall) /\ todo \in Seq(AnyCall) /\ recent \in Seq(Turns)
    BY DEF LoopInit
  <2>4. stage # "executing" /\ streak \in Nat
    BY DEF LoopInit
  <2>5. broken \in BOOLEAN
    BY DEF LoopInit
  <2> QED
    BY <2>1, <2>2, <2>3, <2>4, <2>5 DEF LoopTypes
<1>2. StreakSeen
  BY WindowNat DEF LoopInit, StreakSeen
<1>3. InOrder
  BY DEF LoopInit, InOrder, Looked, OutsideCalls
<1> QED
  BY <1>1, <1>2, <1>3 DEF LoopIInv

\* A run that goes on from a stage within the turn keeps its streak.
LEMMA StreakKept ==
  ASSUME StreakSeen, UNCHANGED <<recent, streak>>,
         stage \in {"trimming", "asking", "calls", "executing"}
  PROVE  StreakSeen'
BY DEF StreakSeen

\* The window with a turn added.
LEMMA NewestTurns ==
  ASSUME recent \in Seq(Turns), NEW h \in Turns, NEW s,
         s = Newest(Append(recent, h))
  PROVE  /\ s \in Seq(Turns)
         /\ Len(recent) <= Window /\ Window > 0 =>
              /\ Len(s) <= Window /\ s[Len(s)] = h
              /\ Len(s) = IF Len(recent) = Window THEN Window ELSE Len(recent) + 1
              /\ \A i \in 1..(Len(s) - 1) :
                   s[i] = recent[i + ((Len(recent) + 1) - Len(s))]
<1> DEFINE a == Append(recent, h)
<1>1. /\ a \in Seq(Turns) /\ Len(a) = Len(recent) + 1 /\ a[Len(a)] = h
      /\ Len(recent) \in Nat /\ Window \in Nat
      /\ \A i \in 1..Len(recent) : a[i] = recent[i]
  BY WindowNat
<1>2. s = IF Len(a) > Window THEN Tail(a) ELSE a
  BY DEF Newest
<1> HIDE DEF a
<1>3. CASE Len(a) > Window
  <2>1. /\ s \in Seq(Turns) /\ Len(s) = Len(recent)
        /\ \A i \in 1..Len(s) : s[i] = a[i + 1]
    BY <1>1, <1>2, <1>3
  <2>2. \A i \in 1..(Len(s) - 1) : s[i] = recent[i + 1]
    BY <1>1, <2>1
  <2>3. Len(recent) <= Window => Len(recent) = Window
    BY <1>1, <1>3
  <2>4. Window > 0 /\ Len(recent) = Window => s[Len(s)] = h
    BY <1>1, <2>1
  <2> QED
    BY <1>1, <2>1, <2>2, <2>3, <2>4
<1>4. CASE ~(Len(a) > Window)
  <2>1. s = a /\ Len(recent) # Window
    BY <1>1, <1>2, <1>4
  <2> QED
    BY <1>1, <1>4, <2>1
<1> QED
  BY <1>3, <1>4

LEMMA StreakStep ==
  ASSUME LoopTypes, StreakSeen, EndTurn
  PROVE  recent' \in Seq(Turns) /\ streak' \in Nat /\ StreakSeen'
<1> DEFINE hash == <<said, response, summaries>>
<1>1. hash \in Turns
  BY DEF LoopTypes, Turns
<1>2. /\ stage = "calls" /\ recent' = Newest(Append(recent, hash))
      /\ streak' = IF recent # <<>> /\ recent[Len(recent)] = hash
                   THEN streak + 1 ELSE 1
      /\ stage' \in {"trimming", "returned", "exhausted"}
      /\ /\ Window > 0 /\ Len(recent') = Window
         /\ \A i \in 1..Window : recent'[i] = hash
         => stage' = "returned"
  BY DEF EndTurn
<1> HIDE DEF hash
<1>3. recent' \in Seq(Turns)
  BY <1>1, <1>2, NewestTurns DEF LoopTypes
<1>4. streak' \in Nat
  BY <1>2 DEF LoopTypes
<1>5. ASSUME Window > 0
      PROVE  /\ streak' <= Len(recent') /\ Len(recent') <= Window
             /\ \A i \in 1..Len(recent') :
                  i > Len(recent') - streak' => recent'[i] = recent'[Len(recent')]
             /\ streak' = Window => stage' = "returned"
  <2>1. /\ Len(recent) <= Window /\ streak <= Len(recent) /\ streak < Window
        /\ \A i \in 1..Len(recent) :
             i > Len(recent) - streak => recent[i] = recent[Len(recent)]
    BY <1>2, <1>5, WindowNat DEF StreakSeen, LoopTypes
  <2>2. /\ Len(recent') <= Window /\ recent'[Len(recent')] = hash
        /\ Len(recent') = IF Len(recent) = Window THEN Window
                          ELSE Len(recent) + 1
        /\ \A i \in 1..(Len(recent') - 1) :
             recent'[i] = recent[i + ((Len(recent) + 1) - Len(recent'))]
    BY <1>1, <1>2, <1>5, <2>1, NewestTurns DEF LoopTypes
  <2>6. /\ Len(recent') \in Nat /\ Len(recent') > 0
        /\ Len(recent) \in Nat /\ streak \in Nat /\ Window \in Nat
        /\ Len(recent) + 1 - Len(recent') \in {0, 1}
    BY <1>3, <1>5, <2>1, <2>2, WindowNat DEF LoopTypes
  <2>3. streak' <= Len(recent')
    BY <1>2, <2>1, <2>2, WindowNat DEF LoopTypes
  <2>4. ASSUME NEW i \in 1..Len(recent'), i > Len(recent') - streak'
        PROVE  recent'[i] = hash
    <3>1. CASE i = Len(recent')
      BY <2>2, <3>1
    <3>2. CASE i # Len(recent')
      <4>1. /\ recent # <<>> /\ recent[Len(recent)] = hash
            /\ streak' = streak + 1
        BY <1>2, <1>4, <2>6, <2>4, <3>2
      <4> DEFINE j == i + ((Len(recent) + 1) - Len(recent'))
      <4>2. j \in 1..Len(recent) /\ j > Len(recent) - streak
        BY <2>1, <2>4, <2>6, <3>2, <4>1
      <4>3. recent'[i] = recent[j]
        <5>1. i \in 1..(Len(recent') - 1)
          BY <2>4, <2>6, <3>2
        <5> QED
          BY <2>2, <5>1
      <4> HIDE DEF j
      <4> QED
        BY <2>1, <4>1, <4>2, <4>3
    <3> QED
      BY <3>1, <3>2
  <2>5. ASSUME streak' = Window
        PROVE  stage' = "returned"
    <3>1. Len(recent') = Window
      BY <2>2, <2>3, <2>5, <2>6
    <3>2. \A i \in 1..Window : recent'[i] = hash
      BY <2>4, <2>5, <3>1, WindowNat
    <3> QED
      BY <1>2, <1>5, <3>1, <3>2
  <2> QED
    BY <2>2, <2>3, <2>4, <2>5
<1> QED
  BY <1>3, <1>4, <1>5 DEF StreakSeen

LEMMA UptoCounted ==
  ASSUME NEW n \in Nat
  PROVE  /\ IsFiniteSet(Upto(n)) /\ Cardinality(Upto(n)) \in Nat
         /\ n + 1 \in Wanted(response) =>
              /\ Upto(n + 1) = Upto(n) \cup {n + 1}
              /\ Cardinality(Upto(n + 1)) = Cardinality(Upto(n)) + 1
         /\ n + 1 \notin Wanted(response) => Upto(n + 1) = Upto(n)
<1>1. IsFiniteSet(Upto(n))
  <2>1. IsFiniteSet(1..n)
    BY FS_Interval
  <2> QED
    BY <2>1, FS_Subset DEF Upto
<1>2. n + 1 \notin Upto(n)
  BY DEF Upto
<1>3. n + 1 \in Wanted(response) => Upto(n + 1) = Upto(n) \cup {n + 1}
  BY DEF Upto
<1>4. n + 1 \notin Wanted(response) => Upto(n + 1) = Upto(n)
  BY DEF Upto
<1> QED
  BY <1>1, <1>2, <1>3, <1>4, FS_AddElement, FS_CardinalityType

\* With one more of the wanted calls there are more.
LEMMA MoreCounted ==
  ASSUME NEW n \in Nat, NEW S \in SUBSET Upto(n), NEW x \in Upto(n), x \notin S
  PROVE  Cardinality(S) < Cardinality(Upto(n))
<1>1. IsFiniteSet(Upto(n)) /\ IsFiniteSet(S)
  BY UptoCounted, FS_Subset
<1> QED
  BY <1>1, FS_Subset, FS_CardinalityType

\* A call is a duplicate exactly when it is not one of those to be executed.
LEMMA DuplicateNotWanted ==
  ASSUME response \in Seq(AnyCall), NEW n \in Nat, n + 1 \in 1..Len(response),
         SeenUpto(n)
  PROVE  Duplicate(response[n + 1]) <=> n + 1 \notin Wanted(response)
<1>1. n + 1 \in DOMAIN response /\ 1..((n + 1) - 1) = 1..n
  OBVIOUS
<1> QED
  BY <1>1 DEF Duplicate, Wanted, SeenUpto

\* The first call of a response is executed under each policy.
LEMMA FirstIsWanted ==
  ASSUME response \in Seq(AnyCall), response # <<>>
  PROVE  0 + 1 \in Wanted(response)
<1>1. 1 \in DOMAIN response /\ 1..(1 - 1) = {}
  OBVIOUS
<1> QED
  BY <1>1 DEF Wanted

LEMMA SeenOneMore ==
  ASSUME NEW n \in Nat, SeenUpto(n), See(response[n + 1]),
         UNCHANGED <<policy, response>>
  PROVE  /\ policy # "off" =>
              /\ seenIds' = {response'[i].id : i \in 1..(n + 1)}
              /\ seenSigs' = {response'[i].signature : i \in 1..(n + 1)}
<1>1. 1..(n + 1) = (1..n) \cup {n + 1}
  OBVIOUS
<1> QED
  BY <1>1 DEF SeenUpto, See

LEMMA WantedKept ==
  ASSUME UNCHANGED <<policy, response>>
  PROVE  /\ Wanted(response)' = Wanted(response)
         /\ \A n \in Nat : Wanted(response)' \cap 1..n = Upto(n)
BY DEF Wanted, Upto

LEMMA AnsweredKept ==
  ASSUME InOrder, UNCHANGED <<policy, response, todo, tail>>, tail # <<>>
  PROVE  AnsweredUpto(Looked)'
<1>1. AnsweredUpto(Looked) /\ Looked' = Looked
  BY DEF InOrder, Looked
<1>2. Wanted(response)' = Wanted(response)
  BY WantedKept
<1> QED
  BY <1>1, <1>2 DEF AnsweredUpto, Upto

\* Between turns nothing happens to the calls; a tool step may be cut off.
LEMMA BetweenTurns ==
  ASSUME LoopTypes, InOrder, UNCHANGED <<policy, response, todo, tail, marked>>,
         stage' \notin {"calls", "executing"},
         \/ OutsideCalls /\ UNCHANGED broken
         \/ stage = "executing" /\ broken'
  PROVE  InOrder'
<1>1. tail # <<>> => AnsweredUpto(Looked)'
  BY AnsweredKept
<1>2. Looked' = Looked /\ Wanted(response)' = Wanted(response)
  BY WantedKept DEF Looked
<1>3. OutsideCalls'
  <2>1. CASE OutsideCalls /\ UNCHANGED broken
    BY <1>2, <2>1 DEF OutsideCalls
  <2>2. CASE stage = "executing" /\ broken'
    <3>1. marked /\ todo # <<>> /\ tail # <<>> /\ Looked + 1 \in Wanted(response)
      BY <2>2 DEF InOrder, LoopTypes
    <3> QED
      BY <1>2, <2>2, <3>1 DEF OutsideCalls
  <2> QED
    BY <2>1, <2>2
<1> QED
  BY <1>1, <1>2, <1>3 DEF InOrder

\* The next call is the next of the response.
LEMMA NextCall ==
  ASSUME LoopTypes, InOrder, todo # <<>>
  PROVE  /\ Looked \in Nat /\ Looked + 1 \in 1..Len(response)
         /\ Head(todo) = response[Looked + 1]
         /\ Tail(todo) \in Seq(AnyCall) /\ Len(Tail(todo)) = Len(todo) - 1
         /\ \A i \in 1..Len(Tail(todo)) :
              Tail(todo)[i] = response[(Looked + 1) + i]
         /\ Head(todo) \in AnyCall
<1> DEFINE k == Looked
<1>1. /\ k = Len(response) - Len(todo)
      /\ todo \in Seq(AnyCall) /\ response \in Seq(AnyCall)
      /\ Len(todo) <= Len(response)
      /\ \A i \in 1..Len(todo) : todo[i] = response[k + i]
  BY DEF InOrder, LoopTypes, Looked
<1> HIDE DEF k
<1>2. /\ Len(todo) \in Nat \ {0} /\ Len(response) \in Nat
      /\ Head(todo) = todo[1] /\ 1 \in 1..Len(todo)
      /\ Tail(todo) \in Seq(AnyCall) /\ Len(Tail(todo)) = Len(todo) - 1
      /\ \A i \in 1..Len(Tail(todo)) : Tail(todo)[i] = todo[i + 1]
      /\ Head(todo) \in AnyCall
  BY <1>1
<1>3. k \in Nat /\ k + 1 \in 1..Len(response) /\ Head(todo) = response[k + 1]
  BY <1>1, <1>2
<1>4. ASSUME NEW i \in 1..Len(Tail(todo))
      PROVE  Tail(todo)[i] = response[(k + 1) + i]
  <2>1. i + 1 \in 1..Len(todo) /\ k + (i + 1) = (k + 1) + i
    BY <1>2, <1>3
  <2> QED
    BY <1>1, <1>2, <2>1
<1> QED
  BY <1>2, <1>3, <1>4 DEF k

LEMMA SkipInOrder ==
  ASSUME LoopTypes, InOrder, Skip
  PROVE  InOrder'
<1> DEFINE k == Looked
<1>1. /\ stage = "calls" /\ todo # <<>> /\ Duplicate(Head(todo))
      /\ See(Head(todo)) /\ todo' = Tail(todo)
      /\ UNCHANGED <<policy, stage, tail, response, marked, broken>>
  BY DEF Skip
<1>2. /\ k \in Nat /\ k + 1 \in 1..Len(response)
      /\ Head(todo) = response[k + 1]
      /\ todo' \in Seq(AnyCall) /\ Len(todo') = Len(todo) - 1
      /\ \A i \in 1..Len(todo') : todo'[i] = response[(k + 1) + i]
  BY <1>1, NextCall
<1>3. /\ Looked' = k + 1 /\ Len(todo') <= Len(response)
      /\ response \in Seq(AnyCall) /\ SeenUpto(k) /\ AnsweredUpto(k)
      /\ tail # <<>> /\ response # <<>> /\ ~broken
      /\ marked => k = 0
  BY <1>1, <1>2 DEF Looked, LoopTypes, InOrder
<1> HIDE DEF k
<1>4. k + 1 \notin Wanted(response)
  BY <1>1, <1>2, <1>3, DuplicateNotWanted
<1>5. Upto(k + 1) = Upto(k) /\ Wanted(response)' = Wanted(response)
  BY <1>1, <1>2, <1>4, UptoCounted, WantedKept
<1>6. AnsweredUpto(Looked)'
  <2>1. AnsweredUpto(k + 1)
    BY <1>3, <1>5 DEF AnsweredUpto
  <2> QED
    BY <1>1, <1>3, <1>5, <2>1 DEF AnsweredUpto, Upto
<1>7. SeenUpto(Looked)'
  BY <1>1, <1>2, <1>3, SeenOneMore DEF SeenUpto
<1>8. k # 0
  BY <1>2, <1>3, <1>4, FirstIsWanted
<1> QED
  BY <1>1, <1>2, <1>3, <1>6, <1>7, <1>8 DEF InOrder

LEMMA ExecuteInOrder ==
  ASSUME LoopTypes, InOrder, Execute
  PROVE  InOrder'
<1> DEFINE k == Looked
<1>1. /\ stage = "calls" /\ todo # <<>> /\ ~Duplicate(Head(todo))
      /\ See(Head(todo)) /\ stage' = "executing" /\ marked' = TRUE
      /\ UNCHANGED <<policy, tail, response, todo, broken>>
  BY DEF Execute
<1>2. /\ k \in Nat /\ k + 1 \in 1..Len(response)
      /\ Head(todo) = response[k + 1]
  BY <1>1, NextCall
<1>3. /\ Looked' = k /\ response \in Seq(AnyCall) /\ SeenUpto(k)
      /\ tail # <<>> /\ AnsweredUpto(Looked)'
  BY <1>1, AnsweredKept DEF Looked, LoopTypes, InOrder
<1>8. InOrder
  OBVIOUS
<1> HIDE DEF k
<1>4. k + 1 \in Wanted(response) /\ Wanted(response)' = Wanted(response)
  BY <1>1, <1>2, <1>3, DuplicateNotWanted, WantedKept
<1>5. SeenUpto(Looked + 1)'
  BY <1>1, <1>2, <1>3, SeenOneMore DEF SeenUpto
<1>6. Looked' + 1 \in Wanted(response)'
  BY <1>3, <1>4
<1> QED
  BY <1>1, <1>3, <1>5, <1>6, <1>8 DEF InOrder, Looked

LEMMA ExecutedInOrder ==
  ASSUME LoopTypes, InOrder, NEW o, Executed(o)
  PROVE  InOrder'
<1> DEFINE k == Looked
           c == Head(todo)
           m == [role |-> "tool", call |-> c]
           answers == Tail(tail)
<1>1. /\ stage = "executing" /\ marked' = FALSE
      /\ tail' = Append(tail, m)
      /\ todo' = Tail(todo) /\ stage' = "calls"
      /\ UNCHANGED <<policy, response, seenIds, seenSigs, broken>>
  BY DEF Executed
<1>2. /\ todo # <<>> /\ SeenUpto(k + 1) /\ k + 1 \in Wanted(response)
      /\ tail # <<>> /\ tail \in Seq(Messages)
      /\ tail[1].call = response /\ AnsweredUpto(k) /\ ~broken
  BY <1>1 DEF InOrder, LoopTypes
<1>3. /\ k \in Nat /\ k + 1 \in 1..Len(response) /\ c = response[k + 1]
      /\ c \in AnyCall
      /\ todo' \in Seq(AnyCall) /\ Len(todo') = Len(todo) - 1
      /\ \A i \in 1..Len(todo') : todo'[i] = response[(k + 1) + i]
  BY <1>1, <1>2, NextCall
<1>4. Looked' = k + 1 /\ Len(todo') <= Len(response)
  BY <1>1, <1>3 DEF Looked, LoopTypes, InOrder
<1> HIDE DEF k, c
<1>5. m \in Messages
  BY <1>3 DEF Messages
<1>6. m.call = c
  OBVIOUS
<1> HIDE DEF m
<1>7. /\ tail' \in Seq(Messages) /\ tail' # <<>> /\ tail'[1] = tail[1]
      /\ answers \in Seq(Messages)
      /\ Tail(tail') = Append(answers, m)
  BY <1>1, <1>2, <1>5
<1> HIDE DEF answers
<1>8. /\ Len(answers) = Cardinality(Upto(k))
      /\ \A i \in Upto(k) : /\ Cardinality(Upto(i)) \in 1..Len(answers)
                            /\ answers[Cardinality(Upto(i))].call = response[i]
  BY <1>2 DEF AnsweredUpto, answers
<1>9. /\ Upto(k + 1) = Upto(k) \cup {k + 1}
      /\ Cardinality(Upto(k + 1)) = Len(answers) + 1
      /\ Wanted(response)' = Wanted(response)
  <2>1. Wanted(response)' = Wanted(response)
    BY <1>1, WantedKept
  <2> QED
    BY <1>2, <1>3, <1>8, <2>1, UptoCounted
<1>10. \A i \in Upto(k + 1) :
         /\ Cardinality(Upto(i)) \in 1..Len(Tail(tail'))
         /\ Tail(tail')[Cardinality(Upto(i))].call = response[i]
  <2>1. ASSUME NEW i \in Upto(k)
        PROVE  /\ Cardinality(Upto(i)) \in 1..Len(Tail(tail'))
               /\ Tail(tail')[Cardinality(Upto(i))].call = response[i]
    BY <1>7, <1>8
  <2>2. /\ Cardinality(Upto(k + 1)) \in 1..Len(Tail(tail'))
        /\ Tail(tail')[Cardinality(Upto(k + 1))].call = response[k + 1]
    BY <1>3, <1>6, <1>7, <1>9
  <2> QED
    BY <1>9, <2>1, <2>2
<1>11. AnsweredUpto(Looked)'
  <2>1. Len(Tail(tail')) = Cardinality(Upto(k + 1))
    BY <1>7, <1>9
  <2> QED
    BY <1>1, <1>4, <1>9, <1>10, <2>1 DEF AnsweredUpto, Upto
<1>12. SeenUpto(Looked)'
  BY <1>1, <1>2, <1>4 DEF SeenUpto
<1> QED
  BY <1>1, <1>2, <1>3, <1>4, <1>7, <1>11, <1>12 DEF InOrder

LEMMA AnswerInOrder ==
  ASSUME LoopTypes, InOrder, NEW r \in ModelAnswers, NEW text, Answer(r, text)
  PROVE  InOrder'
<1>1. CASE r = <<>>
  <2>1. /\ stage = "asking" /\ stage' = "returned"
        /\ UNCHANGED <<policy, response, todo, tail, marked, broken>>
    BY <1>1 DEF Answer, toolVars
  <2>2. OutsideCalls
    BY <2>1 DEF InOrder
  <2> QED
    BY <2>1, <2>2, BetweenTurns
<1>2. CASE r # <<>>
  <2>1. /\ stage = "asking" /\ stage' = "calls"
        /\ response' = r /\ todo' = r
        /\ tail' = <<[role |-> "assistant", call |-> r]>>
        /\ seenIds' = {} /\ seenSigs' = {} /\ broken' = FALSE
        /\ UNCHANGED <<policy, marked>>
    BY <1>2 DEF Answer
  <2>2. r \in Seq(AnyCall) /\ Len(r) \in Nat
    BY AnswersAreCalls
  <2>3. /\ tail' \in Seq(Messages) /\ tail'[1].call = r /\ tail' # <<>>
        /\ Tail(tail') = <<>>
    BY <2>1, <2>2 DEF Messages
  <2>4. Looked' = 0 /\ 1..0 = {}
    BY <2>1, <2>2 DEF Looked
  <2>5. AnsweredUpto(Looked)'
    <3>1. Len(Tail(tail')) = 0 /\ Upto(0)' = {} /\ Cardinality({}) = 0
      BY <2>3, <2>4, FS_EmptySet DEF Upto
    <3> QED
      BY <2>4, <3>1 DEF AnsweredUpto, Upto
  <2>6. SeenUpto(Looked)'
    BY <2>1, <2>4 DEF SeenUpto
  <2> QED
    BY <1>2, <2>1, <2>2, <2>3, <2>4, <2>5, <2>6 DEF InOrder
<1> QED
  BY <1>1, <1>2

LEMMA ResultSummarised ==
  ASSUME LoopTypes, todo # <<>>, NEW o \in Results
  PROVE  Append(summaries, <<Head(todo).id, o>>) \in RunSummaries
<1>1. Head(todo) \in AnyCall
  BY DEF LoopTypes
<1>2. Head(todo).id \in {c.id : c \in AnyCall}
  BY <1>1
<1> QED
  BY <1>2 DEF LoopTypes, RunSummaries

\* A step of a run outside the calls.
LEMMA OutsideKept ==
  ASSUME LoopTypes, InOrder, stage \notin {"calls", "executing"},
         stage' \notin {"calls", "executing"},
         UNCHANGED <<policy, response, todo, tail, marked, broken>>
  PROVE  InOrder'
<1>1. OutsideCalls
  BY DEF InOrder
<1> QED
  BY <1>1, BetweenTurns

LEMMA LoopStep ==
  ASSUME LoopIInv, [LoopNext]_loopVars
  PROVE  LoopIInv'
<1> USE DEF LoopIInv
<1>1. CASE Run
  <2>1. LoopTypes' /\ StreakSeen'
    BY <1>1, WindowNat DEF Run, LoopTypes, StreakSeen, toolVars
  <2>2. InOrder'
    <3>1. /\ stage \notin {"calls", "executing"} /\ stage' = "trimming"
          /\ UNCHANGED <<policy, response, todo, tail, marked, broken>>
      BY <1>1 DEF Run, toolVars
    <3> QED
      BY <3>1, OutsideKept
  <2> QED
    BY <2>1, <2>2
<1>2. CASE AskModel
  <2>1. LoopTypes' /\ StreakSeen'
    BY <1>2, StreakKept DEF AskModel, LoopTypes, toolVars
  <2>2. InOrder'
    <3>1. /\ stage \notin {"calls", "executing"} /\ stage' \notin {"calls", "executing"}
          /\ UNCHANGED <<policy, response, todo, tail, marked, broken>>
      BY <1>2 DEF AskModel, toolVars
    <3> QED
      BY <3>1, OutsideKept
  <2> QED
    BY <2>1, <2>2
<1>3. ASSUME NEW r \in ModelAnswers, NEW text \in Texts, Answer(r, text)
      PROVE  LoopIInv'
  <2>1. LoopTypes'
    <3>1. CASE r = <<>>
      BY <1>3, <3>1 DEF Answer, LoopTypes, toolVars
    <3>2. CASE r # <<>>
      <4>1. /\ response' = r /\ said' = text /\ todo' = r /\ summaries' = <<>>
            /\ stage' = "calls" /\ broken' = FALSE
            /\ UNCHANGED <<recent, streak>>
        BY <1>3, <3>2 DEF Answer
      <4>2. LoopTypes'
        <5>1. said' \in Said /\ summaries' \in RunSummaries
          BY <4>1 DEF Said, RunSummaries
        <5>2. response' \in Seq(AnyCall) /\ todo' \in Seq(AnyCall)
          BY <4>1, AnswersAreCalls
        <5> QED
          BY <4>1, <5>1, <5>2 DEF LoopTypes
      <4> QED
        BY <4>2
    <3> QED
      BY <3>1, <3>2
  <2>2. StreakSeen'
    BY <1>3, StreakKept DEF Answer
  <2>3. InOrder'
    BY <1>3, AnswerInOrder
  <2> QED
    BY <2>1, <2>2, <2>3
<1>4. CASE Skip
  BY <1>4, StreakKept, SkipInOrder DEF Skip, LoopTypes
<1>5. CASE Execute
  BY <1>5, StreakKept, ExecuteInOrder DEF Execute, LoopTypes
<1>6. ASSUME NEW o \in Outcomes, Executed(o)
      PROVE  LoopIInv'
  <2>4. /\ todo # <<>> /\ stage' = "calls" /\ todo' = Tail(todo)
        /\ UNCHANGED <<response, said, recent, streak, broken>>
    BY <1>6 DEF Executed, LoopTypes
  <2>5. summaries' \in RunSummaries
    <3>1. (IF depth > MaxDepth THEN "too deep" ELSE o) \in Results
      BY DEF Results
    <3> QED
      BY <1>6, <2>4, <3>1, ResultSummarised DEF Executed
  <2>1. LoopTypes'
    BY <2>4, <2>5 DEF LoopTypes
  <2>2. StreakSeen'
    BY <1>6, StreakKept DEF Executed
  <2>3. InOrder'
    BY <1>6, ExecutedInOrder
  <2> QED
    BY <2>1, <2>2, <2>3
<1>7. CASE EndTurn
  <2>1. LoopTypes' /\ StreakSeen'
    BY <1>7, StreakStep DEF EndTurn, LoopTypes, toolVars
  <2>2. InOrder'
    <3>1. /\ stage = "calls" /\ todo = <<>> /\ stage' \notin {"calls", "executing"}
          /\ UNCHANGED <<policy, response, todo, tail, marked, broken>>
      BY <1>7 DEF EndTurn, toolVars
    <3>2. ~broken /\ response # <<>> /\ (marked => Looked = 0)
      BY <3>1 DEF InOrder
    <3>3. Looked # 0
      BY <3>1, <3>2 DEF Looked, LoopTypes
    <3>4. OutsideCalls
      BY <3>1, <3>2, <3>3 DEF OutsideCalls
    <3> QED
      BY <3>1, <3>4, BetweenTurns
  <2> QED
    BY <2>1, <2>2
<1>8. CASE CutOff
  <2>1. LoopTypes' /\ StreakSeen'
    BY <1>8, StreakKept DEF CutOff, LoopTypes, toolVars
  <2>2. InOrder'
    <3>1. /\ stage' = "raised" /\ broken' = (broken \/ stage = "executing")
          /\ UNCHANGED <<policy, response, todo, tail, marked>>
          /\ stage \in {"trimming", "asking", "executing"}
      BY <1>8 DEF CutOff, toolVars
    <3>2. stage # "executing" => OutsideCalls /\ UNCHANGED broken
      <4>1. broken \in BOOLEAN
        BY DEF LoopTypes
      <4> QED
        BY <3>1, <4>1 DEF InOrder
    <3>3. stage = "executing" => broken'
      BY <3>1
    <3>4. stage' \notin {"calls", "executing"}
      BY <3>1
    <3> QED
      BY <3>1, <3>2, <3>3, <3>4, BetweenTurns
  <2> QED
    BY <2>1, <2>2
<1>9. CASE UNCHANGED loopVars
  <2>1. LoopTypes' /\ StreakSeen'
    BY <1>9 DEF loopVars, LoopTypes, StreakSeen
  <2>2. InOrder'
    <3>1. InOrder
      OBVIOUS
    <3> HIDE DEF LoopIInv
    <3>4. /\ UNCHANGED <<policy, response, todo, tail>>
          /\ UNCHANGED <<marked, broken, stage, seenIds, seenSigs>>
      BY <1>9 DEF loopVars
    <3>2. tail # <<>> => AnsweredUpto(Looked)'
      BY <3>1, <3>4, AnsweredKept
    <3>3. Wanted(response)' = Wanted(response)
      BY <3>4, WantedKept
    <3> QED
      BY <3>1, <3>2, <3>3, <3>4, SMTT(40) DEF InOrder, Looked, SeenUpto, OutsideCalls
  <2> QED
    BY <2>1, <2>2
<1> QED
  BY <1>1, <1>2, <1>3, <1>4, <1>5, <1>6, <1>7, <1>8, <1>9 DEF LoopNext

LEMMA LoopInvariant == LoopSpec => []LoopIInv
BY LoopInitially, LoopStep, PTL DEF LoopSpec

\* A run does not go on after a window of turns that are equal in content and
\* finish_reason, calls and results, whatever the window and the model's answers: the streak fits the window, and one that fills it ends
\* the run.
THEOREM NoSpinning == LoopSpec => []NoSpin
<1>1. LoopIInv => NoSpin
  BY WindowNat DEF LoopIInv, LoopTypes, StreakSeen, NoSpin
<1> QED
  BY <1>1, LoopInvariant, PTL

\* For any answers of the model and each policy: when the model is asked, the
\* answers to the calls of its last response are there once each and in order,
\* but for the duplicates the policy drops, and the context is not marked; when
\* the tool step was cut off they stop short and the mark is there.
THEOREM AsksShowTheTurn == LoopSpec => []AskShowsTheTurn
<1>1. ASSUME LoopIInv, stage = "asking"
      PROVE  /\ marked <=> broken
             /\ tail # <<>> =>
                  /\ \A i \in Wanted(tail[1].call) :
                       LET place == Cardinality({j \in Wanted(tail[1].call) : j <= i})
                       IN place <= Len(Tail(tail)) =>
                            Tail(tail)[place].call = tail[1].call[i]
                  /\ IF broken THEN Len(Tail(tail)) < Cardinality(Wanted(tail[1].call))
                               ELSE Len(Tail(tail)) = Cardinality(Wanted(tail[1].call))
  <2>1. /\ OutsideCalls /\ response \in Seq(AnyCall) /\ todo \in Seq(AnyCall)
        /\ Len(todo) <= Len(response)
        /\ tail # <<>> => tail[1].call = response /\ AnsweredUpto(Looked)
    BY <1>1 DEF LoopIInv, InOrder, LoopTypes
  <2> DEFINE wanted == Wanted(response)
  <2>2. wanted \subseteq 1..Len(response) /\ Looked \in Nat /\ Looked <= Len(response)
    BY <2>1 DEF Wanted, Looked
  <2>3. \A i \in wanted : {j \in wanted : j <= i} = Upto(i)
    BY <2>2 DEF Upto
  <2>4. Upto(Len(response)) = wanted
    BY <2>2 DEF Upto
  <2>5. ASSUME NEW i \in wanted, tail # <<>>,
               Cardinality(Upto(i)) <= Len(Tail(tail))
        PROVE  Tail(tail)[Cardinality(Upto(i))].call = response[i]
    <3>1. i \in Nat
      BY <2>2
    <3>2. CASE i <= Looked
      <4>1. i \in Upto(Looked)
        BY <2>2, <3>1, <3>2 DEF Upto
      <4> QED
        BY <2>1, <2>5, <4>1 DEF AnsweredUpto
    <3>3. CASE ~(i <= Looked)
      <4>1. Upto(Looked) \cup {i} \subseteq Upto(i) /\ i \notin Upto(Looked)
        BY <2>2, <3>1, <3>3 DEF Upto
      <4>2. Cardinality(Upto(Looked)) < Cardinality(Upto(i))
        BY <3>1, <4>1, MoreCounted
      <4> QED
        BY <2>1, <2>2, <2>5, <3>1, <4>2, UptoCounted DEF AnsweredUpto
    <3> QED
      BY <3>2, <3>3
  <2>6. ~broken => Looked = Len(response)
    BY <2>1 DEF OutsideCalls, Looked
  <2>7. broken => Cardinality(Upto(Looked)) < Cardinality(wanted)
    <3> SUFFICES ASSUME broken PROVE Cardinality(Upto(Looked)) < Cardinality(wanted)
      OBVIOUS
    <3>1. Looked + 1 \in wanted
      BY <2>1 DEF OutsideCalls
    <3>2. Upto(Looked) \cup {Looked + 1} \subseteq Upto(Len(response))
          /\ Looked + 1 \notin Upto(Looked)
      BY <2>2, <3>1 DEF Upto
    <3> QED
      BY <2>1, <2>2, <2>4, <3>2, MoreCounted
  <2>8. tail # <<>> => Len(Tail(tail)) = Cardinality(Upto(Looked))
    BY <2>1 DEF AnsweredUpto
  <2> HIDE DEF wanted
  <2>9. ASSUME tail # <<>>
        PROVE  /\ \A i \in wanted :
                    LET place == Cardinality({j \in wanted : j <= i})
                    IN place <= Len(Tail(tail)) => Tail(tail)[place].call = response[i]
               /\ IF broken THEN Len(Tail(tail)) < Cardinality(wanted)
                            ELSE Len(Tail(tail)) = Cardinality(wanted)
    BY <2>3, <2>4, <2>5, <2>6, <2>7, <2>8, <2>9
  <2> QED
    BY <2>1, <2>9 DEF wanted, OutsideCalls
<1>2. LoopIInv => AskShowsTheTurn
  BY <1>1 DEF AskShowsTheTurn
<1> QED
  BY <1>2, LoopInvariant, PTL

-----------------------------------------------------------------------------
\* ConversationMemory: the messages of a conversation, of any length; Talk is not
\* expanded where a sequence of messages is only passed on.
Numbered == [role : Roles, size : Nat, number : Nat]
Talk == Seq(Numbered)

\* The messages of some roles.
Of(roles) == {m \in Numbered : m.role \in roles}

\* The function OfRoles is defined by.
RunOfRoles(s, roles) ==
  CHOOSE upTo : upTo = [n \in 0..Len(s) |->
    IF n = 0 THEN <<>>
    ELSE IF s[n].role \in roles THEN Append(upTo[n - 1], s[n]) ELSE upTo[n - 1]]

\* Choosing the messages of some roles from one more.
Choosing(roles) ==
  [x \in Talk \X Numbered |-> IF x[2].role \in roles THEN Append(x[1], x[2]) ELSE x[1]]

\* It is the fold of the choice along the sequence.
LEMMA RunOfRolesIs ==
  ASSUME NEW s \in Talk, NEW roles
  PROVE  /\ IsFold(RunOfRoles(s, roles), Choosing(roles), <<>>, s)
         /\ OfRoles(s, roles) \in Talk
<1> DEFINE step == Choosing(roles)
<1>1. step \in [Talk \X Numbered -> Talk]
  <2>1. ASSUME NEW x \in Talk \X Numbered
        PROVE  (IF x[2].role \in roles THEN Append(x[1], x[2]) ELSE x[1]) \in Talk
    BY DEF Talk
  <2> QED
    BY <2>1 DEF Choosing
<1>2. \A d \in Talk, m \in Numbered : step[<<d, m>>] = IF m.role \in roles THEN Append(d, m) ELSE d
  BY DEF Choosing
<1> HIDE DEF step
<1>3. /\ s \in Seq(Numbered) /\ Len(s) \in Nat /\ <<>> \in Talk
      /\ \A n \in 1..Len(s) : s[n] \in Numbered /\ n - 1 \in 0..Len(s)
  BY DEF Talk
<1>4. PICK f \in [0..Len(s) -> Talk] : IsFold(f, step, <<>>, s)
  BY <1>1, <1>3, FoldExists
<1>5. /\ f[0] = <<>>
      /\ \A n \in 1..Len(s) : f[n - 1] \in Talk /\ f[n] = step[<<f[n - 1], s[n]>>]
  BY <1>3, <1>4 DEF IsFold
<1>6. \A n \in 1..Len(s) :
        f[n] = IF s[n].role \in roles THEN Append(f[n - 1], s[n]) ELSE f[n - 1]
  BY <1>2, <1>3, <1>5
<1>7. f = [n \in 0..Len(s) |->
             IF n = 0 THEN <<>>
             ELSE IF s[n].role \in roles THEN Append(f[n - 1], s[n]) ELSE f[n - 1]]
  <2>1. \A n \in 0..Len(s) : f[n] =
             IF n = 0 THEN <<>>
             ELSE IF s[n].role \in roles THEN Append(f[n - 1], s[n]) ELSE f[n - 1]
    <3> TAKE n \in 0..Len(s)
    <3>1. n = 0 \/ (n \in 1..Len(s) /\ n # 0)
      BY <1>3
    <3> QED
      BY <1>5, <1>6, <3>1
  <2> QED
    BY <2>1
<1> DEFINE g == RunOfRoles(s, roles)
<1>8. g = [n \in 0..Len(s) |->
             IF n = 0 THEN <<>>
             ELSE IF s[n].role \in roles THEN Append(g[n - 1], s[n]) ELSE g[n - 1]]
  BY <1>7 DEF RunOfRoles
<1>9. OfRoles(s, roles) = g[Len(s)]
  BY DEF OfRoles, RunOfRoles
<1> HIDE DEF g
<1>10. g[0] = <<>>
  BY <1>3, <1>8
<1>11. \A n \in 1..Len(s) :
         g[n] = IF s[n].role \in roles THEN Append(g[n - 1], s[n]) ELSE g[n - 1]
  <2> TAKE n \in 1..Len(s)
  <2>1. n \in 0..Len(s) /\ n # 0
    BY <1>3
  <2> QED
    BY <1>8, <2>1
<1>12. \A n \in 0..Len(s) : g[n] = f[n]
  <2> DEFINE S == {n \in Nat : n <= Len(s) => g[n] = f[n]}
  <2>1. 0 \in S
    BY <1>5, <1>10
  <2>2. ASSUME NEW n \in S PROVE n + 1 \in S
    <3> SUFFICES ASSUME n + 1 <= Len(s) PROVE g[n + 1] = f[n + 1]
      OBVIOUS
    <3>1. n + 1 \in 1..Len(s) /\ (n + 1) - 1 = n /\ g[n] = f[n]
      BY <1>3
    <3> QED
      BY <1>6, <1>11, <3>1
  <2>3. S = Nat
    <3>1. S \in SUBSET Nat
      OBVIOUS
    <3> HIDE DEF S
    <3> QED
      BY <2>1, <2>2, <3>1, ByInduction
  <2> QED
    BY <2>3
<1>13. IsFold(g, step, <<>>, s)
  <2>1. \A n \in 1..Len(s) : g[n] = f[n] /\ g[n - 1] = f[n - 1]
    <3> TAKE n \in 1..Len(s)
    <3>1. n \in 0..Len(s) /\ n - 1 \in 0..Len(s)
      BY <1>3
    <3> QED
      BY <1>12, <3>1
  <2> QED
    BY <1>5, <1>10, <2>1 DEF IsFold
<1>14. g[Len(s)] \in Talk
  <2>1. Len(s) \in 0..Len(s)
    BY <1>3
  <2> QED
    BY <1>4, <1>12, <2>1
<1> QED
  BY <1>9, <1>13, <1>14 DEF g, step

\* Of no message none is chosen.
LEMMA OfNone ==
  ASSUME NEW roles
  PROVE  <<>> \in Talk /\ OfRoles(<<>>, roles) = <<>>
<1>1. OfRoles(<<>>, roles) = RunOfRoles(<<>>, roles)[Len(<<>>)]
  BY DEF OfRoles, RunOfRoles
<1>2. <<>> \in Talk /\ Len(<<>>) = 0
  BY DEF Talk
<1> QED
  BY <1>1, <1>2, RunOfRolesIs DEF IsFold

\* A message more is chosen if it is of one of the roles.
LEMMA OfOneMore ==
  ASSUME NEW roles, NEW r \in Talk, NEW m \in Numbered
  PROVE  /\ Append(r, m) \in Talk
         /\ m.role \in roles => OfRoles(Append(r, m), roles) = Append(OfRoles(r, roles), m)
         /\ m.role \notin roles => OfRoles(Append(r, m), roles) = OfRoles(r, roles)
<1>1. Append(r, m) \in Talk /\ r \in Seq(Numbered)
  BY DEF Talk
<1> DEFINE step == Choosing(roles)
           f == RunOfRoles(r, roles)
           g == RunOfRoles(Append(r, m), roles)
<1>2. /\ IsFold(f, step, <<>>, r) /\ IsFold(g, step, <<>>, Append(r, m))
      /\ OfRoles(r, roles) \in Talk
  BY <1>1, RunOfRolesIs
<1>3. OfRoles(r, roles) = f[Len(r)] /\ OfRoles(Append(r, m), roles) = g[Len(Append(r, m))]
  BY DEF OfRoles, RunOfRoles
<1>4. \A d \in Talk : step[<<d, m>>] = IF m.role \in roles THEN Append(d, m) ELSE d
  BY DEF Choosing
<1> HIDE DEF f, g, step
<1>5. g[Len(Append(r, m))] = step[<<f[Len(r)], m>>]
  BY <1>1, <1>2, FoldAppended
<1> QED
  BY <1>1, <1>2, <1>3, <1>4, <1>5

\* What is chosen is of these roles.
LEMMA OfIsOf ==
  ASSUME NEW s \in Talk, NEW roles
  PROVE  OfRoles(s, roles) \in Seq(Of(roles)) /\ OfRoles(s, roles) \in Seq(Numbered)
<1> DEFINE T == {r \in Talk : OfRoles(r, roles) \in Seq(Of(roles))}
<1>1. <<>> \in T
  <2>1. <<>> \in Seq(Of(roles))
    OBVIOUS
  <2>2. <<>> \in Talk /\ OfRoles(<<>>, roles) = <<>>
    BY OfNone
  <2> QED
    BY <2>1, <2>2
<1>2. ASSUME NEW r \in T, NEW m \in Numbered PROVE Append(r, m) \in T
  <2> DEFINE a == OfRoles(r, roles)
  <2>1. r \in Talk /\ a \in Seq(Of(roles))
    OBVIOUS
  <2>2. /\ Append(r, m) \in Talk
        /\ m.role \in roles => OfRoles(Append(r, m), roles) = Append(a, m)
        /\ m.role \notin roles => OfRoles(Append(r, m), roles) = a
    BY <2>1, OfOneMore
  <2>3. m.role \in roles => m \in Of(roles)
    BY DEF Of
  <2> HIDE DEF a
  <2>4. m.role \in roles => Append(a, m) \in Seq(Of(roles))
    BY <2>1, <2>3
  <2>5. OfRoles(Append(r, m), roles) \in Seq(Of(roles))
    BY <2>1, <2>2, <2>4
  <2> QED
    BY <2>2, <2>5
<1>3. T = Seq(Numbered)
  <2>1. T \in SUBSET Seq(Numbered)
    BY DEF Talk
  <2> HIDE DEF T
  <2> QED
    BY <1>1, <1>2, <2>1, ByAppending
<1>4. OfRoles(s, roles) \in Seq(Numbered)
  BY RunOfRolesIs DEF Talk
<1> QED
  BY <1>3, <1>4 DEF Talk

\* Of two sequences, one behind the other.
LEMMA OfBoth ==
  ASSUME NEW s \in Talk, NEW t \in Talk, NEW roles
  PROVE  /\ s \o t \in Talk
         /\ OfRoles(s \o t, roles) = OfRoles(s, roles) \o OfRoles(t, roles)
<1> DEFINE T == {r \in Talk : OfRoles(s \o r, roles) = OfRoles(s, roles) \o OfRoles(r, roles)}
<1> DEFINE a == OfRoles(s, roles)
<1>1. a \in Seq(Numbered)
  BY OfIsOf
<1>2. <<>> \in T
  <2>1. <<>> \in Talk /\ s \o <<>> = s
    BY DEF Talk
  <2>2. OfRoles(<<>>, roles) = <<>>
    BY OfNone
  <2> HIDE DEF a
  <2>3. a \o <<>> = a
    BY <1>1
  <2> QED
    BY <2>1, <2>2, <2>3 DEF a
<1>3. ASSUME NEW r \in T, NEW m \in Numbered PROVE Append(r, m) \in T
  <2>1. /\ s \o Append(r, m) = Append(s \o r, m) /\ s \o r \in Talk
        /\ r \in Talk /\ Append(r, m) \in Talk
    BY DEF Talk
  <2> DEFINE b == OfRoles(r, roles)
             c == OfRoles(s \o r, roles)
  <2>2. b \in Seq(Numbered) /\ c = a \o b
    BY <2>1, OfIsOf
  <2>3. /\ m.role \in roles => OfRoles(Append(s \o r, m), roles) = Append(c, m)
        /\ m.role \notin roles => OfRoles(Append(s \o r, m), roles) = c
    BY <2>1, OfOneMore
  <2>4. /\ m.role \in roles => OfRoles(Append(r, m), roles) = Append(b, m)
        /\ m.role \notin roles => OfRoles(Append(r, m), roles) = b
    BY <2>1, OfOneMore
  <2> HIDE DEF a, b, c
  <2>5. a \o Append(b, m) = Append(a \o b, m)
    BY <1>1, <2>2
  <2>6. OfRoles(s \o Append(r, m), roles) = a \o OfRoles(Append(r, m), roles)
    BY <2>1, <2>2, <2>3, <2>4, <2>5
  <2> QED
    BY <2>1, <2>6 DEF a
<1>4. T = Seq(Numbered)
  <2>1. T \in SUBSET Seq(Numbered)
    BY DEF Talk
  <2> HIDE DEF T
  <2> QED
    BY <1>2, <1>3, <2>1, ByAppending
<1> QED
  BY <1>4 DEF Talk

\* All of them, or none, are of these roles.
LEMMA OfAll ==
  ASSUME NEW roles, NEW s \in Seq(Of(roles)), NEW rest, rest \cap roles = {}
  PROVE  OfRoles(s, roles) = s /\ OfRoles(s, rest) = <<>> /\ s \in Talk
<1> DEFINE T == {r \in Seq(Of(roles)) :
                   r \in Talk /\ OfRoles(r, roles) = r /\ OfRoles(r, rest) = <<>>}
<1>1. <<>> \in T
  <2>1. <<>> \in Talk /\ OfRoles(<<>>, roles) = <<>> /\ OfRoles(<<>>, rest) = <<>>
    BY OfNone
  <2> QED
    BY <2>1
<1>2. ASSUME NEW r \in T, NEW m \in Of(roles) PROVE Append(r, m) \in T
  <2>1. m \in Numbered /\ m.role \in roles /\ m.role \notin rest
    BY DEF Of
  <2>2. r \in Talk /\ OfRoles(r, roles) = r /\ OfRoles(r, rest) = <<>>
    OBVIOUS
  <2>3. Append(r, m) \in Talk /\ OfRoles(Append(r, m), roles) = Append(r, m)
    BY <2>1, <2>2, OfOneMore
  <2>4. OfRoles(Append(r, m), rest) = <<>>
    BY <2>1, <2>2, OfOneMore
  <2>5. Append(r, m) \in Seq(Of(roles))
    OBVIOUS
  <2> QED
    BY <2>3, <2>4, <2>5
<1>3. T = Seq(Of(roles))
  <2>1. T \in SUBSET Seq(Of(roles))
    OBVIOUS
  <2> HIDE DEF T
  <2> QED
    BY <1>1, <1>2, <2>1, ByAppending
<1> QED
  BY <1>3

\* The roles of the messages that may be dropped.
OtherRoles == Roles \ {"system"}

\* The prompt is a system message.
LEMMA PromptIs == Prompt \in Of({"system"}) /\ Prompt \in Numbered
BY DEF Prompt, Of, Numbered, Roles

\* What is before the first message of another role, and what is behind.
LEMMA Rejoined ==
  ASSUME NEW Y \in Seq(Of({"system"})), NEW T \in Seq(Of(OtherRoles))
  PROVE  /\ Y \o T \in Talk /\ Y \in Talk /\ T \in Talk
         /\ Systems(Y \o T) = Y /\ Others(Y \o T) = T
<1> DEFINE one == {"system"}
           two == OtherRoles
<1>1. one \cap two = {} /\ two \cap one = {}
  BY DEF OtherRoles
<1> HIDE DEF one
<1>2. OfRoles(Y, one) = Y /\ OfRoles(Y, two) = <<>> /\ Y \in Talk
  BY <1>1, OfAll DEF one
<1>3. OfRoles(T, two) = T /\ OfRoles(T, one) = <<>> /\ T \in Talk
  BY <1>1, OfAll DEF one
<1>4. /\ Y \o T \in Talk
      /\ OfRoles(Y \o T, one) = Y \o <<>>
      /\ OfRoles(Y \o T, two) = <<>> \o T
  <2> HIDE DEF two
  <2>0. Y \in Talk /\ T \in Talk
    BY <1>2, <1>3
  <2>1. Y \o T \in Talk
    BY ONLY <2>0, OfBoth
  <2>2. OfRoles(Y \o T, one) = OfRoles(Y, one) \o OfRoles(T, one)
    BY ONLY <2>0, OfBoth
  <2>3. OfRoles(Y \o T, two) = OfRoles(Y, two) \o OfRoles(T, two)
    BY ONLY <2>0, OfBoth
  <2> QED
    BY <1>2, <1>3, <2>1, <2>2, <2>3
<1>5. Y \o <<>> = Y /\ <<>> \o T = T
  BY <1>2, <1>3 DEF Talk
<1> QED
  BY <1>2, <1>3, <1>4, <1>5 DEF Systems, Others, one, OtherRoles

\* A message is in one of the two parts, system messages and others.
LEMMA PartsAre ==
  ASSUME NEW s \in Talk
  PROVE  /\ Systems(s) \in Seq(Of({"system"})) /\ Systems(s) \in Seq(Numbered)
         /\ Others(s) \in Seq(Of(OtherRoles)) /\ Others(s) \in Seq(Numbered)
         /\ Len(s) = Len(Systems(s)) + Len(Others(s))
<1>1. /\ Systems(s) \in Seq(Of({"system"})) /\ Systems(s) \in Seq(Numbered)
      /\ Others(s) \in Seq(Of(OtherRoles)) /\ Others(s) \in Seq(Numbered)
  BY OfIsOf DEF Systems, Others, OtherRoles
<1> DEFINE T == {r \in Talk : Len(r) = Len(Systems(r)) + Len(Others(r))}
<1>2. <<>> \in T
  <2>1. <<>> \in Talk /\ Systems(<<>>) = <<>> /\ Others(<<>>) = <<>>
    BY OfNone DEF Systems, Others
  <2> QED
    BY <2>1
<1>3. ASSUME NEW r \in T, NEW m \in Numbered PROVE Append(r, m) \in T
  <2> DEFINE a == Systems(r)
             b == Others(r)
  <2>1. /\ r \in Seq(Numbered) /\ a \in Seq(Numbered) /\ b \in Seq(Numbered)
        /\ Len(r) = Len(a) + Len(b)
    BY OfIsOf DEF Talk, Systems, Others
  <2>2. /\ Append(r, m) \in Talk
        /\ m.role \in {"system"} => Systems(Append(r, m)) = Append(a, m)
        /\ m.role \notin {"system"} => Systems(Append(r, m)) = a
    BY OfOneMore DEF Systems
  <2>3. /\ m.role \in Roles \ {"system"} => Others(Append(r, m)) = Append(b, m)
        /\ m.role \notin Roles \ {"system"} => Others(Append(r, m)) = b
    BY OfOneMore DEF Others
  <2>4. m.role \in Roles
    BY DEF Numbered
  <2> HIDE DEF a, b
  <2>5. /\ Len(Append(a, m)) = Len(a) + 1 /\ Len(Append(b, m)) = Len(b) + 1
        /\ Len(Append(r, m)) = Len(r) + 1
    BY <2>1
  <2>6. Len(a) \in Nat /\ Len(b) \in Nat
    BY <2>1
  <2> QED
    BY <2>1, <2>2, <2>3, <2>4, <2>5, <2>6
<1>4. T = Seq(Numbered)
  <2>1. T \in SUBSET Seq(Numbered)
    BY DEF Talk
  <2> HIDE DEF T
  <2> QED
    BY <1>2, <1>3, <2>1, ByAppending
<1> QED
  BY <1>1, <1>4 DEF Talk

\* A message more is of one of the two parts.
LEMMA OneMore ==
  ASSUME NEW s \in Talk, NEW m \in Numbered
  PROVE  /\ Append(s, m) \in Talk
         /\ m.role = "system" =>
              Systems(Append(s, m)) = Append(Systems(s), m) /\ Others(Append(s, m)) = Others(s)
         /\ m.role # "system" =>
              Systems(Append(s, m)) = Systems(s) /\ Others(Append(s, m)) = Append(Others(s), m)
<1>1. m.role \in Roles
  BY DEF Numbered
<1> QED
  BY <1>1, OfOneMore DEF Systems, Others

\* The system prompt stays first among the system messages.
LEMMA PromptStays ==
  ASSUME NEW s \in Talk, s # <<>>, s[1] = Prompt
  PROVE  Systems(s) # <<>> /\ Systems(s)[1] = Prompt
<1>1. s \in Seq(Numbered)
  BY DEF Talk
<1> DEFINE h == <<Prompt>>
           t == Tail(s)
<1>2. h \in Talk /\ t \in Talk /\ s = h \o t
  BY <1>1, PromptIs DEF Talk
<1>3. h \in Seq(Of({"system"}))
  BY PromptIs
<1>4. OfRoles(h, {"system"}) = h
  <2>1. {} \cap {"system"} = {}
    OBVIOUS
  <2> HIDE DEF h
  <2> QED
    BY <1>3, <2>1, OfAll
<1> DEFINE b == OfRoles(t, {"system"})
<1>5. b \in Seq(Numbered)
  BY <1>2, OfIsOf
<1>6. Systems(s) = h \o b
  <2> HIDE DEF h, t
  <2>1. OfRoles(h \o t, {"system"}) = OfRoles(h, {"system"}) \o OfRoles(t, {"system"})
    BY <1>2, OfBoth
  <2> QED
    BY <1>2, <1>4, <2>1 DEF Systems
<1> HIDE DEF b
<1>7. h \o b # <<>> /\ (h \o b)[1] = Prompt
  BY <1>5, PromptIs
<1> QED
  BY <1>6, <1>7

\* The function Total is defined by.
RunTotal(s) ==
  CHOOSE upTo : upTo = [n \in 0..Len(s) |-> IF n = 0 THEN 0 ELSE upTo[n - 1] + s[n].size]

\* The total of no message is 0, and of one message its size.
LEMMA TotalIs ==
  ASSUME NEW s \in Talk
  PROVE  /\ Total(s) \in Nat
         /\ s = <<>> => Total(s) = 0
         /\ Len(s) = 1 => Total(s) = s[1].size
<1> DEFINE step == [x \in Nat \X Numbered |-> x[1] + x[2].size]
<1>1. step \in [Nat \X Numbered -> Nat]
  BY DEF Numbered
<1>2. \A d \in Nat, m \in Numbered : step[<<d, m>>] = d + m.size
  OBVIOUS
<1> HIDE DEF step
<1>3. /\ s \in Seq(Numbered) /\ Len(s) \in Nat
      /\ \A n \in 1..Len(s) : s[n] \in Numbered /\ n - 1 \in 0..Len(s) /\ n \in 0..Len(s) /\ n # 0
  BY DEF Talk
<1>4. PICK f \in [0..Len(s) -> Nat] : IsFold(f, step, 0, s)
  BY <1>1, <1>3, FoldExists
<1>5. f[0] = 0 /\ \A n \in 1..Len(s) : f[n] = f[n - 1] + s[n].size
  BY <1>2, <1>3, <1>4 DEF IsFold
<1>6. f = [n \in 0..Len(s) |-> IF n = 0 THEN 0 ELSE f[n - 1] + s[n].size]
  <2>1. \A n \in 0..Len(s) : f[n] = IF n = 0 THEN 0 ELSE f[n - 1] + s[n].size
    <3> TAKE n \in 0..Len(s)
    <3>1. n = 0 \/ (n \in 1..Len(s) /\ n # 0)
      BY <1>3
    <3> QED
      BY <1>5, <3>1
  <2> QED
    BY <2>1
<1> DEFINE g == RunTotal(s)
<1>7. g = [n \in 0..Len(s) |-> IF n = 0 THEN 0 ELSE g[n - 1] + s[n].size]
  BY <1>6 DEF RunTotal
<1>8. Total(s) = g[Len(s)]
  BY DEF Total, RunTotal
<1> HIDE DEF g
<1>9. g[0] = 0 /\ \A n \in 1..Len(s) : g[n] = g[n - 1] + s[n].size
  BY <1>3, <1>7
<1>10. \A n \in 0..Len(s) : g[n] \in Nat
  <2> DEFINE S == {n \in Nat : n <= Len(s) => g[n] \in Nat}
  <2>1. 0 \in S
    BY <1>9
  <2>2. ASSUME NEW n \in S PROVE n + 1 \in S
    <3> SUFFICES ASSUME n + 1 <= Len(s) PROVE g[n + 1] \in Nat
      OBVIOUS
    <3>1. n + 1 \in 1..Len(s) /\ (n + 1) - 1 = n /\ g[n] \in Nat
      BY <1>3
    <3>2. s[n + 1].size \in Nat
      BY <1>3, <3>1 DEF Numbered
    <3> QED
      BY <1>9, <3>1, <3>2
  <2>3. S = Nat
    <3>1. S \in SUBSET Nat
      OBVIOUS
    <3> HIDE DEF S
    <3> QED
      BY <2>1, <2>2, <3>1, ByInduction
  <2> QED
    BY <2>3
<1>11. Len(s) \in 0..Len(s)
  BY <1>3
<1>12. ASSUME Len(s) = 1 PROVE Total(s) = s[1].size
  <2>1. 1 \in 1..Len(s) /\ 1 - 1 = 0 /\ s[1].size \in Nat
    BY <1>3, <1>12 DEF Numbered
  <2> QED
    BY <1>8, <1>9, <1>12, <2>1
<1> QED
  BY <1>8, <1>9, <1>10, <1>11, <1>12

\* t is the end of s.
EndOf(t, s) == Len(t) <= Len(s) /\ \A i \in 1..Len(t) : t[i] = s[Len(s) - Len(t) + i]

\* A suffix of n messages is the end of the sequence.
LEMMA SuffixIs ==
  ASSUME NEW E, NEW s \in Seq(E), NEW n \in 0..Len(s)
  PROVE  /\ Suffix(s, n) \in Seq(E) /\ Len(Suffix(s, n)) = n
         /\ EndOf(Suffix(s, n), s)
         /\ n = Len(s) => Suffix(s, n) = s
<1>1. Len(s) \in Nat /\ n \in Nat /\ Len(s) - n + 1 \in 1..(Len(s) + 1)
  OBVIOUS
<1> DEFINE k == Len(s) - n + 1
           t == SubSeq(s, k, Len(s))
<1>2. Len(s) - k + 1 = n /\ k \in Nat /\ k >= 1
  BY <1>1
<1>3. t \in Seq(E) /\ Len(t) = n /\ \A i \in 1..n : t[i] = s[k + i - 1]
  BY <1>1, <1>2
<1>4. Suffix(s, n) = t
  BY DEF Suffix
<1>5. \A i \in 1..n : k + i - 1 = Len(s) - n + i
  BY <1>1
<1>6. n = Len(s) => t = s
  BY <1>1
<1> HIDE DEF t
<1>7. EndOf(t, s)
  BY <1>1, <1>3, <1>5 DEF EndOf
<1> QED
  BY <1>3, <1>4, <1>6, <1>7

\* The end of the end is the end.
LEMMA EndOfEnd ==
  ASSUME NEW E, NEW r \in Seq(E), NEW s \in Seq(E), NEW t \in Seq(E), EndOf(r, s), EndOf(s, t)
  PROVE  EndOf(r, t)
<1>1. Len(r) \in Nat /\ Len(s) \in Nat /\ Len(t) \in Nat /\ Len(r) <= Len(s) /\ Len(s) <= Len(t)
  BY DEF EndOf
<1>2. ASSUME NEW i \in 1..Len(r) PROVE r[i] = t[Len(t) - Len(r) + i]
  <2>1. r[i] = s[Len(s) - Len(r) + i]
    BY DEF EndOf
  <2> DEFINE j == Len(s) - Len(r) + i
  <2>2. j \in 1..Len(s) /\ Len(t) - Len(s) + j = Len(t) - Len(r) + i
    BY <1>1
  <2> HIDE DEF j
  <2>3. s[j] = t[Len(t) - Len(s) + j]
    BY <2>2 DEF EndOf
  <2> QED
    BY <2>1, <2>2, <2>3 DEF j
<1> QED
  BY <1>1, <1>2 DEF EndOf

\* The whole and nothing are ends.
LEMMA EndOfItself ==
  ASSUME NEW E, NEW s \in Seq(E)
  PROVE  EndOf(s, s) /\ EndOf(<<>>, s)
BY DEF EndOf

\* The message at the end is the same.
LEMMA EndsAlike ==
  ASSUME NEW E, NEW s \in Seq(E), NEW t \in Seq(E), EndOf(t, s), t # <<>>
  PROVE  s # <<>> /\ t[Len(t)] = s[Len(s)]
<1>1. Len(t) \in Nat /\ Len(s) \in Nat /\ Len(t) # 0 /\ Len(t) <= Len(s)
  BY DEF EndOf
<1>2. Len(t) \in 1..Len(t) /\ Len(s) - Len(t) + Len(t) = Len(s)
  BY <1>1
<1> QED
  BY <1>1, <1>2 DEF EndOf

\* Fitting leaves nothing only when the last message does not fit.
LEMMA FittingIs ==
  ASSUME NEW s \in Seq(Of(OtherRoles)), NEW room \in Nat
  PROVE  /\ Fitting(s, room) \in Seq(Of(OtherRoles)) /\ EndOf(Fitting(s, room), s)
         /\ s # <<>> /\ Fitting(s, room) = <<>> => s[Len(s)].size > room
<1> DEFINE S == {n \in 0..Len(s) : \A k \in 0..n : Total(Suffix(s, k)) <= room}
           m == Max(S)
<1>1. s \in Seq(Numbered) /\ Len(s) \in Nat
  <2>1. Of(OtherRoles) \subseteq Numbered
    BY DEF Of
  <2> QED
    BY <2>1
<1>2. Suffix(s, 0) = <<>>
  <2>1. 0 \in 0..Len(s)
    BY <1>1
  <2>2. Suffix(s, 0) \in Seq(Numbered) /\ Len(Suffix(s, 0)) = 0
    BY <1>1, <2>1, SuffixIs
  <2> QED
    BY <2>2
<1>3. 0 \in S
  <2>1. Total(<<>>) = 0
    BY OfNone, TotalIs
  <2>2. \A k \in 0..0 : k = 0
    OBVIOUS
  <2> QED
    BY <1>1, <1>2, <2>1, <2>2
<1>4. m \in S /\ \A i \in S : i <= m
  <2>1. S \in SUBSET Nat /\ S # {} /\ S \subseteq 0..Len(s)
    BY <1>1, <1>3
  <2> HIDE DEF S
  <2>2. IsFiniteSet(0..Len(s))
    BY <1>1, FS_Interval
  <2>3. IsFiniteSet(S)
    BY <2>1, <2>2, FS_Subset
  <2>4. PICK x \in S : \A i \in S : i <= x
    BY <2>1, <2>3, GreatestNumber
  <2>5. \A i \in S : x >= i
    BY <2>1, <2>4
  <2>6. m \in S /\ \A i \in S : m >= i
    BY <2>5 DEF Max
  <2> HIDE DEF m
  <2> QED
    BY <2>1, <2>6
<1>5. Fitting(s, room) = Suffix(s, m)
  BY DEF Fitting
<1>6. m \in 0..Len(s)
  BY <1>4
<1>7. ASSUME s # <<>>, m = 0 PROVE s[Len(s)].size > room
  <2>1. 1 \in 0..Len(s) /\ Len(s) # 0
    BY <1>1, <1>7
  <2> DEFINE least == Suffix(s, 1)
  <2>2. least \in Seq(Numbered) /\ Len(least) = 1 /\ EndOf(least, s)
    BY <1>1, <2>1, SuffixIs
  <2>3. least \in Talk
    BY <2>2 DEF Talk
  <2> HIDE DEF least
  <2>4. least[1] = s[Len(s)]
    <3>1. least # <<>>
      <4> SUFFICES ASSUME least = <<>> PROVE FALSE
        OBVIOUS
      <4>1. Len(least) = 0
        OBVIOUS
      <4> QED
        BY <2>2, <4>1
    <3> QED
      BY <1>1, <2>2, <3>1, EndsAlike
  <2>5. Total(least) = s[Len(s)].size /\ Total(least) \in Nat
    BY <2>2, <2>3, <2>4, TotalIs
  <2>6. ~ (Total(least) <= room)
    <3> SUFFICES ASSUME Total(least) <= room PROVE FALSE
      OBVIOUS
    <3>1. \A k \in 0..1 : k = 0 \/ k = 1
      OBVIOUS
    <3>2. Total(Suffix(s, 0)) <= room
      BY <1>3
    <3>3. 1 \in S
      BY <2>1, <3>1, <3>2 DEF least
    <3>5. 1 <= m
      BY <1>4, <3>3
    <3> QED
      BY <1>7, <3>5
  <2> QED
    BY <2>5, <2>6
<1> HIDE DEF m
<1>8. /\ Suffix(s, m) \in Seq(Of(OtherRoles)) /\ Len(Suffix(s, m)) = m
      /\ EndOf(Suffix(s, m), s)
  BY <1>6, SuffixIs
<1> QED
  BY <1>5, <1>7, <1>8

\* The prompt is first, and the others are behind the system messages unless
\* prompts of later runs are among them.
Shaped(x) ==
  /\ x \in Talk /\ x # <<>> /\ x[1] = Prompt
  /\ prompted \/ x = Systems(x) \o Others(x)

\* System messages that begin with the prompt and others behind them.
LEMMA Assembled ==
  ASSUME NEW Y \in Seq(Of({"system"})), Y # <<>>, Y[1] = Prompt, NEW T \in Seq(Of(OtherRoles))
  PROVE  Shaped(Y \o T) /\ Systems(Y \o T) = Y /\ Others(Y \o T) = T
<1>1. Y \o T \in Talk /\ Systems(Y \o T) = Y /\ Others(Y \o T) = T
  BY Rejoined
<1>2. Y \o T # <<>> /\ (Y \o T)[1] = Prompt
  <2>1. Y \in Seq(Numbered) /\ T \in Seq(Numbered)
    BY Rejoined DEF Talk
  <2> QED
    BY <2>1
<1> QED
  BY <1>1, <1>2 DEF Shaped

\* The two parts of what begins with the prompt.
LEMMA ShapedParts ==
  ASSUME NEW s, Shaped(s)
  PROVE  /\ s \in Talk
         /\ Systems(s) \in Seq(Of({"system"})) /\ Systems(s) # <<>> /\ Systems(s)[1] = Prompt
         /\ Others(s) \in Seq(Of(OtherRoles)) /\ Others(s) \in Seq(Numbered)
         /\ Len(s) = Len(Systems(s)) + Len(Others(s))
         /\ Len(Systems(s)) \in Nat /\ Len(Others(s)) \in Nat
<1>1. s \in Talk /\ s # <<>> /\ s[1] = Prompt
  BY DEF Shaped
<1>2. /\ Systems(s) \in Seq(Of({"system"})) /\ Systems(s) \in Seq(Numbered)
      /\ Others(s) \in Seq(Of(OtherRoles)) /\ Others(s) \in Seq(Numbered)
      /\ Len(s) = Len(Systems(s)) + Len(Others(s))
  BY <1>1, PartsAre
<1>3. Systems(s) # <<>> /\ Systems(s)[1] = Prompt
  BY <1>1, PromptStays
<1>4. Len(Systems(s)) \in Nat /\ Len(Others(s)) \in Nat
  BY <1>2
<1> QED
  BY <1>1, <1>2, <1>3, <1>4

\* Compressing drops the oldest others, all of them only when the system messages
\* are as many as may be kept.
LEMMA CompressIs ==
  ASSUME NEW s, Shaped(s)
  PROVE  /\ Shaped(Compress(s)) /\ EndOf(Others(Compress(s)), Others(s))
         /\ \/ Others(s) = <<>> \/ Others(Compress(s)) # <<>>
            \/ Len(Systems(s)) >= MaxMessages
<1> DEFINE Y == Systems(s)
           T == Others(s)
           overflow == Len(s) - MaxMessages
           rest == SubSeq(T, overflow + 1, Len(T))
<1>1. /\ Y \in Seq(Of({"system"})) /\ Y # <<>> /\ Y[1] = Prompt
      /\ T \in Seq(Of(OtherRoles)) /\ T \in Seq(Numbered)
      /\ Len(s) = Len(Y) + Len(T) /\ Len(Y) \in Nat /\ Len(T) \in Nat
  BY ShapedParts
<1>2. MaxMessages \in Nat
  BY MemoryAssumption
<1>3. EndOf(T, T) /\ EndOf(<<>>, T)
  BY <1>1, EndOfItself
<1>4. CASE overflow <= 0
  <2>1. Compress(s) = s
    BY <1>4 DEF Compress
  <2> QED
    BY <2>1, <1>3
<1>5. CASE ~(overflow <= 0)
  <2>1. Compress(s) = Y \o rest
    <3> DEFINE from == Max({overflow, Len(T) - MaxMessages + Len(Y)})
    <3>1. from = overflow
      <4> HIDE DEF Y, T
      <4>1. {overflow, Len(T) - MaxMessages + Len(Y)} = {overflow} /\ overflow \in Int
        BY <1>1, <1>2 DEF Y, T
      <4>2. Max({overflow}) = overflow
        BY <4>1 DEF Max
      <4> QED
        BY <4>1, <4>2
    <3> QED
      BY <1>5, <3>1 DEF Compress
  <2>2. /\ rest \in Seq(Of(OtherRoles)) /\ EndOf(rest, T)
        /\ rest # <<>> \/ Len(Y) >= MaxMessages
    <3> HIDE DEF Y, T
    <3>0. overflow \in Int /\ overflow >= 1 /\ overflow = Len(Y) + Len(T) - MaxMessages
      BY <1>1, <1>2, <1>5 DEF Y, T
    <3> HIDE DEF overflow
    <3>1. CASE overflow >= Len(T)
      <4>1. rest = <<>>
        BY <1>1, <3>0, <3>1
      <4>2. Len(Y) >= MaxMessages
        BY <1>1, <1>2, <3>0, <3>1
      <4>3. <<>> \in Seq(Of(OtherRoles))
        OBVIOUS
      <4> HIDE DEF rest
      <4>4. EndOf(<<>>, T)
        BY <1>3 DEF T
      <4> QED
        BY <4>1, <4>2, <4>3, <4>4
    <3>2. CASE ~(overflow >= Len(T))
      <4> DEFINE n == Len(T) - overflow
      <4>1. n \in 0..Len(T) /\ n # 0 /\ Len(T) - n + 1 = overflow + 1
        BY <1>1, <3>0, <3>2
      <4>2. rest = Suffix(T, n)
        BY <4>1 DEF Suffix
      <4> HIDE DEF n, rest
      <4>3. rest \in Seq(Of(OtherRoles)) /\ Len(rest) = n /\ EndOf(rest, T)
        BY <1>1, <4>1, <4>2, SuffixIs
      <4> QED
        BY <4>1, <4>3
    <3> QED
      BY <3>1, <3>2
  <2> HIDE DEF Y, T, rest
  <2>3. Shaped(Y \o rest) /\ Others(Y \o rest) = rest
    BY <1>1, <2>2, Assembled
  <2> QED
    BY <2>1, <2>2, <2>3 DEF Y, T
<1> QED
  BY <1>4, <1>5

\* A summary is a system message.
LEMMA SummariesAre == \A summary \in Summaries : summary \in Of({"system"})
<1> TAKE summary \in Summaries
<1>1. PICK size \in SummarySizes : summary = [role |-> "system", size |-> size, number |-> 0]
  BY DEF Summaries
<1>2. size \in Nat
  BY <1>1, MemoryAssumption
<1>3. summary \in Numbered /\ summary.role = "system"
  BY <1>1, <1>2 DEF Numbered, Roles
<1> QED
  BY <1>3 DEF Of

\* Behind a summary the prompt is still first.
LEMMA AssembledWithSummary ==
  ASSUME NEW Y \in Seq(Of({"system"})), Y # <<>>, Y[1] = Prompt, NEW T \in Seq(Of(OtherRoles)),
         NEW summary \in Summaries
  PROVE  Shaped(Y \o <<summary>> \o T) /\ Others(Y \o <<summary>> \o T) = T
<1> DEFINE Z == Y \o <<summary>>
<1>1. summary \in Of({"system"})
  BY SummariesAre
<1>2. Z \in Seq(Of({"system"})) /\ Z # <<>> /\ Z[1] = Prompt
  BY <1>1
<1> HIDE DEF Z
<1>3. Shaped(Z \o T) /\ Others(Z \o T) = T
  BY <1>2, Assembled
<1> QED
  BY <1>3 DEF Z

\* What a summary replaces is the oldest third, so that others stay.
LEMMA ToTrimIs ==
  ASSUME NEW s, Shaped(s), NEW w \in ToTrim(s)
  PROVE  /\ Shaped(w) /\ EndOf(Others(w), Others(s))
         /\ Others(s) = <<>> \/ Others(w) # <<>>
<1> DEFINE Y == Systems(s)
           T == Others(s)
           n == Len(T) - Len(T) \div 3
           newer == Suffix(T, n)
<1>1. /\ Y \in Seq(Of({"system"})) /\ Y # <<>> /\ Y[1] = Prompt
      /\ T \in Seq(Of(OtherRoles)) /\ T \in Seq(Numbered) /\ Len(T) \in Nat
  BY ShapedParts
<1>2. CASE w = s
  BY <1>1, <1>2, EndOfItself
<1>3. ASSUME NEW summary \in Summaries, w = Y \o <<summary>> \o newer, Len(T) > 4
      PROVE  /\ Shaped(w) /\ EndOf(Others(w), Others(s)) /\ Others(w) # <<>>
  <2>1. n \in 0..Len(T) /\ n # 0
    BY <1>1, <1>3
  <2> HIDE DEF n, Y, T
  <2>2. newer \in Seq(Of(OtherRoles)) /\ Len(newer) = n /\ EndOf(newer, T)
    BY <1>1, <2>1, SuffixIs
  <2> HIDE DEF newer
  <2>3. Shaped(w) /\ Others(w) = newer
    BY <1>1, <1>3, <2>2, AssembledWithSummary
  <2>4. newer # <<>>
    BY <2>1, <2>2
  <2> QED
    BY <2>2, <2>3, <2>4 DEF T
<1>4. w = s \/ \E summary \in Summaries : w = Y \o <<summary>> \o newer /\ Len(T) > 4
  BY DEF ToTrim
<1> HIDE DEF Y, T, newer
<1> QED
  BY <1>2, <1>3, <1>4

\* The context window keeps the end of the others, never nothing.
LEMMA WindowedIs ==
  ASSUME NEW s, Shaped(s), NEW w \in Windowed(s)
  PROVE  /\ Shaped(w) /\ EndOf(Others(w), Others(s))
         /\ Others(s) # <<>> => Others(w) # <<>>
         /\ Others(s) = <<>> => w = s
<1> DEFINE Y == Systems(s)
           T == Others(s)
           keep == KeepRounds * 2
           newer == Suffix(T, keep)
<1>1. /\ Y \in Seq(Of({"system"})) /\ Y # <<>> /\ Y[1] = Prompt
      /\ T \in Seq(Of(OtherRoles)) /\ T \in Seq(Numbered) /\ Len(T) \in Nat
  BY ShapedParts
<1>2. KeepRounds \in Nat /\ keep \in Nat
  BY MemoryAssumption
<1>3. CASE w = s
  BY <1>1, <1>3, EndOfItself
<1>4. CASE ~(Len(T) <= keep)
  <2>1. T # <<>>
    BY <1>1, <1>2, <1>4
  <2>2. /\ keep = 0 => w = Y \o T
        /\ keep # 0 => w = Y \o newer \/ \E summary \in Summaries : w = Y \o <<summary>> \o newer
        \/ w = s
    BY <1>4 DEF Windowed, Truncate
  <2> HIDE DEF Y, T, keep
  <2>3. CASE keep = 0 /\ w = Y \o T
    <3>1. Shaped(w) /\ Others(w) = T
      BY <1>1, <2>3, Assembled
    <3> QED
      BY <1>1, <2>1, <3>1, EndOfItself DEF T
  <2>4. ASSUME keep # 0 PROVE /\ newer \in Seq(Of(OtherRoles)) /\ EndOf(newer, T) /\ newer # <<>>
    <3>1. keep \in 0..Len(T)
      BY <1>1, <1>2, <1>4
    <3>2. newer \in Seq(Of(OtherRoles)) /\ Len(newer) = keep /\ EndOf(newer, T)
      BY <1>1, <3>1, SuffixIs
    <3> QED
      BY <2>4, <3>2
  <2> HIDE DEF newer
  <2>5. CASE keep # 0 /\ w = Y \o newer
    <3>1. Shaped(w) /\ Others(w) = newer
      BY <1>1, <2>4, <2>5, Assembled
    <3> QED
      BY <2>1, <2>4, <2>5, <3>1 DEF T
  <2>6. ASSUME keep # 0, NEW summary \in Summaries, w = Y \o <<summary>> \o newer
        PROVE  /\ Shaped(w) /\ EndOf(Others(w), T) /\ Others(w) # <<>>
    <3>1. Shaped(w) /\ Others(w) = newer
      BY <1>1, <2>4, <2>6, AssembledWithSummary
    <3> QED
      BY <2>4, <2>6, <3>1
  <2> QED
    BY <1>3, <2>1, <2>2, <2>3, <2>5, <2>6 DEF T
<1>5. CASE Len(T) <= keep
  <2>1. w = s
    BY <1>5 DEF Windowed, Truncate
  <2> QED
    BY <1>3, <2>1
<1> QED
  BY <1>4, <1>5

\* What is left of a conversation with the others O: their end, or nothing or a user
\* message as the system messages leave no room, or nothing as the last does not fit.
LeftOver(x, O, crowded) ==
  /\ Shaped(x)
  /\ \/ EndOf(Others(x), O) /\ Others(x) # <<>>
     \/ /\ crowded
        /\ \/ Others(x) = <<>>
           \/ /\ Len(Others(x)) = 1 /\ Others(x)[1].role = "user"
              /\ \E i \in 1..Len(O) : Others(x)[1] = O[i]
     \/ Others(x) = <<>> /\ O[Len(O)].size + Total(Systems(x)) > MaxTokens

\* The last user message, or else the last message.
LEMMA LastOfUserIs ==
  ASSUME NEW O \in Seq(Of(OtherRoles)), O # <<>>
  PROVE  /\ LastOfUser(O) \in Seq(Of(OtherRoles)) /\ Len(LastOfUser(O)) = 1
         /\ \/ EndOf(LastOfUser(O), O)
            \/ LastOfUser(O)[1].role = "user" /\ \E i \in 1..Len(O) : LastOfUser(O)[1] = O[i]
<1> DEFINE users == {i \in DOMAIN O : O[i].role = "user"}
           at == IF users = {} THEN Len(O) ELSE Max(users)
<1>1. LastOfUser(O) = <<O[at]>>
  BY DEF LastOfUser
<1>2. DOMAIN O = 1..Len(O) /\ Len(O) \in Nat /\ Len(O) # 0
  OBVIOUS
<1>3. users # {} => Max(users) \in users
  <2> SUFFICES ASSUME users # {} PROVE Max(users) \in users
    OBVIOUS
  <2>1. users \in SUBSET Nat /\ users \subseteq 1..Len(O)
    BY <1>2
  <2> HIDE DEF users
  <2>2. IsFiniteSet(1..Len(O))
    BY <1>2, FS_Interval
  <2>3. IsFiniteSet(users)
    BY <2>1, <2>2, FS_Subset
  <2>4. PICK x \in users : \A i \in users : i <= x
    BY <2>1, <2>3, GreatestNumber
  <2>5. \A i \in users : x >= i
    BY <2>1, <2>4
  <2> QED
    BY <2>5 DEF Max
<1>4. at \in 1..Len(O) /\ (at = Len(O) \/ O[at].role = "user")
  BY <1>2, <1>3
<1> HIDE DEF at
<1>5. O[at] \in Of(OtherRoles)
  BY <1>4
<1> DEFINE l == <<O[at]>>
<1>6. l \in Seq(Of(OtherRoles)) /\ Len(l) = 1 /\ l[1] = O[at]
  BY <1>5
<1>7. at = Len(O) => EndOf(l, O)
  BY <1>2, <1>6 DEF EndOf
<1> HIDE DEF l
<1> QED
  BY <1>1, <1>4, <1>6, <1>7 DEF l

\* The first system message is the prompt.
LEMMA FirstIs ==
  ASSUME NEW Y \in Seq(Of({"system"})), Y # <<>>, Y[1] = Prompt
  PROVE  /\ SubSeq(Y, 1, 1) \in Seq(Of({"system"})) /\ SubSeq(Y, 1, 1) # <<>>
         /\ SubSeq(Y, 1, 1)[1] = Prompt
<1>1. Len(Y) \in Nat /\ Len(Y) >= 1
  OBVIOUS
<1> DEFINE f == SubSeq(Y, 1, 1)
<1>2. f \in Seq(Of({"system"})) /\ Len(f) = 1 /\ f[1] = Y[1]
  BY <1>1
<1> HIDE DEF f
<1>3. f # <<>>
  <2> SUFFICES ASSUME f = <<>> PROVE FALSE
    OBVIOUS
  <2>1. Len(f) = 0
    OBVIOUS
  <2> QED
    BY <1>2, <2>1
<1> QED
  BY <1>2, <1>3 DEF f

\* Trimming leaves the end of the others that fits, or the last user message when the
\* system messages leave no room.
LEMMA TrimIs ==
  ASSUME NEW s, Shaped(s), NEW crowded \in BOOLEAN, Crowded(s) => crowded
  PROVE  /\ Shaped(Trim(s))
         /\ Others(s) = <<>> => Others(Trim(s)) = <<>>
         /\ Others(s) # <<>> => LeftOver(Trim(s), Others(s), crowded)
<1> DEFINE Y == Systems(s)
           O == Others(s)
           room == MaxTokens - Estimate(Y)
<1>1. /\ s \in Talk /\ Y \in Seq(Of({"system"})) /\ Y # <<>> /\ Y[1] = Prompt
      /\ O \in Seq(Of(OtherRoles)) /\ O \in Seq(Numbered) /\ Len(O) \in Nat
  BY ShapedParts
<1>2. EndOf(O, O)
  BY <1>1, EndOfItself
<1>3. CASE Fits(s)
  <2>1. Trim(s) = s
    BY <1>3 DEF Trim
  <2> QED
    BY <1>2, <2>1 DEF LeftOver
<1>4. CASE Crowded(s)
  <2> DEFINE l == LastOfUser(O)
             first == SubSeq(Y, 1, 1)
  <2>1. Trim(s) = first \o l
    BY <1>4 DEF Trim, Crowded
  <2> HIDE DEF Y, O
  <2>2. first \in Seq(Of({"system"})) /\ first # <<>> /\ first[1] = Prompt
    BY <1>1, FirstIs
  <2>3. CASE O = <<>>
    <3>1. l = <<>>
      BY <2>3 DEF LastOfUser
    <3>2. l \in Seq(Of(OtherRoles))
      BY <3>1
    <3> HIDE DEF l, first
    <3>3. Shaped(Trim(s)) /\ Others(Trim(s)) = l
      BY <2>1, <2>2, <3>2, Assembled
    <3> QED
      BY <2>3, <3>1, <3>3 DEF O
  <2>4. CASE O # <<>>
    <3> HIDE DEF first
    <3>1. /\ l \in Seq(Of(OtherRoles)) /\ Len(l) = 1
          /\ \/ EndOf(l, O)
             \/ l[1].role = "user" /\ \E i \in 1..Len(O) : l[1] = O[i]
      BY <1>1, <2>4, LastOfUserIs
    <3> HIDE DEF l
    <3>2. l # <<>>
      BY <3>1
    <3>3. Shaped(Trim(s)) /\ Others(Trim(s)) = l
      BY <2>1, <2>2, <3>1, Assembled
    <3>4. LeftOver(Trim(s), O, crowded)
      BY <1>4, <3>1, <3>2, <3>3 DEF LeftOver
    <3> QED
      BY <2>4, <3>3, <3>4 DEF O
  <2> QED
    BY <2>3, <2>4
<1>5. CASE ~Fits(s) /\ ~Crowded(s)
  <2> DEFINE f == Fitting(O, room)
  <2>1. Trim(s) = Y \o f
    BY <1>5 DEF Trim
  <2>2. MaxTokens \in Nat /\ Total(Y) \in Nat /\ Estimate(Y) = Total(Y)
    <3>1. Y \in Talk
      BY <1>1, Rejoined
    <3> HIDE DEF Y
    <3> QED
      BY <1>1, <3>1, TotalIs, MemoryAssumption DEF Estimate
  <2>3. room \in Nat
    BY <1>5, <2>2 DEF Crowded
  <2> HIDE DEF Y, O, room
  <2>4. /\ f \in Seq(Of(OtherRoles)) /\ EndOf(f, O)
        /\ O # <<>> /\ f = <<>> => O[Len(O)].size > room
    BY <1>1, <2>3, FittingIs
  <2> HIDE DEF f
  <2>5. Shaped(Trim(s)) /\ Systems(Trim(s)) = Y /\ Others(Trim(s)) = f
    BY <1>1, <2>1, <2>4, Assembled
  <2>6. O = <<>> => f = <<>>
    <3> SUFFICES ASSUME O = <<>>, f # <<>> PROVE FALSE
      OBVIOUS
    <3> QED
      BY <1>1, <2>4, EndsAlike
  <2>7. ASSUME O # <<>> PROVE LeftOver(Trim(s), O, crowded)
    <3>1. CASE f # <<>>
      BY <2>4, <2>5, <3>1 DEF LeftOver
    <3>2. CASE f = <<>>
      <4>1. O[Len(O)] \in Numbered
        BY <1>1, <2>7
      <4>2. O[Len(O)].size \in Nat
        BY <4>1 DEF Numbered
      <4>3. O[Len(O)].size + Total(Y) > MaxTokens
        BY <2>2, <2>4, <2>7, <3>2, <4>2 DEF room
      <4> QED
        BY <2>5, <3>2, <4>3 DEF LeftOver
    <3> QED
      BY <3>1, <3>2
  <2> QED
    BY <2>5, <2>6, <2>7 DEF O
<1> QED
  BY <1>3, <1>4, <1>5

\* The context window leaves of what is left its end, and so no less.
LEMMA LeftWindowed ==
  ASSUME NEW x, NEW O \in Seq(Numbered), NEW crowded \in BOOLEAN, LeftOver(x, O, crowded),
         NEW w \in Windowed(x)
  PROVE  LeftOver(w, O, crowded)
<1>1. Shaped(x)
  BY DEF LeftOver
<1>2. /\ Shaped(w) /\ EndOf(Others(w), Others(x))
      /\ Others(x) # <<>> => Others(w) # <<>>
      /\ Others(x) = <<>> => w = x
  BY <1>1, WindowedIs
<1>3. Others(x) \in Seq(Numbered) /\ Others(w) \in Seq(Numbered)
  BY <1>1, <1>2, ShapedParts
<1>4. CASE Others(x) = <<>>
  BY <1>2, <1>4
<1>5. CASE EndOf(Others(x), O) /\ Others(x) # <<>>
  <2>1. EndOf(Others(w), O)
    BY <1>2, <1>3, <1>5, EndOfEnd
  <2> QED
    BY <1>2, <1>5, <2>1 DEF LeftOver
<1>6. CASE /\ crowded /\ Len(Others(x)) = 1 /\ Others(x)[1].role = "user"
           /\ \E i \in 1..Len(O) : Others(x)[1] = O[i]
  <2>1. Others(x) # <<>>
    <3> SUFFICES ASSUME Others(x) = <<>> PROVE FALSE
      OBVIOUS
    <3>1. Len(Others(x)) = 0
      OBVIOUS
    <3> QED
      BY <1>6, <3>1
  <2>2. Len(Others(w)) = 1 /\ Others(w)[1] = Others(x)[1]
    <3> DEFINE a == Others(w)
               b == Others(x)
    <3>1. a \in Seq(Numbered) /\ a # <<>> /\ EndOf(a, b) /\ Len(b) = 1
      BY <1>2, <1>3, <1>6, <2>1
    <3> HIDE DEF a, b
    <3>2. Len(a) = 1
      <4> DEFINE n == Len(a)
      <4>1. n \in Nat /\ n # 0 /\ n <= 1
        BY <3>1 DEF EndOf
      <4> HIDE DEF n
      <4>2. n = 1
        BY <4>1
      <4> QED
        BY <4>2 DEF n
    <3>3. a[1] = b[1]
      BY <3>1, <3>2 DEF EndOf
    <3> QED
      BY <3>2, <3>3, <1>6 DEF a, b
  <2> QED
    BY <1>2, <1>6, <2>2 DEF LeftOver
<1> QED
  BY <1>4, <1>5, <1>6 DEF LeftOver

\* What is left of the end is left of the whole.
LEMMA LeftOfEnd ==
  ASSUME NEW x, NEW P \in Seq(Numbered), NEW O \in Seq(Numbered), NEW crowded \in BOOLEAN,
         LeftOver(x, P, crowded), EndOf(P, O), P # <<>>
  PROVE  LeftOver(x, O, crowded)
<1>1. Shaped(x) /\ Others(x) \in Seq(Numbered)
  BY ShapedParts DEF LeftOver
<1>2. P[Len(P)] = O[Len(O)]
  BY EndsAlike
<1>3. EndOf(Others(x), P) => EndOf(Others(x), O)
  BY <1>1, EndOfEnd
<1>4. ASSUME NEW i \in 1..Len(P) PROVE \E j \in 1..Len(O) : P[i] = O[j]
  <2>1. Len(P) \in Nat /\ Len(O) \in Nat /\ Len(P) <= Len(O)
    BY DEF EndOf
  <2>2. P[i] = O[Len(O) - Len(P) + i] /\ Len(O) - Len(P) + i \in 1..Len(O)
    BY <2>1 DEF EndOf
  <2> QED
    BY <2>2
<1> QED
  BY <1>1, <1>2, <1>3, <1>4 DEF LeftOver

\* A message more of the conversation.
LEMMA ShapedMore ==
  ASSUME NEW s, Shaped(s), NEW m \in Numbered, m.role # "system"
  PROVE  Shaped(Append(s, m)) /\ Others(Append(s, m)) = Append(Others(s), m)
<1> DEFINE Y == Systems(s)
           O == Others(s)
           t == Append(s, m)
<1>1. /\ s \in Talk /\ s \in Seq(Numbered) /\ s # <<>> /\ s[1] = Prompt
      /\ Y \in Seq(Numbered) /\ O \in Seq(Numbered)
      /\ prompted \/ s = Y \o O
  BY PartsAre DEF Shaped, Talk
<1>2. t \in Talk /\ Systems(t) = Y /\ Others(t) = Append(O, m)
  BY <1>1, OneMore
<1> HIDE DEF Y, O
<1>3. t # <<>> /\ t[1] = Prompt
  <2>1. Len(s) \in Nat /\ Len(s) # 0
    BY <1>1
  <2> QED
    BY <1>1, <2>1
<1>4. s = Y \o O => t = Y \o Append(O, m)
  <2>1. Y \o Append(O, m) = Append(Y \o O, m)
    BY <1>1
  <2> QED
    BY <2>1
<1> HIDE DEF t
<1> QED
  BY <1>1, <1>2, <1>3, <1>4 DEF Shaped, O, t

\* One message follows another, but for what was dropped at the counts S.
Follows(m, n, S) == n.number = m.number + 1 \/ \E c \in S : m.number <= c /\ c < n.number

\* The others follow each other, and none has a number that is not given yet.
Following(O, c, S) ==
  /\ \A i \in 2..Len(O) : Follows(O[i - 1], O[i], S)
  /\ \A i \in 1..Len(O) : O[i].number <= c

\* The last of the others is the newest, or the newest was dropped just now.
UpToDate(O, c, S) == O # <<>> => O[Len(O)].number = c \/ c \in S

\* A message with the next number follows.
LEMMA AddedInOrder ==
  ASSUME NEW O \in Seq(Numbered), NEW c \in Nat, NEW S, Following(O, c, S), UpToDate(O, c, S),
         NEW m \in Numbered, m.number = c + 1, NEW d \in Nat, d >= c + 1
  PROVE  Following(Append(O, m), d, S)
<1> DEFINE P == Append(O, m)
<1>1. /\ Len(O) \in Nat /\ Len(P) = Len(O) + 1 /\ P[Len(O) + 1] = m
      /\ \A i \in 1..Len(O) : P[i] = O[i] /\ O[i] \in Numbered
  OBVIOUS
<1> HIDE DEF P
<1>2. \A i \in 1..Len(P) : P[i].number <= d
  <2> TAKE i \in 1..Len(P)
  <2>1. CASE i = Len(O) + 1
    BY <1>1, <2>1
  <2>2. CASE i \in 1..Len(O)
    <3>1. O[i].number <= c /\ O[i].number \in Nat /\ P[i] = O[i]
      BY <1>1, <2>2 DEF Following, Numbered
    <3> QED
      BY <3>1
  <2> QED
    BY <1>1, <2>1, <2>2
<1>3. \A i \in 2..Len(P) : Follows(P[i - 1], P[i], S)
  <2> TAKE i \in 2..Len(P)
  <2>1. CASE i = Len(O) + 1
    <3>1. Len(O) \in 1..Len(O) /\ i - 1 = Len(O) /\ O # <<>>
      BY <1>1, <2>1
    <3>2. P[i - 1] = O[Len(O)] /\ P[i] = m /\ O[Len(O)].number <= c
      BY <1>1, <2>1, <3>1 DEF Following
    <3>3. O[Len(O)].number = c \/ c \in S
      BY <3>1 DEF UpToDate
    <3>4. c < m.number
      OBVIOUS
    <3> QED
      BY <3>2, <3>3, <3>4 DEF Follows
  <2>2. CASE i \in 2..Len(O)
    <3>1. i - 1 \in 1..Len(O) /\ i \in 1..Len(O)
      BY <1>1, <2>2
    <3> QED
      BY <1>1, <2>2, <3>1 DEF Following
  <2> QED
    BY <1>1, <2>1, <2>2
<1> QED
  BY <1>2, <1>3 DEF Following, P

\* What is left of a conversation in order is in order.
LEMMA LeftInOrder ==
  ASSUME NEW x, NEW O \in Seq(Numbered), O # <<>>, NEW c \in Nat, NEW S, NEW R, S \subseteq R,
         LeftOver(x, O, c \in R), Following(O, c, S), O[Len(O)].number = c
  PROVE  Following(Others(x), c, R) /\ UpToDate(Others(x), c, R)
<1> DEFINE P == Others(x)
<1>1. P \in Seq(Numbered)
  BY ShapedParts DEF LeftOver
<1>2. /\ Len(P) \in Nat /\ Len(O) \in Nat
      /\ \A i \in 2..Len(O) : Follows(O[i - 1], O[i], R)
      /\ \A i \in 1..Len(O) : O[i].number <= c
  BY <1>1 DEF Following, Follows
<1>3. CASE EndOf(P, O) /\ P # <<>>
  <2> HIDE DEF P
  <2>1. P[Len(P)].number = c
    BY <1>1, <1>3, EndsAlike
  <2>2. Len(P) <= Len(O) /\ \A i \in 1..Len(P) : P[i] = O[Len(O) - Len(P) + i]
    BY <1>3 DEF EndOf
  <2>3. \A i \in 1..Len(P) : P[i].number <= c
    <3> TAKE i \in 1..Len(P)
    <3>1. Len(O) - Len(P) + i \in 1..Len(O)
      BY <1>2, <2>2
    <3> QED
      BY <1>2, <2>2, <3>1
  <2>4. \A i \in 2..Len(P) : Follows(P[i - 1], P[i], R)
    <3> TAKE i \in 2..Len(P)
    <3> DEFINE j == Len(O) - Len(P) + i
    <3>1. /\ j \in 2..Len(O) /\ i \in 1..Len(P) /\ i - 1 \in 1..Len(P)
          /\ Len(O) - Len(P) + (i - 1) = j - 1
      BY <1>2, <2>2
    <3>2. P[i] = O[j] /\ P[i - 1] = O[j - 1]
      BY <2>2, <3>1
    <3> HIDE DEF j
    <3> QED
      BY <1>2, <3>1, <3>2
  <2> QED
    BY <2>1, <2>3, <2>4 DEF Following, UpToDate, P
<1>4. CASE P = <<>>
  <2>1. Len(P) = 0
    BY <1>4
  <2> QED
    BY <1>4, <2>1 DEF Following, UpToDate
<1>5. CASE c \in R /\ Len(P) = 1 /\ \E i \in 1..Len(O) : P[1] = O[i]
  <2> HIDE DEF P
  <2>1. P[1].number <= c
    BY <1>2, <1>5
  <2>2. \A i \in 1..Len(P) : i = 1
    BY <1>5
  <2>3. \A i \in 2..Len(P) : FALSE
    BY <1>5
  <2> QED
    BY <1>5, <2>1, <2>2, <2>3 DEF Following, UpToDate, P
<1> QED
  BY <1>3, <1>4, <1>5 DEF LeftOver

\* The others are in order, the newest is the last of them when the model is asked,
\* and the system prompt is first unless the first run is still to come.
MemoryIInv ==
  /\ count \in Nat /\ newest \in Numbered /\ messages \in Talk
  /\ Shaped(messages) \/ (messages = <<>> /\ prompted /\ speaker = "user")
  /\ Following(Others(messages), count, squeezes) /\ UpToDate(Others(messages), count, squeezes)
  /\ speaker = "think" => /\ Others(messages) # <<>>
                          /\ Others(messages)[Len(Others(messages))] = newest
                          /\ newest.number = count
  /\ SentIsRecent

\* It holds at the start.
LEMMA MemoryStarts == MemoryInit => MemoryIInv
<1> SUFFICES ASSUME MemoryInit PROVE MemoryIInv
  OBVIOUS
<1>1. Others(messages) = <<>> /\ messages \in Talk
  <2>1. CASE messages = <<>>
    BY <2>1, OfNone DEF Others
  <2>2. CASE messages = <<Prompt>>
    <3> DEFINE Y == <<Prompt>>
    <3>1. Y \in Seq(Of({"system"}))
      BY PromptIs
    <3>2. OtherRoles \cap {"system"} = {}
      BY DEF OtherRoles
    <3> HIDE DEF Y
    <3>3. OfRoles(Y, OtherRoles) = <<>> /\ Y \in Talk
      BY <3>1, <3>2, OfAll
    <3> QED
      BY <2>2, <3>3 DEF Others, OtherRoles, Y
  <2> QED
    BY <2>1, <2>2 DEF MemoryInit
<1>2. Shaped(messages) \/ (messages = <<>> /\ prompted /\ speaker = "user")
  <2>1. CASE prompted
    BY <2>1 DEF MemoryInit
  <2>2. CASE ~prompted
    <3> DEFINE Y == <<Prompt>>
    <3>1. /\ Y \in Seq(Of({"system"})) /\ Y # <<>> /\ Y[1] = Prompt
          /\ <<>> \in Seq(Of(OtherRoles)) /\ Y = Y \o <<>>
      BY PromptIs
    <3>2. messages = Y
      BY <2>2 DEF MemoryInit
    <3> HIDE DEF Y
    <3>3. Shaped(Y \o <<>>)
      BY <3>1, Assembled
    <3> QED
      BY <3>1, <3>2, <3>3
  <2> QED
    BY <2>1, <2>2
<1>3. count = 0 /\ speaker = "user" /\ newest \in Numbered
  BY PromptIs DEF MemoryInit
<1>4. Following(<<>>, count, squeezes) /\ UpToDate(<<>>, count, squeezes)
  BY DEF Following, UpToDate
<1> QED
  BY <1>1, <1>2, <1>3, <1>4 DEF MemoryIInv, SentIsRecent

\* A message of the user, the model or a tool.
LEMMA MessageIs ==
  ASSUME NEW role \in OtherRoles, NEW size \in Nat, NEW number \in Nat
  PROVE  /\ [role |-> role, size |-> size, number |-> number] \in Numbered
         /\ [role |-> role, size |-> size, number |-> number].role # "system"
BY DEF Numbered, OtherRoles

\* Speaking keeps it: the prompt of the run is among the system messages.
LEMMA SpeakKeeps ==
  ASSUME MemoryIInv, NEW size \in Sizes, Speak(size)
  PROVE  MemoryIInv'
<1> DEFINE s == messages \o (IF prompted THEN <<Prompt>> ELSE <<>>)
           m == Message("user", size)
           O == Others(messages)
<1>1. /\ size \in Nat /\ count \in Nat /\ messages \in Talk /\ messages \in Seq(Numbered)
      /\ Shaped(messages) \/ (messages = <<>> /\ prompted)
      /\ Following(O, count, squeezes) /\ UpToDate(O, count, squeezes) /\ O \in Seq(Numbered)
  BY MemoryAssumption, PartsAre DEF MemoryIInv, Talk
<1>2. m \in Numbered /\ m.role # "system" /\ m.number = count + 1
  <2>1. "user" \in OtherRoles /\ count + 1 \in Nat
    BY <1>1 DEF OtherRoles, Roles
  <2> QED
    BY <1>1, <2>1, MessageIs DEF Message
<1>3. /\ newest' = m /\ messages' = s \o <<m>> /\ count' = count + 1 /\ speaker' = "think"
      /\ squeezes' = squeezes /\ prompted' = prompted
  BY DEF Speak
<1> HIDE DEF m
<1>4. Shaped(s) /\ Others(s) = O
  <2>1. CASE prompted
    <3>1. s = Append(messages, Prompt)
      BY <1>1, <2>1
    <3>2. Prompt.role = "system" /\ Prompt \in Numbered
      BY PromptIs DEF Prompt
    <3>3. s \in Talk /\ Others(s) = O
      BY <1>1, <3>1, <3>2, OneMore
    <3>4. s # <<>> /\ s[1] = Prompt
      <4>1. messages = <<>> \/ (messages # <<>> /\ messages[1] = Prompt)
        BY <1>1 DEF Shaped
      <4> QED
        BY <1>1, <3>1, <4>1
    <3> QED
      BY <2>1, <3>3, <3>4 DEF Shaped
  <2>2. CASE ~prompted
    BY <1>1, <2>2
  <2> QED
    BY <2>1, <2>2
<1> HIDE DEF s, O
<1>5. messages' = Append(s, m)
  <2>1. s \in Seq(Numbered)
    BY <1>4 DEF Shaped, Talk
  <2> QED
    BY <1>3, <2>1
<1>6. /\ Shaped(messages') /\ Others(messages') = Append(O, m) /\ messages' \in Talk
  <2>1. Shaped(Append(s, m)) /\ Others(Append(s, m)) = Append(O, m)
    BY <1>2, <1>4, ShapedMore
  <2> QED
    BY <1>5, <2>1 DEF Shaped
<1> DEFINE P == Append(O, m)
<1>7. P # <<>> /\ P[Len(P)] = m
  BY <1>1
<1>8. count' \in Nat /\ Following(P, count', squeezes) /\ UpToDate(P, count', squeezes)
  <2>1. Following(P, count + 1, squeezes)
    BY <1>1, <1>2, AddedInOrder
  <2>2. UpToDate(P, count + 1, squeezes)
    BY <1>2, <1>7 DEF UpToDate
  <2> QED
    BY <1>1, <1>3, <2>1, <2>2
<1> HIDE DEF P
<1>9. Others(messages)' = P /\ Shaped(messages)'
  BY <1>3, <1>6 DEF P, Shaped, Others, Systems
<1> QED
  BY <1>2, <1>3, <1>6, <1>7, <1>8, <1>9 DEF MemoryIInv, SentIsRecent

\* A message of another role, with the next number, is added.
LEMMA MoreKeeps ==
  ASSUME NEW s, Shaped(s), NEW c \in Nat, NEW S,
         Following(Others(s), c, S), UpToDate(Others(s), c, S),
         NEW m \in Numbered, m.role # "system", m.number = c + 1
  PROVE  /\ Shaped(Append(s, m)) /\ Append(s, m) \in Talk
         /\ Following(Others(Append(s, m)), c + 1, S) /\ UpToDate(Others(Append(s, m)), c + 1, S)
         /\ Others(Append(s, m)) # <<>>
         /\ Others(Append(s, m))[Len(Others(Append(s, m)))] = m
<1> DEFINE O == Others(s)
           P == Append(O, m)
<1>1. O \in Seq(Numbered)
  BY ShapedParts
<1>2. Shaped(Append(s, m)) /\ Others(Append(s, m)) = P
  BY ShapedMore
<1>3. Following(P, c + 1, S)
  BY <1>1, AddedInOrder
<1> HIDE DEF O
<1>4. P # <<>> /\ P[Len(P)] = m
  BY <1>1
<1> HIDE DEF P
<1>5. UpToDate(P, c + 1, S)
  BY <1>4 DEF UpToDate
<1> QED
  BY <1>2, <1>3, <1>4, <1>5 DEF Shaped

\* An answer keeps it, with the result of a tool or without.
LEMMA ReplyKeeps ==
  ASSUME MemoryIInv, NEW size \in Sizes, NEW tool \in BOOLEAN, Reply(size, tool)
  PROVE  MemoryIInv'
<1> DEFINE O == Others(messages)
<1>1. /\ size \in Nat /\ count \in Nat /\ messages \in Talk /\ messages \in Seq(Numbered)
      /\ Shaped(messages)
      /\ Following(O, count, squeezes) /\ UpToDate(O, count, squeezes)
      /\ squeezes' = squeezes /\ prompted' = prompted
  BY MemoryAssumption DEF MemoryIInv, Talk, Reply
<1> HIDE DEF O
<1>2. CASE ~tool
  <2> DEFINE m == Message("assistant", size)
  <2>1. m \in Numbered /\ m.role # "system" /\ m.number = count + 1
    <3>1. "assistant" \in OtherRoles /\ count + 1 \in Nat
      BY <1>1 DEF OtherRoles, Roles
    <3> QED
      BY <1>1, <3>1, MessageIs DEF Message
  <2>2. newest' = m /\ messages' = Append(messages, m) /\ count' = count + 1 /\ speaker' = "user"
    BY <1>2 DEF Reply
  <2> HIDE DEF m
  <2>3. /\ Shaped(messages') /\ messages' \in Talk
        /\ Following(Others(messages'), count + 1, squeezes)
        /\ UpToDate(Others(messages'), count + 1, squeezes)
    BY <1>1, <2>1, <2>2, MoreKeeps DEF O
  <2>4. Others(messages)' = Others(messages') /\ Shaped(messages)'
    BY <1>1, <2>3 DEF Shaped, Others, Systems
  <2> QED
    BY <1>1, <2>1, <2>2, <2>3, <2>4 DEF MemoryIInv, SentIsRecent
<1>3. CASE tool
  <2> DEFINE a == Message("assistant", 1)
             m == [role |-> "tool", size |-> size, number |-> count + 2]
             s == Append(messages, a)
  <2>1. /\ a \in Numbered /\ a.role # "system" /\ a.number = count + 1
        /\ m \in Numbered /\ m.role # "system" /\ m.number = (count + 1) + 1
    <3>1. /\ "assistant" \in OtherRoles /\ "tool" \in OtherRoles
          /\ count + 1 \in Nat /\ count + 2 \in Nat /\ 1 \in Nat
      BY <1>1 DEF OtherRoles, Roles
    <3>2. a \in Numbered /\ a.role # "system"
      BY <3>1, MessageIs DEF Message
    <3>3. m \in Numbered /\ m.role # "system"
      BY <1>1, <3>1, MessageIs
    <3> QED
      BY <1>1, <3>2, <3>3 DEF Message
  <2>2. newest' = m /\ messages' = messages \o <<a, m>> /\ count' = count + 2 /\ speaker' = "think"
    BY <1>3 DEF Reply
  <2> HIDE DEF a, m
  <2>3. messages' = Append(s, m)
    BY <1>1, <2>1, <2>2
  <2> DEFINE c == count + 1
  <2>4. /\ Shaped(s) /\ Following(Others(s), c, squeezes) /\ UpToDate(Others(s), c, squeezes)
    BY <1>1, <2>1, MoreKeeps DEF O
  <2>5. c \in Nat /\ m.number = c + 1 /\ c + 1 = count'
    BY <1>1, <2>1, <2>2
  <2> HIDE DEF s, c
  <2>6. /\ Shaped(messages') /\ messages' \in Talk
        /\ Following(Others(messages'), count', squeezes)
        /\ UpToDate(Others(messages'), count', squeezes)
        /\ Others(messages') # <<>> /\ Others(messages')[Len(Others(messages'))] = m
    BY <2>1, <2>3, <2>4, <2>5, MoreKeeps
  <2>7. Others(messages)' = Others(messages') /\ Shaped(messages)'
    BY <1>1, <2>6 DEF Shaped, Others, Systems
  <2>8. count' \in Nat /\ m.number = count'
    BY <2>5
  <2> QED
    BY <1>1, <2>1, <2>2, <2>6, <2>7, <2>8 DEF MemoryIInv, SentIsRecent
<1> QED
  BY <1>2, <1>3

\* Compressing, trimming and truncating keep it, and what is sent is recent.
LEMMA ThinkKeeps ==
  ASSUME MemoryIInv, Think
  PROVE  MemoryIInv'
<1> DEFINE O == Others(messages)
           crowded == count \in squeezes'
<1>1. /\ count \in Nat /\ newest \in Numbered /\ messages \in Talk /\ Shaped(messages)
      /\ O \in Seq(Numbered) /\ O # <<>> /\ O[Len(O)] = newest /\ newest.number = count
      /\ Following(O, count, squeezes)
      /\ speaker' = "model" /\ count' = count /\ newest' = newest /\ prompted' = prompted
  BY PartsAre DEF MemoryIInv, Think
<1>2. /\ squeezes \subseteq squeezes' /\ crowded \in BOOLEAN
      /\ LeftOver(messages', O, crowded) /\ LeftOver(given', O, crowded)
  <2>1. CASE mode = "runtime"
    <3> DEFINE c == Compress(messages)
    <3>1. PICK w \in ToTrim(c) :
            /\ given' \in Windowed(Trim(w))
            /\ messages' = IF TooLong(Trim(w)) THEN given' ELSE c
            /\ Squeezed(Len(Systems(messages)) >= MaxMessages \/ Crowded(w))
      BY <2>1 DEF Think
    <3>2. /\ squeezes \subseteq squeezes'
          /\ Len(Systems(messages)) >= MaxMessages => crowded
          /\ Crowded(w) => crowded
      BY <3>1 DEF Squeezed
    <3>3. /\ Shaped(c) /\ EndOf(Others(c), O)
          /\ Others(c) # <<>> \/ crowded
      BY <1>1, <3>2, CompressIs
    <3> HIDE DEF c, O, crowded
    <3>4. /\ Shaped(w) /\ EndOf(Others(w), Others(c))
          /\ Others(c) = <<>> \/ Others(w) # <<>>
      BY <3>3, ToTrimIs
    <3>5. /\ Others(c) \in Seq(Numbered) /\ Others(w) \in Seq(Numbered)
      BY <3>3, <3>4, ShapedParts
    <3>6. EndOf(Others(w), O)
      BY <1>1, <3>3, <3>4, <3>5, EndOfEnd
    <3>7. crowded \in BOOLEAN
      BY DEF crowded
    <3>8. /\ Shaped(Trim(w))
          /\ Others(w) = <<>> => Others(Trim(w)) = <<>>
          /\ Others(w) # <<>> => LeftOver(Trim(w), Others(w), crowded)
      BY <3>2, <3>4, <3>7, TrimIs
    <3>9. LeftOver(Trim(w), O, crowded)
      <4>1. CASE Others(w) # <<>>
        BY <1>1, <3>5, <3>6, <3>7, <3>8, <4>1, LeftOfEnd
      <4>2. CASE Others(w) = <<>>
        BY <3>3, <3>4, <3>8, <4>2 DEF LeftOver
      <4> QED
        BY <4>1, <4>2
    <3>10. LeftOver(given', O, crowded)
      BY <1>1, <3>1, <3>7, <3>9, LeftWindowed
    <3>11. LeftOver(c, O, crowded)
      <4>1. CASE Others(c) # <<>>
        BY <3>3, <4>1 DEF LeftOver
      <4>2. CASE Others(c) = <<>>
        BY <3>3, <4>2 DEF LeftOver
      <4> QED
        BY <4>1, <4>2
    <3> QED
      BY <3>1, <3>2, <3>7, <3>10, <3>11
  <2>2. CASE mode = "loop"
    <3>1. messages' = Trim(messages) /\ given' = messages'
      BY <2>2 DEF Think
    <3>2. squeezes \subseteq squeezes'
      BY <2>2 DEF Think, Squeezed
    <3>3. Crowded(messages) => crowded
      BY <2>2 DEF Think, Squeezed
    <3>4. crowded \in BOOLEAN
      OBVIOUS
    <3> HIDE DEF crowded, O
    <3>5. LeftOver(Trim(messages), O, crowded)
      <4>1. Shaped(messages) /\ Others(messages) # <<>>
        BY <1>1 DEF O
      <4> QED
        BY <4>1, <3>3, <3>4, TrimIs DEF O
    <3> QED
      BY <3>1, <3>2, <3>4, <3>5
  <2>3. CASE mode = "pipeline"
    <3>1. messages' \in Windowed(messages) /\ given' = messages' /\ squeezes' = squeezes
      BY <2>3 DEF Think
    <3>2. crowded \in BOOLEAN
      OBVIOUS
    <3> HIDE DEF crowded, O
    <3>3. LeftOver(messages, O, crowded)
      <4>1. EndOf(O, O)
        BY <1>1, EndOfItself
      <4> QED
        BY <1>1, <4>1 DEF LeftOver, O
    <3>4. LeftOver(messages', O, crowded)
      BY <1>1, <3>1, <3>2, <3>3, LeftWindowed
    <3> QED
      BY <3>1, <3>2, <3>4
  <2> QED
    BY <2>1, <2>2, <2>3 DEF Think
<1> DEFINE G == Others(given')
           M == Others(messages')
<1>3. /\ Following(G, count, squeezes')
      /\ Following(M, count, squeezes') /\ UpToDate(M, count, squeezes')
  <2> HIDE DEF O
  <2> QED
    BY <1>1, <1>2, LeftInOrder
<1>4. Shaped(given') /\ Shaped(messages') /\ messages' \in Talk /\ G \in Seq(Numbered)
  BY <1>2, ShapedParts DEF LeftOver
<1>5. SentIsRecent'
  <2>1. given'[1] = Prompt /\ (prompted \/ given' = Systems(given') \o G)
    BY <1>4 DEF Shaped
  <2>2. \A i \in 2..Len(G) : \/ G[i].number = G[i - 1].number + 1
                              \/ \E c \in squeezes' : G[i - 1].number <= c /\ c < G[i].number
    BY <1>3 DEF Following, Follows
  <2>3. \/ G # <<>> /\ G[Len(G)] = newest
        \/ count \in squeezes' /\ (G = <<>> \/ (Len(G) = 1 /\ G[1].role = "user"))
        \/ G = <<>> /\ newest.size + Total(Systems(given')) > MaxTokens
    <3>1. EndOf(G, O) /\ G # <<>> => G[Len(G)] = O[Len(O)]
      <4> HIDE DEF G, O
      <4> QED
        BY <1>1, <1>4, EndsAlike
    <3> QED
      BY <1>1, <1>2, <3>1 DEF LeftOver
  <2>4. Others(given)' = G /\ Systems(given)' = Systems(given') /\ Total(Systems(given))' = Total(Systems(given'))
    BY DEF Others, Systems, Total
  <2> HIDE DEF G
  <2> QED
    BY <1>1, <2>1, <2>2, <2>3, <2>4 DEF SentIsRecent, Joined, Last
<1>6. Others(messages)' = M /\ Shaped(messages)'
  BY <1>1, <1>4 DEF Shaped, Others, Systems
<1> HIDE DEF M
<1> QED
  BY <1>1, <1>3, <1>4, <1>5, <1>6 DEF MemoryIInv

\* In every conversation, of any length and with any limits, what the provider is
\* given begins with the system prompt and ends with the newest messages in order,
\* unless the system messages or the newest message leave no room for them
\* (trim, trim_with_summary, compress and the context window).
THEOREM NewestAreSent == MemorySpec => []SentIsRecent
<1>1. MemoryInit => MemoryIInv
  BY MemoryStarts
<1>2. MemoryIInv /\ [MemoryNext]_memoryVars => MemoryIInv'
  <2> SUFFICES ASSUME MemoryIInv, [MemoryNext]_memoryVars PROVE MemoryIInv'
    OBVIOUS
  <2>1. CASE Think
    BY <2>1, ThinkKeeps
  <2>2. ASSUME NEW size \in Sizes, Speak(size) PROVE MemoryIInv'
    BY <2>2, SpeakKeeps
  <2>3. ASSUME NEW size \in Sizes, NEW tool \in BOOLEAN, Reply(size, tool) PROVE MemoryIInv'
    BY <2>3, ReplyKeeps
  <2>4. CASE UNCHANGED memoryVars
    <3>1. /\ messages' = messages /\ count' = count /\ newest' = newest /\ prompted' = prompted
          /\ speaker' = speaker /\ squeezes' = squeezes /\ given' = given
      BY <2>4 DEF memoryVars
    <3>2. Shaped(messages)' <=> Shaped(messages)
      BY <3>1 DEF Shaped, Systems, Others
    <3>3. SentIsRecent' <=> SentIsRecent
      BY <3>1 DEF SentIsRecent, Joined, Systems, Others, Total
    <3>4. Others(messages)' = Others(messages)
      BY <3>1 DEF Others
    <3> QED
      BY <3>1, <3>2, <3>3, <3>4 DEF MemoryIInv
  <2> QED
    BY <2>1, <2>2, <2>3, <2>4 DEF MemoryNext
<1>3. MemoryIInv => SentIsRecent
  BY DEF MemoryIInv
<1> QED
  BY <1>1, <1>2, <1>3, PTL DEF MemorySpec
=============================================================================
