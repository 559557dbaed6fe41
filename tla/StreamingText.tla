---------------------------- MODULE StreamingText ----------------------------
(***************************************************************************)
(* AgentRuntime.run_streaming_text: a task runs the loop and puts every    *)
(* chunk into a bounded queue, the generator takes them out and yields     *)
(* them.  The task ends with a sentinel, also when it fails or is          *)
(* cancelled; a generator that ends early cancels the task and waits for   *)
(* it.                                                                     *)
(***************************************************************************)
EXTENDS Naturals, Sequences

CONSTANTS
  QueueSize,  \* MAX_QUEUE_SIZE
  MaxChunks   \* bound: chunks the providers of one run send

VARIABLES
  queue,       \* chunk_queue; chunks are numbered, the sentinel is 0
  sent,        \* chunks put so far
  runner,      \* the task
  consumer,    \* the generator
  received,    \* chunks yielded so far
  early,       \* observer: the generator was closed before the sentinel
  closedFull   \* observer: and the queue was full then

textVars == <<queue, sent, runner, consumer, received, early, closedFull>>

Sentinel == 0
Full == Len(queue) = QueueSize

TextInit == /\ queue = <<>>
            /\ sent = 0
            /\ runner = "running"
            /\ consumer = "getting"
            /\ received = <<>>
            /\ early = FALSE
            /\ closedFull = FALSE

\* Mutant: put_nowait, and a chunk that finds no room is dropped.
Collect_Drops ==
  /\ consumer # "closing" /\ runner = "running" /\ sent < MaxChunks
  /\ queue' = IF Full THEN queue ELSE Append(queue, sent + 1)
  /\ sent' = sent + 1
  /\ UNCHANGED <<runner, consumer, received, early, closedFull>>

\* on_chunk: put, or wait for room.
Collect ==
  /\ consumer # "closing"
  /\ \/ /\ runner = "running" /\ sent < MaxChunks /\ Full
        /\ runner' = "putting"
        /\ UNCHANGED <<queue, sent>>
     \/ /\ runner = "running" /\ sent < MaxChunks /\ ~Full
        /\ queue' = Append(queue, sent + 1)
        /\ sent' = sent + 1
        /\ UNCHANGED runner
     \/ /\ runner = "putting" /\ ~Full
        /\ queue' = Append(queue, sent + 1)
        /\ sent' = sent + 1
        /\ runner' = "running"
  /\ UNCHANGED <<consumer, received, early, closedFull>>

\* Mutant: put_nowait, and a sentinel that finds no room is given up.
PutSentinel_NoWait(waiting) ==
  /\ runner' = "done"
  /\ queue' = IF Full THEN queue ELSE Append(queue, Sentinel)

\* The finally clause of the task: the sentinel, or wait for room.
PutSentinel(waiting) ==
  \/ Full /\ runner' = waiting /\ UNCHANGED queue
  \/ ~Full /\ runner' = "done" /\ queue' = Append(queue, Sentinel)

\* The run ends or fails; exceptions are logged, never passed on.
RunEnds == /\ runner = "running" /\ consumer # "closing"
           /\ PutSentinel("ending")
           /\ UNCHANGED <<sent, consumer, received, early, closedFull>>

\* The cancel reaches the task: in the run it leads to the finally clause, in
\* the put of the sentinel it gives the sentinel up.
Cancelled == /\ consumer = "closing"
             /\ \/ runner \in {"running", "putting"} /\ PutSentinel("stuck")
                \/ runner = "ending" /\ runner' = "done" /\ UNCHANGED queue
             /\ UNCHANGED <<sent, consumer, received, early, closedFull>>

\* A task that waited with its sentinel finds room.
SentinelGoes == /\ runner \in {"ending", "stuck"} /\ ~Full
                /\ runner = "ending" => consumer # "closing"
                /\ PutSentinel(runner)
                /\ UNCHANGED <<sent, consumer, received, early, closedFull>>

\* chunk_queue.get(): yield a chunk, leave at the sentinel.
Get == /\ consumer = "getting" /\ queue # <<>>
       /\ queue' = Tail(queue)
       /\ IF Head(queue) = Sentinel
          THEN consumer' = "closing" /\ UNCHANGED received
          ELSE /\ consumer' = "yielding"
               /\ received' = Append(received, Head(queue))
       /\ UNCHANGED <<sent, runner, early, closedFull>>

\* The caller asks for the next chunk.
AskNext == /\ consumer = "yielding"
           /\ consumer' = "getting"
           /\ UNCHANGED <<queue, sent, runner, received, early, closedFull>>

\* The caller closes the generator, or is itself cancelled.
CloseEarly == /\ consumer \in {"getting", "yielding"}
              /\ consumer' = "closing"
              /\ early' = TRUE
              /\ closedFull' = Full
              /\ UNCHANGED <<queue, sent, runner, received>>

\* The finally clause of the generator: the task is done.
Closed == /\ consumer = "closing" /\ runner = "done"
          /\ consumer' = "ended"
          /\ UNCHANGED <<queue, sent, runner, received, early, closedFull>>

Runner == Collect \/ RunEnds \/ Cancelled \/ SentinelGoes
Generator == Get \/ AskNext \/ Closed

TextNext == Runner \/ Generator \/ CloseEarly

TextSpec == TextInit /\ [][TextNext]_textVars

-----------------------------------------------------------------------------
\* A caller that reads to the end gets every chunk the run put, in order and
\* once, however often the full queue made the task wait (agent.py:1138).
TextComplete ==
  /\ \A i \in 1..Len(received) : received[i] = i
  /\ consumer = "ended" /\ ~early => Len(received) = sent

\* Both tasks scheduled, the generator ends: at the sentinel, which is sent whatever became of the
\* run, or when it is closed while the queue has room.  Closed with the queue
\* full it never ends: the cancelled task waits in its finally clause for room
\* that only the generator could make, and the generator for the task
\* (agent.py:1149, 1163).
TextStreamEnds == <>(consumer = "ended" \/ closedFull)
=============================================================================
