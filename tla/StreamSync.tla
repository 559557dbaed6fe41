------------------------------- MODULE StreamSync -------------------------------
(***************************************************************************)
(* Pipeline.stream_sync (onion_core/pipeline.py): a worker thread runs the    *)
(* asynchronous stream on an event loop of its own and puts its chunks into   *)
(* an unbounded queue; the generator in the caller's thread takes them out.   *)
(* The two threads share the queue, stop_event and producer_task.             *)
(***************************************************************************)
EXTENDS Integers, Sequences

CONSTANT Chunks  \* bound: the most chunks a stream has

VARIABLES
  queue,      \* stream_queue
  stop,       \* stop_event
  worker,     \* where the worker thread is
  produced,   \* the number of chunks the stream has yielded
  failed,     \* the stream has raised
  consumer,   \* where the generator is, and how it came to its end
  received,   \* the chunks the caller has got
  cancelled,  \* producer_task.cancel was scheduled
  cleaned     \* the providers were cleaned up

streamVars == <<queue, stop, worker, produced, failed, consumer, received, cancelled, cleaned>>

ChunkItem(n) == [kind |-> "chunk", n |-> n]
Error == [kind |-> "error", n |-> 0]
Sentinel == [kind |-> "sentinel", n |-> 0]

WorkerStages == {"new", "streaming", "putting", "cleanup", "ending", "closing", "dead"}
ConsumerStages == {"get", "yielded", "stopping", "joining", "ended"}
ConsumerOutcomes == {"none", "complete", "raised", "closed"}

StreamInit == /\ queue = <<>> /\ stop = FALSE /\ worker = "new" /\ produced = 0 /\ failed = FALSE
              /\ consumer = [stage |-> "get", outcome |-> "none"]
              /\ received = <<>> /\ cancelled = FALSE /\ cleaned = FALSE

\* _put_item: nothing is put once the consumer has stopped.
Put(item) == queue' = IF stop THEN queue ELSE Append(queue, item)

-----------------------------------------------------------------------------
(* The worker: _producer_runner and _producer *)

\* The loop runs the task from here on; the consumer can see producer_task.
WorkerStarts ==
  /\ worker = "new" /\ worker' = "streaming"
  /\ UNCHANGED <<queue, stop, produced, failed, consumer, received, cancelled, cleaned>>

\* The stream yields: the loop is left if the consumer has stopped.
ChunkArrives ==
  /\ worker = "streaming" /\ produced < Chunks
  /\ produced' = produced + 1
  /\ worker' = IF stop THEN "cleanup" ELSE "putting"
  /\ UNCHANGED <<queue, stop, failed, consumer, received, cancelled, cleaned>>

PutChunk ==
  /\ worker = "putting"
  /\ Put(ChunkItem(produced))
  /\ worker' = IF stop THEN "cleanup" ELSE "streaming"
  /\ UNCHANGED <<stop, produced, failed, consumer, received, cancelled, cleaned>>

SourceEnds ==
  /\ worker = "streaming" /\ worker' = "cleanup"
  /\ UNCHANGED <<queue, stop, produced, failed, consumer, received, cancelled, cleaned>>

\* Mutant: the exception is not put into the queue.
SourceFails_Swallowed ==
  /\ worker = "streaming" /\ worker' = "cleanup"
  /\ failed' = TRUE
  /\ UNCHANGED <<queue, stop, produced, consumer, received, cancelled, cleaned>>

\* The stream raises, or is cancelled by the consumer or by itself.
SourceFails ==
  /\ worker = "streaming" /\ worker' = "cleanup"
  /\ Put(Error)
  /\ failed' = TRUE
  /\ UNCHANGED <<stop, produced, consumer, received, cancelled, cleaned>>

\* _cleanup: the primary provider and the fallbacks, whoever owns them.
CleanUp ==
  /\ worker = "cleanup" /\ worker' = "ending"
  /\ cleaned' = TRUE
  /\ UNCHANGED <<queue, stop, produced, failed, consumer, received, cancelled>>

\* Mutant: no sentinel after an exception.
PutSentinel_OnSuccess ==
  /\ worker = "ending" /\ worker' = "closing"
  /\ IF produced = Chunks THEN Put(Sentinel) ELSE UNCHANGED queue
  /\ UNCHANGED <<stop, produced, failed, consumer, received, cancelled, cleaned>>

PutSentinel ==
  /\ worker = "ending" /\ worker' = "closing"
  /\ Put(Sentinel)
  /\ UNCHANGED <<stop, produced, failed, consumer, received, cancelled, cleaned>>

\* shutdown_asyncgens, loop.close
WorkerDies ==
  /\ worker = "closing" /\ worker' = "dead"
  /\ UNCHANGED <<queue, stop, produced, failed, consumer, received, cancelled, cleaned>>

Worker ==
  \/ WorkerStarts \/ ChunkArrives \/ PutChunk \/ SourceEnds \/ SourceFails
  \/ CleanUp \/ PutSentinel \/ WorkerDies

-----------------------------------------------------------------------------
(* The consumer: the generator stream_sync *)

Finally(outcome) == [stage |-> "stopping", outcome |-> outcome]

Get ==
  LET item == Head(queue) IN
  /\ consumer.stage = "get" /\ queue # <<>>
  /\ queue' = Tail(queue)
  /\ \/ /\ item.kind = "chunk" /\ consumer' = [consumer EXCEPT !.stage = "yielded"]
        /\ received' = Append(received, item.n)
     \/ item.kind = "error" /\ consumer' = Finally("raised") /\ UNCHANGED received
     \/ item.kind = "sentinel" /\ consumer' = Finally("complete") /\ UNCHANGED received
  /\ UNCHANGED <<stop, worker, produced, failed, cancelled, cleaned>>

\* The caller asks for the next chunk ...
Resume ==
  /\ consumer.stage = "yielded"
  /\ consumer' = [consumer EXCEPT !.stage = "get"]
  /\ UNCHANGED <<queue, stop, worker, produced, failed, received, cancelled, cleaned>>

\* ... or closes the generator; or is interrupted while it waits.
Close ==
  /\ consumer.stage \in {"get", "yielded"}
  /\ consumer' = Finally("closed")
  /\ UNCHANGED <<queue, stop, worker, produced, failed, received, cancelled, cleaned>>

\* finally: stop_event.set() ...
Stop ==
  /\ consumer.stage = "stopping" /\ ~stop
  /\ stop' = TRUE
  /\ UNCHANGED <<queue, worker, produced, failed, consumer, received, cancelled, cleaned>>

\* ... then the task is cancelled, if the worker has set it and it is not done.
CancelProducer ==
  /\ consumer.stage = "stopping" /\ stop
  /\ cancelled' = (worker \in {"streaming", "putting"})
  /\ consumer' = [consumer EXCEPT !.stage = "joining"]
  /\ UNCHANGED <<queue, stop, worker, produced, failed, received, cleaned>>

\* worker.join(timeout=5.0) returns, in time or with the worker still alive.
Join ==
  /\ consumer.stage = "joining"
  /\ consumer' = [consumer EXCEPT !.stage = "ended"]
  /\ UNCHANGED <<queue, stop, worker, produced, failed, received, cancelled, cleaned>>

Consumer == Get \/ Stop \/ CancelProducer \/ Join

StreamNext == Worker \/ Consumer \/ Resume \/ Close

StreamSpec == StreamInit /\ [][StreamNext]_streamVars

\* The threads run; the stream yields, ends or fails; the cleanup returns.
StreamFairSpec == StreamSpec /\ WF_streamVars(Worker) /\ WF_streamVars(Consumer)

-----------------------------------------------------------------------------
(* Properties *)

\* stream_sync: the caller gets the chunks in order and without a gap, whenever it
\* stops; it gets all of them before the generator ends or raises by itself,
\* and it does not end where the stream has raised.
StreamComplete ==
  /\ \A i \in DOMAIN received : received[i] = i
  /\ consumer.outcome \in {"complete", "raised"} => Len(received) = produced
  /\ consumer.outcome = "complete" => ~failed

\* stream_sync: a caller that waits for a chunk is not left waiting, and once it
\* stopped the worker thread comes to its end.
NobodyLeftWaiting ==
  /\ consumer.stage = "get" ~> consumer.stage # "get"
  /\ stop ~> worker = "dead"

=============================================================================
