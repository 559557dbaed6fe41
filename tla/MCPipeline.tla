------------------------------ MODULE MCPipeline ------------------------------
(***************************************************************************)
(* Small instances of MiddlewareChain, Lifecycle and StreamSync for TLC.     *)
(* They share no state; a behaviour is one of one of the three.              *)
(***************************************************************************)
EXTENDS MiddlewareChain, Lifecycle, StreamSync, TLC

CONSTANTS r1, tracing, cache, metrics, safety, context,
          m1, m2, m3  \* of Lifecycle

VARIABLE subject

ThreeNamed == {m1, m2, m3}
ByName == [m \in ThreeNamed |-> CASE m = m1 -> 1 [] m = m2 -> 2 [] m = m3 -> 3]

InitEither == Init /\ LifeInit /\ StreamInit /\ subject \in {"chain", "life", "stream"}

NextEither ==
  \/ subject = "chain" /\ Next /\ UNCHANGED <<lifeVars, streamVars, subject>>
  \/ subject = "life" /\ LifeNext /\ UNCHANGED <<vars, streamVars, subject>>
  \/ subject = "stream" /\ StreamNext /\ UNCHANGED <<vars, lifeVars, subject>>

SpecEither == InitEither /\ [][NextEither]_<<vars, lifeVars, streamVars, subject>>

\* Hooks return or raise, asyncio.Lock is fair, and both threads run.
FairSpecEither ==
  /\ SpecEither
  /\ \A t \in Tasks :
       SF_lifeVars(subject = "life" /\ Step(t) /\ UNCHANGED <<vars, streamVars, subject>>)
  /\ WF_streamVars(subject = "stream" /\ Worker /\ UNCHANGED <<vars, lifeVars, subject>>)
  /\ WF_streamVars(subject = "stream" /\ Consumer /\ UNCHANGED <<vars, lifeVars, subject>>)

\* Neither the caller of stream_sync nor its worker thread is left waiting.
NoStreamLeftWaiting == subject = "stream" => NobodyLeftWaiting

\* pipeline.py, owns_provider: "whether the Pipeline manages the life cycle of the
\* providers (calls cleanup)".  A claim the code does not keep: stream_sync does
\* not look at owns_provider and cleans them up in any case.
OnlyOwnersCleanUp == cleaned => OwnsProvider

\* Priorities as in the code; safety is the mandatory one.
OneRequest == {r1}
FiveMiddlewares == {tracing, cache, metrics, safety, context}
CodePriority ==
  [m \in Middlewares |-> CASE m = tracing -> 50 [] m = cache -> 75 [] m = metrics -> 90
                           [] m = safety -> 200 [] m = context -> 300]
OnlySafety == {safety}
OnlyCache == {cache}
TracingAndMetrics == {tracing, metrics}

\* All but the innermost are registered; it is added while requests run.
WithoutContext == <<tracing, cache, metrics, safety>>

\* One error that breaks the chain and one that does not, of each family.
SomeErrors == {Plain("ValueError"), Coded("MIDDLEWARE_TIMEOUT")}
=============================================================================
