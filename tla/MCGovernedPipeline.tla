--------------------------- MODULE MCGovernedPipeline ---------------------------
(***************************************************************************)
(* Small instances of GovernedPipeline, RateLimiter and StreamMask for TLC.  *)
(* They share no state; a behaviour is one of one of the three.              *)
(***************************************************************************)
EXTENDS GovernedPipeline, RateLimiter, StreamMask, TLC

CONSTANTS tenant, other,       \* scopes
          short, long, twin,   \* prompts
          primary, fallback,   \* providers
          d, x                 \* characters: a digit and another one

VARIABLE subject

InitEither == /\ Init /\ LimiterInit /\ MaskInit
              /\ subject \in {"pipeline", "limiter", "mask"}

NextEither ==
  \/ subject = "pipeline" /\ Next /\ UNCHANGED <<limiterVars, maskVars, subject>>
  \/ subject = "limiter" /\ LimiterNext /\ UNCHANGED <<vars, maskVars, subject>>
  \/ subject = "mask" /\ MaskNext /\ UNCHANGED <<vars, limiterVars, subject>>

SpecEither == InitEither /\ [][NextEither]_<<vars, limiterVars, maskVars, subject>>

\* The context window middleware cuts the long prompt down to the short one; the
\* twin, asked for by the other scope, differs from that in a tool_call_id only.
Truncated == [p \in Prompts |-> IF p = twin THEN twin ELSE short]
InKey == [p \in Prompts |-> IF p = twin THEN short ELSE p]
SomeContexts == {<<tenant, twin>>, <<other, long>>}
PromptEstimate == [p \in Prompts |-> IF p = long THEN 2 ELSE 1]
SomeUsages == {[prompt |-> 1, completion |-> 1], NoReport}
RateLimits == [p \in Phases |-> IF p = "request" THEN 2 ELSE 1]
RateWindows == [p \in Phases |-> 1]
TokenCost(u) == u.prompt + 2 * u.completion

\* A greedy rule: a run of two digits or more is replaced.
SomeDeltas == {<<>>, <<d>>, <<x>>, <<d, d, d>>}
InRun(s, i) == s[i] = d /\ \/ i > 1 /\ s[i - 1] = d
                           \/ i < Len(s) /\ s[i + 1] = d
MaskRuns(s) ==
  LET marks == [i \in DOMAIN s |->
                  IF ~InRun(s, i) THEN <<s[i]>>
                  ELSE IF i = 1 \/ s[i - 1] # d THEN <<"*">> ELSE <<>>]
  IN FlattenSeq(marks)

PipelineSymmetry == Permutations(Calls)
=============================================================================
