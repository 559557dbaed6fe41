----------------------------- MODULE StreamMask -----------------------------
(***************************************************************************)
(* SafetyGuardrailMiddleware.process_stream_chunk: the text of a stream is *)
(* held back in a buffer of the context and masked when the buffer is      *)
(* flushed.  The error of another middleware's hook, isolated or not, and  *)
(* the end of the stream drop the buffer.  The rules stay abstract: Mask   *)
(* is what _mask_pii makes of one text, whatever the list of rules.        *)
(***************************************************************************)
EXTENDS Integers, Sequences, FiniteSets

CONSTANTS
  Characters,
  Deltas,       \* texts of the chunks that arrive
  Mask(_),      \* _mask_pii
  BufferSize,   \* _STREAM_BUFFER_SIZE
  MaxAge,       \* _MAX_BUFFER_AGE, in ticks
  MaxText,      \* bound: characters of a stream
  MaxCuts,      \* bound: flushes and drops of a stream
  MaxErrors     \* bound: errors of other hooks

ASSUME MaskAssumption ==
  /\ \A delta \in Deltas : delta \in Seq(Characters)
  /\ BufferSize \in Nat /\ MaxAge \in Nat

VARIABLES
  held,      \* metadata[buf_key], <<>> if absent
  begun,     \* that key is present
  age,       \* ticks since metadata[timestamp_key]
  open,      \* the generator of stream() has not ended
  out,       \* what the consumer has received, by flush
  text,      \* observer: the text that has arrived
  cuts,      \* observer: where in it the buffer was emptied, and whether lost
  finished,  \* observer: the last chunk carried a finish_reason
  errors     \* observer: errors of other hooks

maskVars == <<held, begun, age, open, out, text, cuts, finished, errors>>

MaskInit == /\ held = <<>> /\ begun = FALSE /\ age = 0 /\ open = TRUE
            /\ out = <<>> /\ text = <<>> /\ cuts = <<>>
            /\ finished = FALSE /\ errors = 0

\* Mutant: only what is held is flushed, the new text is held next.
Chunk_FlushesHeld(delta, finish) ==
  LET full == held \o delta
      flush == finish \/ Len(full) > BufferSize \/ age > MaxAge
  IN /\ open /\ Len(text) + Len(delta) <= MaxText
     /\ text' = text \o delta
     /\ finished' = finish
     /\ IF flush
        THEN /\ Len(cuts) < MaxCuts
             /\ out' = Append(out, Mask(held))
             /\ cuts' = Append(cuts, [upto |-> Len(text'), lost |-> FALSE])
             /\ held' = delta /\ begun' = (delta # <<>>) /\ age' = 0
        ELSE /\ held' = full /\ begun' = TRUE
             /\ UNCHANGED <<age, out, cuts>>
     /\ UNCHANGED <<open, errors>>

\* A chunk arrives; finish says whether it carries a finish_reason.  More may
\* follow, the pipeline goes on as long as the provider yields.
Chunk(delta, finish) ==
  LET full == held \o delta
      flush == finish \/ Len(full) > BufferSize \/ age > MaxAge
  IN /\ open /\ Len(text) + Len(delta) <= MaxText
     /\ text' = text \o delta
     /\ finished' = finish
     /\ IF flush
        THEN /\ Len(cuts) < MaxCuts
             /\ out' = Append(out, Mask(full))
             /\ cuts' = Append(cuts, [upto |-> Len(text'), lost |-> FALSE])
             /\ held' = <<>> /\ begun' = FALSE /\ age' = 0
        ELSE /\ held' = full /\ begun' = TRUE
             /\ UNCHANGED <<age, out, cuts>>
     /\ UNCHANGED <<open, errors>>

\* time.monotonic() advances; only a buffer that was begun grows old.
BufferAges == /\ open /\ begun /\ age <= MaxAge
              /\ age' = age + 1
              /\ UNCHANGED <<held, begun, open, out, text, cuts, finished, errors>>

\* The buffer and its timestamp leave the metadata.
Dropped ==
  /\ held' = <<>> /\ begun' = FALSE /\ age' = 0
  /\ IF held = <<>> THEN UNCHANGED <<out, cuts>>
     ELSE /\ Len(cuts) < MaxCuts
          /\ out' = Append(out, <<>>)
          /\ cuts' = Append(cuts, [upto |-> Len(text), lost |-> TRUE])

\* process_stream_chunk of another middleware raises: on_error is broadcast, to
\* this middleware too; if the error is isolated the stream goes on.
HookFails == /\ open /\ errors < MaxErrors
             /\ Dropped
             /\ errors' = errors + 1
             /\ UNCHANGED <<open, text, finished>>

\* The generator ends: the provider has no more chunks, with or without a
\* finish_reason, or an error, a deadline or the consumer ends it.
StreamEnds == /\ open
              /\ open' = FALSE
              /\ Dropped
              /\ UNCHANGED <<text, finished, errors>>

MaskNext == (\E delta \in Deltas, finish \in BOOLEAN : Chunk(delta, finish))
            \/ BufferAges \/ HookFails \/ StreamEnds

MaskSpec == MaskInit /\ [][MaskNext]_maskVars

-----------------------------------------------------------------------------
\* Where the text begins that the i-th emptying of the buffer took, and which
\* text that was.
StartOf(i) == IF i = 1 THEN 0 ELSE cuts[i - 1].upto
Piece(i) == SubSeq(text, StartOf(i) + 1, cuts[i].upto)
LostCuts == {i \in DOMAIN cuts : cuts[i].lost}

\* Holding text back repeats and reorders nothing: the consumer has received the
\* text piece by piece, each masked as one text, and all but the last BufferSize
\* characters.  A piece is lost only to the error of another hook
\* (pipeline.py:797) or when the stream ends behind a chunk without a
\* finish_reason (pipeline.py:395), and is at most BufferSize long.  Nothing is
\* said of what a rule would match across two pieces.
TextKept ==
  /\ \A i \in DOMAIN cuts :
       out[i] = IF cuts[i].lost THEN <<>> ELSE Mask(Piece(i))
  /\ held = SubSeq(text, StartOf(Len(cuts) + 1) + 1, Len(text))
  /\ Len(held) <= BufferSize
  /\ \A i \in LostCuts : Len(Piece(i)) <= BufferSize
  /\ Cardinality(LostCuts) <= errors + (IF open \/ finished THEN 0 ELSE 1)
=============================================================================
