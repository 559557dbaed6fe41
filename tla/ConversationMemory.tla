------------------------- MODULE ConversationMemory -------------------------
(***************************************************************************)
(* What becomes of the messages of a conversation: AgentState.compress,    *)
(* SlidingWindowMemory.trim and trim_with_summary, and the truncation of   *)
(* ContextWindowMiddleware, in the three ways they are combined:           *)
(*   "runtime"   AgentRuntime: the state is compressed, a copy is trimmed  *)
(*               and truncated, and a truncated copy becomes the state     *)
(*   "loop"      AgentLoop with a memory: the context is trimmed in place  *)
(*               and the context window leaves it alone                    *)
(*   "pipeline"  the context window alone                                  *)
(* A message has a role, a size in tokens and its number in the            *)
(* conversation, which only the properties read.                           *)
(***************************************************************************)
EXTENDS Integers, Sequences, SequencesExt, FiniteSetsExt

CONSTANTS
  MaxTokens,     \* memory_max_tokens
  WindowTokens,  \* ContextWindowMiddleware max_tokens
  KeepRounds,    \* keep_rounds
  MaxMessages,   \* state_max_messages
  Sizes,         \* sizes of messages
  SummarySizes,  \* sizes of summaries
  MaxNumber      \* bound: messages of a conversation

ASSUME MemoryAssumption ==
  /\ MaxTokens \in Nat /\ WindowTokens \in Nat /\ KeepRounds \in Nat /\ MaxMessages \in Nat
  /\ Sizes \subseteq Nat /\ SummarySizes \subseteq Nat /\ MaxNumber \in Nat

VARIABLES
  mode,        \* how the parts are combined
  summarizer,  \* the memory has a summarizer
  prompted,    \* the configuration of the runtime has a system_prompt
  messages,    \* state.messages, context.messages
  given,       \* what the provider was given last
  count,       \* numbers given so far
  newest,      \* observer: the message added last
  squeezes,    \* observer: the counts at which system messages left no room
  speaker      \* who is next: "user", "think" or "model"

memoryVars == <<mode, summarizer, prompted, messages, given, count, newest, squeezes, speaker>>

Roles == {"system", "user", "assistant", "tool"}

\* The messages of some roles; a function, as SelectSeq cannot be reasoned about.
OfRoles(s, roles) ==
  LET upTo[n \in 0..Len(s)] ==
        IF n = 0 THEN <<>>
        ELSE IF s[n].role \in roles THEN Append(upTo[n - 1], s[n]) ELSE upTo[n - 1]
  IN upTo[Len(s)]

Systems(s) == OfRoles(s, {"system"})
Others(s) == OfRoles(s, Roles \ {"system"})
Prompt == [role |-> "system", size |-> 1, number |-> 0]
Summaries == [role : {"system"}, size : SummarySizes, number : {0}]

Total(s) ==
  LET upTo[n \in 0..Len(s)] == IF n = 0 THEN 0 ELSE upTo[n - 1] + s[n].size
  IN upTo[Len(s)]

\* _TokenEstimator.estimate_tokens: never less than one.
Estimate(s) == IF s = <<>> THEN 1 ELSE Total(s)

\* count_tokens of the context window counts the roles too.
WindowCount(s) == Total(s) + Len(s)

Suffix(s, n) == SubSeq(s, Len(s) - n + 1, Len(s))

\* The last user message, or else the last message.
LastOfUser(s) ==
  LET users == {i \in DOMAIN s : s[i].role = "user"} IN
  IF s = <<>> THEN <<>> ELSE <<s[IF users = {} THEN Len(s) ELSE Max(users)]>>

\* Mutant: messages that do not fit are passed over, not the end.
Fitting_Skips(s, room) ==
  LET Put(kept, m) == IF Total(kept) + m.size <= room THEN <<m>> \o kept ELSE kept
  IN FoldLeft(Put, <<>>, Reverse(s))

\* The longest suffix that fits, taken from the end message by message.
Fitting(s, room) ==
  Suffix(s, Max({n \in 0..Len(s) : \A k \in 0..n : Total(Suffix(s, k)) <= room}))

Fits(s) == s = <<>> \/ Estimate(s) <= MaxTokens

\* The system messages leave no room for others.
Crowded(s) == ~Fits(s) /\ Estimate(Systems(s)) >= MaxTokens

Trim(s) ==
  IF Fits(s) THEN s
  ELSE IF Crowded(s) THEN SubSeq(Systems(s), 1, 1) \o LastOfUser(Others(s))
  ELSE Systems(s) \o Fitting(Others(s), MaxTokens - Estimate(Systems(s)))

\* trim_with_summary trims what it is given; or else, if there is a summarizer
\* that does not fail, what a summary of the older third makes of it.
ToTrim(s) ==
  LET other == Others(s)
      recent == Suffix(other, Len(other) - Len(other) \div 3)
  IN {s} \cup
     {Systems(s) \o <<summary>> \o recent :
        summary \in IF summarizer /\ ~Fits(s) /\ Len(other) > 4 THEN Summaries ELSE {}}

\* _truncate_messages; the summary is skipped when it fails or is disabled.
Truncate(s) ==
  LET keep == KeepRounds * 2
      other == Others(s)
  IN IF Len(other) <= keep THEN {s}
     ELSE IF keep = 0 THEN {Systems(s) \o other}  \* [:-0] is empty, [-0:] is all
     ELSE {Systems(s) \o Suffix(other, keep)} \cup
          {Systems(s) \o <<summary>> \o Suffix(other, keep) : summary \in Summaries}

TooLong(s) == WindowCount(s) > WindowTokens
Windowed(s) == IF TooLong(s) THEN Truncate(s) ELSE {s}

\* AgentState.compress keeps the system messages and the newest others.
Compress(s) ==
  LET overflow == Len(s) - MaxMessages
      other == Others(s)
      from == Max({overflow, Len(other) - MaxMessages + Len(Systems(s))})
  IN IF overflow <= 0 THEN s
     ELSE Systems(s) \o SubSeq(other, from + 1, Len(other))

Message(role, size) == [role |-> role, size |-> size, number |-> count + 1]

\* Before the first run of a runtime with a system_prompt there are no messages.
MemoryInit == /\ mode \in {"runtime", "loop", "pipeline"}
              /\ summarizer \in (IF mode = "runtime" THEN BOOLEAN ELSE {FALSE})
              /\ prompted \in (IF mode = "runtime" THEN BOOLEAN ELSE {FALSE})
              /\ messages = IF prompted THEN <<>> ELSE <<Prompt>>
              /\ given = <<>>
              /\ count = 0
              /\ newest = Prompt
              /\ squeezes = {}
              /\ speaker = "user"

\* The user speaks.  Each run of a runtime, also one that goes on with the state
\* of an earlier one, begins with the system prompt.
Speak(size) ==
  /\ speaker = "user" /\ count < MaxNumber
  /\ newest' = Message("user", size)
  /\ messages' = messages \o (IF prompted THEN <<Prompt>> ELSE <<>>) \o <<newest'>>
  /\ count' = count + 1
  /\ speaker' = "think"
  /\ UNCHANGED <<mode, summarizer, prompted, given, squeezes>>

Squeezed(when) == squeezes' = IF when THEN squeezes \cup {count} ELSE squeezes

\* What the provider is given.
Think ==
  /\ speaker = "think"
  /\ speaker' = "model"
  /\ \/ /\ mode = "runtime"
        /\ \E whole \in ToTrim(Compress(messages)) :
             /\ given' \in Windowed(Trim(whole))
             /\ messages' = IF TooLong(Trim(whole)) THEN given' ELSE Compress(messages)
             /\ Squeezed(Len(Systems(messages)) >= MaxMessages \/ Crowded(whole))
     \/ /\ mode = "loop"
        /\ messages' = Trim(messages)
        /\ given' = messages'
        /\ Squeezed(Crowded(messages))
     \/ /\ mode = "pipeline"
        /\ messages' \in Windowed(messages)
        /\ given' = messages'
        /\ UNCHANGED squeezes
  /\ UNCHANGED <<mode, summarizer, prompted, count, newest>>

\* The model answers, with or without a tool call whose result is appended.
Reply(size, tool) ==
  /\ speaker = "model" /\ count < MaxNumber
  /\ IF tool
     THEN /\ newest' = [role |-> "tool", size |-> size, number |-> count + 2]
          /\ messages' = messages \o <<Message("assistant", 1), newest'>>
          /\ count' = count + 2
          /\ speaker' = "think"
     ELSE /\ newest' = Message("assistant", size)
          /\ messages' = Append(messages, newest')
          /\ count' = count + 1
          /\ speaker' = "user"
  /\ UNCHANGED <<mode, summarizer, prompted, given, squeezes>>

MemoryNext == Think \/ \E size \in Sizes :
          Speak(size) \/ \E tool \in BOOLEAN : Reply(size, tool)

MemorySpec == MemoryInit /\ [][MemoryNext]_memoryVars

-----------------------------------------------------------------------------
\* Two messages follow each other, or the system messages left no room for what
\* was between them.
Joined(m, n) ==
  \/ n.number = m.number + 1
  \/ \E c \in squeezes : m.number <= c /\ c < n.number

\* Whatever is trimmed, summarised, truncated and synchronised back, the
\* provider sees the system prompt first, and the newest messages in order and
\* without a gap, behind the system messages unless prompts of later runs are
\* among them.  Only when the system messages leave no room does the last user
\* message, or none, stand for the conversation, and only when the newest message
\* does not fit is nothing left of it (agent.py:646, context.py:208).
SentIsRecent ==
  speaker = "model" =>
    LET other == Others(given) IN
    /\ given[1] = Prompt
    /\ prompted \/ given = Systems(given) \o other
    /\ \A i \in 2..Len(other) : Joined(other[i - 1], other[i])
    /\ \/ other # <<>> /\ Last(other) = newest
       \/ /\ count \in squeezes
          /\ other = <<>> \/ (Len(other) = 1 /\ other[1].role = "user")
       \/ other = <<>> /\ newest.size + Total(Systems(given)) > MaxTokens
=============================================================================
