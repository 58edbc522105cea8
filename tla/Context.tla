------------------------------ MODULE Context ------------------------------
(***************************************************************************)
(* What of a conversation reaches the model: DefaultContextEngine,          *)
(* ContextPruner and MultiStageCompaction (src/core), as a turn of          *)
(* AgentLoop uses them.                                                    *)
(*                                                                         *)
(* A message is [role, id, results, of]: id is its place in the            *)
(* conversation (0 for what the engine adds), of what a summary was made    *)
(* from, and results are the texts of its tool results: "short"; "long", more characters than *)
(* max_tool_result_chars over many lines; "dense", as many in few lines;    *)
(* "stale", a permission error.  Tool results come in messages of role      *)
(* user.  A message weighs one token and two more for each big result.      *)
(* The system prompt is never empty (PromptBuilder).                        *)
(***************************************************************************)
EXTENDS Integers, FiniteSets, Sequences, SequencesExt

CONSTANTS
  MaxMessages,    \* compact_max_messages
  KeepRecent,     \* compact_keep_recent
  ProtectRecent,  \* protect_recent of ContextPruner
  HardPruneAfter, \* hard_prune_after
  Window,         \* context_window less the reserve and max_tokens
  ChunkTokens,    \* max_chunk_tokens
  MaxRetries,     \* kOverflowCompactionMaxRetries
  MaxHistory      \* bound: messages of a history

\* With KeepRecent = 0 the window guard would drop the question itself.
ASSUME ContextAssumption ==
  /\ {KeepRecent, ProtectRecent, HardPruneAfter} \subseteq Nat \ {0}
  /\ {MaxMessages, Window, ChunkTokens, MaxRetries, MaxHistory} \subseteq Nat

VARIABLES
  cxHistory,   \* the session's messages
  cxRequest,   \* request.messages of a turn; <<>> between turns
  cxNew,       \* new_messages: what the turn has produced
  cxRetries,   \* overflow_retries
  cxSummary    \* is summary_fn_ set?  The gateway never calls SetSummaryFn

contextVars == <<cxHistory, cxRequest, cxNew, cxRetries, cxSummary>>

Said(role, id, results) == [role |-> role, id |-> id, results |-> results, of |-> <<>>]
Prompt  == Said("system", 0, <<"prompt">>)
Removed == Said("system", 0, <<"removed">>)
Summary(chunks, text) == [Said("system", 0, <<text>>) EXCEPT !.of = chunks]
Question == Said("user", Len(cxHistory) + 1, <<>>)

Big == {"long", "dense"}
Lower(a, b) == IF a < b THEN a ELSE b
Higher(a, b) == IF a > b THEN a ELSE b
\* messages.end() - min(n, size()), to the end
Recent(s, n) == SubSeq(s, Len(s) - Lower(n, Len(s)) + 1, Len(s))

TokensOf(m) == 1 + 2 * Cardinality({i \in DOMAIN m.results : m.results[i] \in Big})
EstimateTokens(s) ==
  LET sum[i \in 0 .. Len(s)] == IF i = 0 THEN 0 ELSE sum[i - 1] + TokensOf(s[i])
  IN  sum[Len(s)]

(***************************************************************************)
(* ContextPruner::Prune with the default options, as Assemble calls it: no  *)
(* context window, so the thresholds are not scaled.                        *)
(***************************************************************************)
Assistants(s) == {i \in DOMAIN s : s[i].role = "assistant"}

\* Mutant: one assistant message too late.
Threshold_Late(s, n) ==
  IF Cardinality(Assistants(s)) <= n THEN 0
  ELSE CHOOSE i \in Assistants(s) : Cardinality({j \in Assistants(s) : j >= i}) = n - 1

\* The index of the n-th last assistant message, 0 when there are not more.
Threshold(s, n) ==
  IF Cardinality(Assistants(s)) <= n THEN 0
  ELSE CHOOSE i \in Assistants(s) : Cardinality({j \in Assistants(s) : j >= i}) = n

ProtectThreshold(s) == Threshold(s, ProtectRecent)

HardThreshold(s) == Threshold(s, HardPruneAfter)

BootstrapEnd(s) ==
  LET user == {i \in DOMAIN s : s[i].role = "user"}
  IN IF user = {} THEN 0 ELSE CHOOSE i \in user : \A j \in user : i <= j

\* soft_prune keeps the first and last lines, if there are enough of them.
soft_prune(text) == IF text = "long" THEN "cut" ELSE text

PruneResult(text, hard) ==
  CASE hard -> "omitted"
    [] ~hard /\ text \in Big -> soft_prune(text)
    [] ~hard /\ text \notin Big -> text

\* A stale error is rewritten at any age, and its message left at that.
PruneMessage(s, i) ==
  LET m == s[i]
      stale == \E k \in DOMAIN m.results : m.results[k] = "stale"
      kept == \/ ProtectThreshold(s) = 0 \/ i >= ProtectThreshold(s)
              \/ i <= BootstrapEnd(s)
      text(k) == IF stale THEN IF m.results[k] = "stale" THEN "retry" ELSE m.results[k]
                 ELSE IF kept THEN m.results[k]
                 ELSE PruneResult(m.results[k], i < HardThreshold(s))
  IN [m EXCEPT !.results = [k \in DOMAIN m.results |-> text(k)]]

Prune(s) == [i \in DOMAIN s |-> PruneMessage(s, i)]

(***************************************************************************)
(* DefaultContextEngine.                                                   *)
(***************************************************************************)
AutoCompact(history) ==
  IF Len(history) > MaxMessages /\ Len(history) > KeepRecent
  THEN <<Removed>> \o Recent(history, KeepRecent)
  ELSE history

WindowGuard(context) ==
  IF EstimateTokens(context) > Window /\ KeepRecent < Len(context)
  THEN <<Prompt, Removed>> \o Recent(context, KeepRecent)
  ELSE context

Assemble(history, question) ==
  WindowGuard(<<Prompt>> \o Prune(AutoCompact(history)) \o <<question>>)

\* ChunkByMaxTokens: chunks of at most ChunkTokens, or of one message.
Chunked(chunks, m) ==
  IF chunks # <<>> /\ EstimateTokens(Last(chunks)) + TokensOf(m) <= ChunkTokens
  THEN Append(Front(chunks), Append(Last(chunks), m))
  ELSE Append(chunks, <<m>>)

ChunkByMaxTokens(s) ==
  LET chunks[i \in 0 .. Len(s)] == IF i = 0 THEN <<>> ELSE Chunked(chunks[i - 1], s[i])
  IN  chunks[Len(s)]

\* CompactionOptions; CompactOverflow leaves it at its default.
min_messages_for_multistage == 8

\* One message: a summary of all, whatever it weighs, when there are few
\* messages, or of chunks.  The summaries of the chunks are put together, or
\* summarized again when they are too long for the target: that is for what
\* summary_fn_ returns to decide.
CompactMultiStage(s, again) ==
  IF Len(s) < min_messages_for_multistage \/ EstimateTokens(s) <= ChunkTokens
  THEN <<Summary(<<s>>, "summary")>>
  ELSE <<Summary(ChunkByMaxTokens(s), IF again THEN "summary of summaries" ELSE "summary")>>

\* Mutant: the oldest messages are kept.
CompactOverflow_Front(messages, again) ==
  <<Prompt, Removed>> \o SubSeq(messages, 2, Higher(2, Len(messages) \div 2))

\* The messages that are not the engine's own or the prompt.
Spoken(messages) ==
  LET f[i \in 0 .. Len(messages)] ==
        IF i = 0 THEN <<>>
        ELSE IF messages[i].role # "system" THEN Append(f[i - 1], messages[i]) ELSE f[i - 1]
  IN  f[Len(messages)]

CompactOverflow(messages, again) ==
  IF cxSummary /\ Len(messages) >= 8
  THEN <<Prompt>> \o CompactMultiStage(Spoken(messages), again)
         \o Recent(messages, Higher(2, Lower(4, Len(messages))))
  ELSE <<Prompt, Removed>> \o Recent(messages, Higher(2, Len(messages) \div 2))

(***************************************************************************)
(* AgentLoop::ProcessMessage, as far as the context goes.                   *)
(***************************************************************************)
ContextInit(summary) ==
  /\ cxHistory = <<>> /\ cxRequest = <<>> /\ cxNew = <<>>
  /\ cxRetries = 0 /\ cxSummary = summary

TurnStarts ==
  /\ cxRequest = <<>> /\ Len(cxHistory) < MaxHistory
  /\ cxRequest' = Assemble(cxHistory, Question)
  /\ cxNew' = <<Question>> /\ cxRetries' = 0
  /\ UNCHANGED <<cxHistory, cxSummary>>

\* The model asks for tools: its message, and one with the results.
ToolRound(texts) ==
  LET at == Len(cxHistory) + Len(cxNew)
      msgs == <<Said("assistant", at + 1, <<>>), Said("user", at + 2, texts)>>
  IN /\ cxRequest # <<>> /\ at + 2 <= MaxHistory
     /\ cxRequest' = cxRequest \o msgs /\ cxNew' = cxNew \o msgs
     /\ UNCHANGED <<cxHistory, cxRetries, cxSummary>>

Overflow ==
  /\ cxRequest # <<>> /\ cxRetries < MaxRetries
  /\ cxRetries' = cxRetries + 1
  /\ \E again \in BOOLEAN : cxRequest' = CompactOverflow(cxRequest, again)
  /\ UNCHANGED <<cxHistory, cxNew, cxSummary>>

\* A final answer, or an error that ends the turn: what it had produced by
\* then is lost, the question was saved before it began.
TurnEnds(answered) ==
  /\ cxRequest # <<>>
  /\ cxHistory' = cxHistory \o
       (IF answered THEN Append(cxNew, Said("assistant", Len(cxHistory) + Len(cxNew) + 1, <<>>))
        ELSE <<Question>>)
  /\ cxRequest' = <<>> /\ cxNew' = <<>> /\ cxRetries' = 0 /\ UNCHANGED cxSummary

ContextNext ==
  \/ TurnStarts
  \/ \E texts \in {<<"short">>, <<"long">>, <<"dense", "stale">>} : ToolRound(texts)
  \/ Overflow
  \/ \E answered \in BOOLEAN : TurnEnds(answered)

(***************************************************************************)
(* Properties.                                                             *)
(***************************************************************************)
\* The later assistant messages of the history, when the turn began.
Age(i) == Cardinality({j \in Assistants(cxHistory) : j > i})

\* Pruning changes nothing but tool results, and those only as their age
\* allows: a result that fewer than ProtectRecent answers have followed
\* reaches the model as it was (a stale error apart), and one is left out
\* only after HardPruneAfter of them.
\* Checks ContextPruner::Prune behind the compaction of Assemble, which moves
\* every index the thresholds are compared with.
PruneRespectsAge ==
  \A n \in DOMAIN cxRequest :
    LET m == cxRequest[n]
        was == cxHistory[m.id]
    IN m.id \in DOMAIN cxHistory =>
         /\ m.role = was.role
         /\ \A k \in DOMAIN was.results :
              /\ m.results[k] \in {"cut", "omitted"} => Age(m.id) >= ProtectRecent
              /\ m.results[k] = "omitted" => Age(m.id) >= HardPruneAfter
              /\ m.results[k] = "retry" <=> was.results[k] = "stale"
              /\ m.results[k] \in {was.results[k], "cut", "omitted", "retry"}

\* Whatever was compacted, and however often, a request begins with the
\* system prompt, has what it keeps in the order it was said, and ends with
\* the newest message of the turn.  A summary is of consecutive pieces, none
\* too large for summary_fn_ unless it is a single message, or all there is
\* and under eight messages: those go to it in one pass whatever they weigh
\* (multi_stage_compaction.cpp:107).
\* Checks Assemble's window guard and CompactOverflow, which count messages
\* from the end of lists that hold their own notes.
ContextShape ==
  cxRequest # <<>> =>
    /\ cxRequest[1] = Prompt
    /\ Last(cxRequest).id = Last(cxNew).id
    /\ \A i, j \in DOMAIN cxRequest :
         i < j /\ "system" \notin {cxRequest[i].role, cxRequest[j].role} =>
           cxRequest[i].id < cxRequest[j].id
    /\ \A n \in DOMAIN cxRequest :
         LET of == cxRequest[n].of
         IN /\ \A c, d \in DOMAIN of : \A i \in DOMAIN of[c], j \in DOMAIN of[d] :
                 c < d \/ (c = d /\ i < j) => of[c][i].id < of[d][j].id
            /\ \A c \in DOMAIN of :
                 \/ Len(of[c]) = 1 \/ EstimateTokens(of[c]) <= ChunkTokens
                 \/ Len(of) = 1 /\ Len(of[c]) < min_messages_for_multistage

\* The model gets what it needs of the conversation: the parts above.
ContextSound == PruneRespectsAge /\ ContextShape
=============================================================================
