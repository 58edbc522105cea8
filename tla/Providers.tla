------------------------------ MODULE Providers ------------------------------
(***************************************************************************)
(* The providers (src/providers): what they send of a history, and what    *)
(* they make of the answer that arrives in pieces.                          *)
(*                                                                         *)
(* The wire is a sequence of half lines; a chunk is any number of them.     *)
(* JSON arguments are sequences over "{", "}" and "x".  A tool name is a    *)
(* record of what the resolution steps find for it among the tools offered, *)
(* so that the order of the steps matters and the spelling does not.        *)
(***************************************************************************)
EXTENDS Naturals, FiniteSets, Sequences, SequencesExt

CONSTANTS
  Histories,    \* histories to replay
  Streams       \* [provider, lines]: answers of the providers, up to their end

\* A message has a role, text or not, calls and results.  The role tool is only
\* given to results.
ASSUME ProvidersAssumption ==
  /\ \A h \in Histories :
       /\ h \in Seq(Range(h))
       /\ \A m \in Range(h) :
            /\ DOMAIN m = {"role", "text", "uses", "results"}
            /\ m.results \in Seq(Range(m.results))
            /\ m.role = "tool" => m.results # <<>>
  /\ \A x \in Streams :
       /\ x.provider \in {"openai", "anthropic", "codex"}
       /\ x.lines \in Seq(Range(x.lines)) /\ \A l \in Range(x.lines) : l.index \in Nat

VARIABLES
  prReq,      \* the request sent last: [provider, history, payload], or none
  prStream    \* the stream under way

providerVars == <<prReq, prStream>>

Blank == ""
(***************************************************************************)
(* stream_normalization.cpp                                                *)
(***************************************************************************)
\* A raw name; only what the steps of the resolution look at.
RawName(self, exact, near, inferred, counter, structured) ==
  [self |-> self, exact |-> exact, near |-> near, inferred |-> inferred,
   counter |-> counter, structured |-> structured]
NoName == RawName(Blank, FALSE, Blank, {}, FALSE, Blank)

\* InferToolNameFromToolCallId: the one tool all matching tokens agree on.
InferToolName(matches) == IF Cardinality(matches) = 1 THEN CHOOSE m \in matches : TRUE ELSE Blank

\* The exact name, its normalised or folded form, the name a counter was put to,
\* its last segments; a name that nothing is found for stays.  A blank name is
\* inferred from the id.
ResolveAllowedToolName(n, idMatches) ==
  IF n.self = Blank THEN InferToolName(idMatches)
  ELSE IF n.exact THEN n.self
  ELSE IF n.near # Blank THEN n.near
  ELSE IF InferToolName(n.inferred) # Blank THEN InferToolName(n.inferred)
  ELSE IF n.counter \/ n.structured = Blank THEN n.self
  ELSE n.structured

\* Depth of brackets after the first i characters of s from its first "{" on.
FirstOpen(s) == SelectInSeq(s, LAMBDA c : c = "{")
DepthAt(s, i) ==
  FoldLeft(LAMBDA d, c : IF c = "{" THEN d + 1 ELSE IF c = "}" /\ d > 0 THEN d - 1 ELSE d, 0,
           SubSeq(s, FirstOpen(s), i))

\* Blank text is an empty object; text that parses, or whose first bracket is
\* closed again, is an object; everything else is null.
ParseArgumentsWithRepair(s) ==
  IF s = <<>> \/ (FirstOpen(s) # 0 /\ \E i \in FirstOpen(s) .. Len(s) : DepthAt(s, i) = 0)
    THEN "object" ELSE "null"

\* call_auto_N, N the first free number from the number of ids seen plus one.
AutoId(n) == <<"auto", n>>
\* Mutant: an id that was given is taken as it is.
EnsureUniqueToolCallId_Any(id, seen) == IF id = Blank THEN AutoId(Cardinality(seen) + 1) ELSE <<"id", id>>
EnsureUniqueToolCallId(id, seen) ==
  LET given == IF id = Blank THEN AutoId(Cardinality(seen) + 1) ELSE <<"id", id>>
      free  == {n \in Cardinality(seen) + 1 .. 2 * Cardinality(seen) + 1 : AutoId(n) \notin seen}
  IN  IF given \notin seen THEN given ELSE AutoId(CHOOSE n \in free : \A m \in free : n <= m)

\* A call is dropped when it has no name or no structured arguments.
NormalizeToolCall(frag, seen) ==
  LET name == ResolveAllowedToolName(frag.name, frag.idMatches)
      args == ParseArgumentsWithRepair(frag.args)
  IN  IF name = Blank \/ args = "null" THEN [ok |-> FALSE, call |-> NoName]
      ELSE [ok |-> TRUE, call |-> [id |-> EnsureUniqueToolCallId(frag.id, seen), name |-> name, index |-> frag.index]]

\* Mutant: a call that was delivered stays pending.
Finalized_Stays(acc, frag) ==
  LET n == NormalizeToolCall(frag, acc.seen)
  IN  [calls |-> IF n.ok THEN Append(acc.calls, n.call) ELSE acc.calls,
       seen  |-> IF n.ok THEN acc.seen \cup {n.call.id} ELSE acc.seen, rest |-> Append(acc.rest, frag)]

\* The calls that are complete, the ids seen, and the fragments that are not.
Finalized(acc, frag) ==
  LET n == NormalizeToolCall(frag, acc.seen)
  IN  IF n.ok THEN [calls |-> Append(acc.calls, n.call), seen |-> acc.seen \cup {n.call.id}, rest |-> acc.rest]
      ELSE [calls |-> acc.calls, seen |-> acc.seen, rest |-> Append(acc.rest, frag)]

FinalizePendingToolCalls(pending, seen) ==
  LET f[i \in 0 .. Len(pending)] ==
        IF i = 0 THEN [calls |-> <<>>, seen |-> seen, rest |-> <<>>]
        ELSE Finalized(f[i - 1], pending[i])
  IN  f[Len(pending)]

\* SanitizeReplayMessages: the calls of an assistant message get names and
\* distinct ids, and those without a name are dropped.
SanitizeReplay(m) ==
  IF m.role # "assistant" THEN m
  ELSE [m EXCEPT !.uses =
          FoldLeft(LAMBDA acc, u :
                     LET id == EnsureUniqueToolCallId(u.id, acc.seen)
                     IN  [seen |-> acc.seen \cup {id},
                          uses |-> IF u.name = Blank THEN acc.uses
                                   ELSE Append(acc.uses, [id |-> id, name |-> u.name])],
                   [seen |-> {}, uses |-> <<>>], m.uses).uses]

(***************************************************************************)
(* Requests.                                                               *)
(***************************************************************************)
UseIds(m) == {m.uses[i].id : i \in DOMAIN m.uses}

\* serialize_messages_to_openai: a result is sent only if it answers a call of
\* the assistant message before it.
Answered(acc, r) ==
  IF r \in acc.pending
  THEN [arr |-> Append(acc.arr, [role |-> "tool", ids |-> {r}]), pending |-> acc.pending \ {r}]
  ELSE acc

AnsweredAll(acc, results) ==
  LET f[j \in 0 .. Len(results)] == IF j = 0 THEN acc ELSE Answered(f[j - 1], results[j])
  IN  f[Len(results)]

Serialized(acc, m) ==
  IF m.results # <<>> THEN AnsweredAll(acc, m.results)
  ELSE IF m.uses # <<>>
    THEN [arr |-> Append(acc.arr, [role |-> "assistant", ids |-> UseIds(m)]),
          pending |-> UseIds(m) \ {<<"id", Blank>>}]
    ELSE [arr |-> Append(acc.arr, [role |-> m.role, ids |-> {}]), pending |-> {}]

\* Messages that are skipped leave no trace.
SerializeOpenAI(history, skipped) ==
  LET f[i \in 0 .. Len(history)] ==
        IF i = 0 THEN [arr |-> <<>>, pending |-> {}]
        ELSE IF history[i].role \in skipped THEN f[i - 1]
        ELSE Serialized(f[i - 1], history[i])
  IN  f[Len(history)].arr

\* Mutant: every result is sent.
OpenAIPayload_Unfiltered(history) ==
  FlattenSeq([i \in DOMAIN history |->
    IF history[i].results # <<>>
      THEN [j \in DOMAIN history[i].results |-> [role |-> "tool", ids |-> {history[i].results[j]}]]
      ELSE <<[role |-> history[i].role, ids |-> UseIds(SanitizeReplay(history[i]))]>>])

OpenAIPayload(history) == SerializeOpenAI([i \in DOMAIN history |-> SanitizeReplay(history[i])], {})

\* serialize_messages_to_anthropic: system text apart, blocks as they are, empty
\* messages left out, results in the user's name.
AnthropicPayload(history) ==
  LET kept == SelectSeq(history, LAMBDA m :
                m.role # "system" /\ (m.text \/ m.uses # <<>> \/ m.results # <<>>))
  IN  [i \in DOMAIN kept |-> [role |-> IF kept[i].role = "tool" THEN "user" ELSE kept[i].role,
                              ids  |-> UseIds(kept[i])]]

\* build_input_items: as for OpenAI, the calls before the text of their message.
CodexUses(uses) == [j \in DOMAIN uses |-> [uses[j] EXCEPT !.id = <<"id", @>>]]

CodexPayload(history) ==
  SerializeOpenAI([i \in DOMAIN history |-> [history[i] EXCEPT !.uses = CodexUses(@)]],
                  {"system"})

\* apply_thinking_params.
thinking_budget_tokens == [off |-> 0, low |-> 1024, medium |-> 4096, high |-> 16000]
MaxTokensSent(level, max_tokens) ==
  LET budget == thinking_budget_tokens[level]
  IN  IF budget > 0 /\ max_tokens <= budget THEN budget + 4096 ELSE max_tokens

SendRequest(provider, history) ==
  /\ prReq.provider = "none" /\ prStream.provider = "none"
  /\ prReq' = [provider |-> provider, history |-> history,
               payload |-> CASE provider = "openai"    -> OpenAIPayload(history)
                             [] provider = "anthropic" -> AnthropicPayload(history)
                             [] provider = "codex"     -> CodexPayload(history)]
  /\ UNCHANGED prStream

(***************************************************************************)
(* Answers.                                                                *)
(***************************************************************************)
NoStream == [provider |-> "none", lines |-> <<>>, wire |-> 0, buffer |-> 0, pending |-> <<>>,
             seen |-> {}, out |-> <<>>, thrown |-> FALSE, whole |-> FALSE, result |-> "none"]
NoFragment(i) == [index |-> i, id |-> Blank, idMatches |-> {}, name |-> NoName, args |-> <<>>]
Emit(s, e) == [s EXCEPT !.out = Append(@, e)]
EmitCalls(s, calls) == IF calls = <<>> THEN s ELSE Emit(s, [type |-> "calls", calls |-> calls])
Ended(s) == \E i \in DOMAIN s.out : s.out[i].type = "end"

\* Tool call deltas are put together by their index; id and name replace, the
\* arguments are appended.
AddFragment(pending, l) ==
  LET grown == pending \o [i \in 1 .. (IF l.index > Len(pending) THEN l.index - Len(pending) ELSE 0) |->
                             NoFragment(Len(pending) + i)]
      f == grown[l.index]
  IN  [grown EXCEPT ![l.index] =
         [f EXCEPT !.index = l.index, !.args = @ \o l.args,
                   !.id = IF l.id = Blank THEN @ ELSE l.id,
                   !.idMatches = IF l.id = Blank THEN @ ELSE l.idMatches,
                   !.name = IF l.name = NoName THEN @ ELSE l.name]]

AddArguments(pending, args) == [pending EXCEPT ![Len(pending)].args = @ \o args]

\* StreamWriteCallback of openai_provider.cpp on one line.
OpenAILine(s, l) ==
  LET f == FinalizePendingToolCalls(s.pending, s.seen)
  IN  CASE l.type = "text"   -> Emit(s, [type |-> "text", calls |-> <<>>])
        [] l.type = "call"   -> [s EXCEPT !.pending = AddFragment(@, l)]
        [] l.type = "finish" -> EmitCalls([s EXCEPT !.pending = f.rest, !.seen = f.seen], f.calls)
        [] l.type = "end"    -> Emit(EmitCalls([s EXCEPT !.pending = <<>>, !.seen = f.seen], f.calls),
                                     [type |-> "end", calls |-> <<>>])
        [] OTHER -> s

\* AnthropicStreamWriteCallback: a block opens a call, fragments go to the last
\* one, and arguments that do not parse become an empty object.
AnthropicLine(s, l) ==
  LET calls == [i \in DOMAIN s.pending |->
                  [id |-> <<"id", s.pending[i].id>>, name |-> s.pending[i].name.self, index |-> s.pending[i].index]]
  IN  CASE l.type = "text"  -> Emit(s, [type |-> "text", calls |-> <<>>])
        [] l.type = "open"  -> [s EXCEPT !.pending = Append(@, [NoFragment(l.index) EXCEPT !.id = l.id, !.name = l.name])]
        [] l.type = "call"  -> IF s.pending = <<>> THEN s
                               ELSE [s EXCEPT !.pending = AddArguments(@, l.args)]
        [] l.type = "end"   -> Emit(EmitCalls([s EXCEPT !.pending = <<>>], calls), [type |-> "end", calls |-> <<>>])
        [] OTHER -> s

\* handle_stream_event of openai_codex_provider.cpp: a call is emitted when its
\* arguments are done; an error event makes the callback fail.
CallsLeft(pending, l) == SelectSeq(pending, LAMBDA f : f.index # l.index)

CallDone(pending, l) ==
  LET known == SelectSeq(pending, LAMBDA f : f.index = l.index)
      f == IF known = <<>> THEN NoFragment(l.index) ELSE Head(known)
  IN  [id |-> <<"id", IF l.id = Blank THEN f.id ELSE l.id>>,
       name |-> IF l.name = NoName THEN f.name.self ELSE l.name.self, index |-> l.index]

CodexEvent(s, l) ==
  CASE l.type = "text"  -> Emit(s, [type |-> "text", calls |-> <<>>])
    [] l.type = "open"  -> [s EXCEPT !.pending = Append(@, [NoFragment(l.index) EXCEPT !.id = l.id, !.name = l.name])]
    [] l.type = "call"  -> Emit([s EXCEPT !.pending = CallsLeft(@, l)],
                                [type |-> "calls", calls |-> <<CallDone(s.pending, l)>>])
    [] l.type = "end"   -> Emit(s, [type |-> "end", calls |-> <<>>])
    [] l.type = "error" -> [s EXCEPT !.thrown = TRUE]
    [] OTHER -> s

Line(s, l) == CASE s.provider = "openai"    -> OpenAILine(s, l)
                [] s.provider = "anthropic" -> AnthropicLine(s, l)
                [] s.provider = "codex"     -> CodexEvent(s, l)

BeginStream(x) ==
  /\ prStream.provider = "none" /\ prReq.provider = "none"
  /\ prStream' = [NoStream EXCEPT !.provider = x.provider, !.lines = x.lines]
  /\ UNCHANGED prReq

\* ChatCompletion: the answer arrives in one piece.  NormalizeToolCalls is given no
\* set of ids here: it fills in a missing id and leaves equal ones as they are.
OpenAICompletion(lines) ==
  LET frags == FoldLeft(AddFragment, <<>>, SelectSeq(lines, LAMBDA l : l.type = "call"))
      norm  == [i \in DOMAIN frags |-> NormalizeToolCall(frags[i], {})]
      call(i) == [norm[i].call EXCEPT !.id = IF frags[i].id = Blank THEN AutoId(i) ELSE @]
  IN  FlattenSeq([i \in DOMAIN frags |-> IF norm[i].ok THEN <<call(i)>> ELSE <<>>])

AnthropicCompletion(lines) ==
  LET blocks == SelectSeq(lines, LAMBDA l : l.type = "open")
  IN  [i \in DOMAIN blocks |-> [id |-> <<"id", blocks[i].id>>, name |-> blocks[i].name.self, index |-> blocks[i].index]]

\* codex has no other way than to stream, and collects what it is told.
CodexCompletion(lines) ==
  LET s == FoldLeft(LAMBDA a, l : IF a.thrown THEN a ELSE CodexEvent(a, l), NoStream, lines)
  IN  [calls |-> FlattenSeq([i \in DOMAIN s.out |-> s.out[i].calls]), thrown |-> s.thrown]

ChatCompletion(x) ==
  LET calls == CASE x.provider = "openai"    -> OpenAICompletion(x.lines)
                 [] x.provider = "anthropic" -> AnthropicCompletion(x.lines)
                 [] x.provider = "codex"     -> CodexCompletion(x.lines).calls
      thrown == x.provider = "codex" /\ CodexCompletion(x.lines).thrown
  IN  /\ prStream.provider = "none" /\ prReq.provider = "none"
      /\ prStream' = [NoStream EXCEPT !.provider = x.provider, !.lines = x.lines, !.whole = TRUE,
                        !.wire = 2 * Len(x.lines), !.thrown = thrown,
                        !.out = IF thrown THEN <<>> ELSE <<[type |-> "calls", calls |-> calls],
                                                           [type |-> "end", calls |-> <<>>]>>,
                        !.result = IF thrown THEN "unknown" ELSE "ok"]
      /\ UNCHANGED prReq

\* The lines after a up to b, in order, up to one that throws.
Handled(s, a, b) ==
  LET f[i \in a .. b] ==
        IF i = a THEN s ELSE IF f[i - 1].thrown THEN f[i - 1] ELSE Line(f[i - 1], s.lines[i])
  IN  f[b]

\* Mutant: the half line that waits is forgotten, and with it the line.
Chunk_LosesHalf(n) ==
  LET s == prStream
  IN  /\ s.provider # "none" /\ s.result = "none" /\ ~ s.thrown /\ s.wire + n <= 2 * Len(s.lines)
      /\ prStream' = [Handled(s, (s.wire + s.buffer) \div 2, (s.wire + n) \div 2)
                        EXCEPT !.wire = s.wire + n, !.buffer = (s.wire + n) % 2]
      /\ UNCHANGED prReq

\* A chunk of n half lines: the lines it completes are handled; a half line waits
\* in the buffer.
Chunk(n) ==
  LET s == prStream
  IN  /\ s.provider # "none" /\ s.result = "none" /\ ~ s.thrown /\ s.wire + n <= 2 * Len(s.lines)
      /\ prStream' = [Handled(s, (s.wire - s.buffer) \div 2, (s.wire + n) \div 2)
                        EXCEPT !.wire = s.wire + n, !.buffer = (s.wire + n) % 2]
      /\ UNCHANGED prReq

\* curl_easy_perform returns: which error the caller gets.  codex looks at the
\* status first and does not tell transport errors apart.
Outcome(s, curl, http) ==
  IF s.provider = "codex"
    THEN IF http >= 400 THEN "http" ELSE IF s.thrown \/ curl # "ok" THEN "unknown" ELSE "ok"
    ELSE IF curl = "timeout" THEN "timeout" ELSE IF curl = "connect" THEN "transient"
         ELSE IF curl # "ok" THEN "unknown" ELSE IF http >= 400 THEN "http" ELSE "ok"

StreamReturns(curl, http) ==
  /\ prStream.provider # "none" /\ prStream.result = "none"
  /\ curl = "ok" => prStream.thrown = FALSE /\ (prStream.wire = 2 * Len(prStream.lines) \/ http >= 400)
  /\ http >= 400 => prStream.wire = 0
  /\ prStream' = [prStream EXCEPT !.result = Outcome(prStream, curl, http)]
  /\ UNCHANGED prReq

-----------------------------------------------------------------------------
ProvidersInit == prReq = [provider |-> "none", history |-> <<>>, payload |-> <<>>] /\ prStream = NoStream

ProvidersNext ==
  \/ \E p \in {"openai", "anthropic", "codex"}, h \in Histories : SendRequest(p, h)
  \/ \E x \in Streams : BeginStream(x) \/ ChatCompletion(x)
  \/ \E n \in 1 .. 4 : Chunk(n)
  \/ \E curl \in {"ok", "timeout", "connect", "other"}, http \in {200, 429} : StreamReturns(curl, http)

-----------------------------------------------------------------------------
\* A history that was cut, or whose calls have no or equal ids, is replayed as the
\* API wants it: a result follows the message with its call with nothing but
\* results between, and no call is answered twice (openai_provider.cpp:101 says
\* why; stream_normalization.cpp:585).
ReplayPaired ==
  prReq.provider \in {"openai", "codex"} =>
    LET p == prReq.payload
    IN  \A i \in DOMAIN p : p[i].role = "tool" =>
          \E k \in 1 .. i - 1 :
            /\ p[k].role = "assistant" /\ p[i].ids \subseteq p[k].ids
            /\ \A j \in k + 1 .. i - 1 : p[j].role = "tool" /\ p[j].ids # p[i].ids

\* What the caller is told does not depend on how the answer was cut into chunks:
\* it is what the lines received so far say (openai_provider.cpp:448,
\* anthropic_provider.cpp:315, openai_codex_provider.cpp:194).
ChunksAgree ==
  LET s == prStream
      start == [NoStream EXCEPT !.provider = s.provider, !.lines = s.lines]
  IN  s.provider = "none" \/ s.whole \/ s.out = Handled(start, 0, s.wire \div 2).out

\* No two calls of a streamed answer get one id, whatever ids the API gives them
\* or leaves out and however often the calls are finished (stream_normalization.cpp:156,
\* openai_provider.cpp:424).
IdsDistinct ==
  LET s == prStream
      id(i, j) == s.out[i].calls[j].id
  IN  s.provider = "openai" /\ ~ s.whole =>
        \A i, k \in DOMAIN s.out : \A j \in DOMAIN s.out[i].calls, l \in DOMAIN s.out[k].calls :
          id(i, j) = id(k, l) => i = k /\ j = l

\* Requests and answers pass the providers as they should, whatever a provider
\* sends: the parts above.
ProvidersSound == ReplayPaired /\ ChunksAgree /\ IdsDistinct

\* Of a whole answer every call with a name and complete arguments is delivered
\* once, and none that is not complete (openai_provider.cpp:424,
\* stream_normalization.cpp:634).
CallsDelivered ==
  LET s     == prStream
      calls == FlattenSeq([i \in DOMAIN s.out |-> s.out[i].calls])
      got(i) == {k \in DOMAIN calls : calls[k].index = i}
      parts(i) == SelectSeq(s.lines, LAMBDA l : l.type \in {"call", "open"} /\ l.index = i)
      args(i) == FlattenSeq([k \in DOMAIN parts(i) |-> parts(i)[k].args])
      named(i) == \E k \in DOMAIN parts(i) : parts(i)[k].name # NoName \/ Cardinality(parts(i)[k].idMatches) = 1
      indices == {s.lines[k].index : k \in {k \in DOMAIN s.lines : s.lines[k].type \in {"call", "open"}}}
      full == s.provider = "openai" =>
                \A i \in indices : got(i) # {} => ParseArgumentsWithRepair(args(i)) = "object"
  IN  s.provider # "none" =>
        /\ \A a, b \in DOMAIN calls :
             (calls[a].id = calls[b].id /\ ~ s.whole) \/ calls[a].index = calls[b].index => a = b
        /\ full
        /\ Ended(s) => \A i \in indices :
             named(i) /\ ParseArgumentsWithRepair(args(i)) = "object" => Cardinality(got(i)) = 1
=============================================================================
