--------------------------- MODULE MCConversation ---------------------------
(***************************************************************************)
(* What an agent keeps of a conversation and sends to the model, for TLC:  *)
(* transcripts, context, requests and answers of providers, sub-agents.    *)
(* The four share no state.  A behaviour is one of a single machine,       *)
(* chosen in the initial state and named by `which'; the variables of the  *)
(* others stay as they were, so that what is explored is the sum of the    *)
(* machines and not their product.                                         *)
(***************************************************************************)
EXTENDS Providers, Context, Subagents, Sessions, TLC

VARIABLE which

CONSTANT k1   \* the one session key

-----------------------------------------------------------------------------
(* Providers: histories of up to four messages, with calls whose ids repeat *)
(* and results without a call.                                             *)
UseOf(id, name) == [id |-> id, name |-> name]

TurnOf(role, text, uses, results) ==
  [role |-> role, text |-> text, uses |-> uses, results |-> results]

MCTurns ==
  {TurnOf("system", TRUE, <<>>, <<>>),
   TurnOf("user", TRUE, <<>>, <<>>),
   TurnOf("assistant", FALSE, <<UseOf("a", "t"), UseOf("b", "t")>>, <<>>),
   TurnOf("assistant", TRUE,
          <<UseOf("a", "t"), UseOf("a", "t"), UseOf("", "")>>, <<>>),
   TurnOf("tool", FALSE, <<>>, <<<<"id", "a">>, <<"id", "b">>>>),
   TurnOf("tool", FALSE, <<>>, <<<<"id", "a">>, <<"auto", 2>>>>)}

MCHistories == UNION {[1 .. n -> MCTurns] : n \in 1 .. 4}

(* The lines of an answer: text, pieces of tool calls, junk, ends.         *)
LineOf(type, index, id, matches, name, args) ==
  [type |-> type, index |-> index, id |-> id, idMatches |-> matches,
   name |-> name, args |-> args]

Plain(name) == RawName(name, TRUE, "", {}, FALSE, "")
Mark(type) == LineOf(type, 0, "", {}, NoName, <<>>)
Opens(index, id) == LineOf("open", index, id, {}, Plain("r"), <<>>)
Piece(index, args) == LineOf("call", index, "", {}, NoName, args)
Named(index, name, args) == LineOf("call", index, "", {}, name, args)

MCStreams ==
  {[provider |-> "openai", lines |->
      <<Mark("text"), LineOf("call", 1, "a", {}, Plain("r"), <<"{">>),
        LineOf("call", 2, "a", {"r"}, NoName, <<>>), Piece(1, <<"}">>),
        LineOf("call", 3, "c", {}, Plain("r"), <<"{", "{", "}">>),
        Mark("finish"), Mark("junk"), Mark("end")>>],
   [provider |-> "openai", lines |->
      <<Named(2, RawName("f.r:1", FALSE, "", {"r"}, TRUE, ""), <<"{">>),
        Piece(2, <<"x", "}", "x">>),
        Named(1, RawName("R", FALSE, "r", {}, FALSE, ""), <<>>),
        Mark("end")>>],
   [provider |-> "openai", lines |->
      <<Named(1, RawName("q", FALSE, "", {"r", "s"}, FALSE, "s"), <<>>),
        Named(2, RawName("q1", FALSE, "", {}, TRUE, "s"), <<"x">>),
        Mark("finish")>>],
   [provider |-> "anthropic", lines |->
      <<Mark("text"), Opens(1, "a"), Piece(1, <<"{">>), Piece(1, <<"}">>),
        Mark("junk"), Opens(2, "b"), Piece(2, <<"{">>), Mark("end")>>],
   [provider |-> "codex", lines |->
      <<Mark("text"), Opens(1, "a"), Opens(2, "b"), Piece(2, <<"{">>),
        Piece(1, <<"{", "}">>), Mark("junk"), Mark("end")>>],
   [provider |-> "codex", lines |->
      <<Mark("text"), LineOf("error", 1, "a", {}, Plain("r"), <<>>),
        Mark("text")>>]}

-----------------------------------------------------------------------------
(* Sessions: one conversation with two spellings.                          *)
MCNormal == [r \in Spelling |-> k1]

Symmetry == Permutations(Requester) \cup Permutations(Sid)

-----------------------------------------------------------------------------
ConversationInit ==
  /\ which \in {"providers", "context", "subagents", "sessions"}
  /\ ProvidersInit
  /\ \E summary \in BOOLEAN :
       /\ which = "context" \/ ~ summary
       /\ ContextInit(summary)
  /\ SubagentsInit
  /\ which = "subagents" \/ max_children = 1
  /\ SessionsInit

ConversationNext ==
  /\ \/ /\ which = "providers" /\ ProvidersNext
        /\ UNCHANGED <<contextVars, subagentVars, sessionVars>>
     \/ /\ which = "context" /\ ContextNext
        /\ UNCHANGED <<providerVars, subagentVars, sessionVars>>
     \/ /\ which = "subagents" /\ SubagentsNext
        /\ UNCHANGED <<providerVars, contextVars, sessionVars>>
     \/ /\ which = "sessions" /\ SessionsNext
        /\ UNCHANGED <<providerVars, contextVars, subagentVars>>
  /\ UNCHANGED which

ConversationSpec ==
  /\ ConversationInit
  /\ [][ConversationNext]_<<which, providerVars, contextVars, subagentVars,
                            sessionVars>>
=============================================================================
