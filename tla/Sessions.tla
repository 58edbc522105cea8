------------------------------ MODULE Sessions ------------------------------
(***************************************************************************)
(* Conversations on disk: SessionManager (src/session/session_manager.cpp) *)
(* and the handlers that use it, the agent requests over WebSocket and     *)
(* HTTP (rpc_handler_agent.cpp, rpc_handler_openclaw.cpp, api_routes.cpp), *)
(* which run on a thread each, and the session commands.                   *)
(*                                                                         *)
(* sessions.json maps a key to its session id; each id has a transcript    *)
(* file of lines.  A line is the set of what was written into it: a line   *)
(* can be parsed when it is one whole message.  mutex_ is held from the    *)
(* change of store_ to the end of SaveStore: `saving' is that second half, *)
(* in which only a crash can be seen by anyone.                            *)
(***************************************************************************)
EXTENDS Integers, Sequences, FiniteSets, SequencesExt

CONSTANTS
  Key,           \* normalized session keys
  Alias,         \* other spellings of keys that clients send
  NoKey,         \* the thread serves no request
  Normal,        \* NormalizeSessionKey: spelling -> key
  Sid,           \* session ids, never generated twice (12 random digits)
  Absent,        \* no such session
  TornStore,     \* sessions.json cannot be parsed
  Requester,     \* threads that serve requests
  HistoryLimit,  \* messages read for a request (50)
  CompactKeep,   \* messages kept by /compact (20)
  MaxReplies,    \* bound: messages an agent run adds to the conversation
  MaxMsgs,       \* bound: messages of all conversations
  MaxCrashes     \* bound: crashes of the gateway

VARIABLES
  store,     \* store_: per key its entry or Absent
  storeFile, \* sessions.json
  file,      \* per session id its transcript
  archived,  \* messages in transcripts that a reset has renamed
  saving,    \* a thread is in SaveStore, holding mutex_
  up,        \* the gateway runs
  pc,        \* per thread: the next call of its handler
  raw,       \* per thread: sessionKey of its request
  ask,       \* per thread: its user message
  seen,      \* per thread: the messages /compact has yet to append again
  todo,      \* per thread: the replies it has yet to append
  since,     \* history, per thread: its session since its own message
  ids,       \* session ids generated so far
  sent,      \* number of messages so far; they are numbered
  replyTo,   \* per message: the question it answers, or 0
  hist       \* history of events that the properties need

requestVars == <<pc, raw, ask, seen, todo, since>>
diskVars    == <<storeFile, file, archived>>
sessionVars == <<store, diskVars, saving, up, requestVars, ids, sent, replyTo,
                 hist>>

Spelling == Key \cup Alias
Msg == 1 .. MaxMsgs

(* What is left of a message whose line was cut off.                       *)
Part == 0

Entry == [id : Sid, name : {"key", "given"}]

ASSUME SessionsAssumption ==
  /\ Normal \in [Key \cup Alias -> Key]
  /\ \A k \in Key : Normal[k] = k
  /\ Key \cap Alias = {}
  /\ NoKey \notin Key \cup Alias
  /\ {HistoryLimit, CompactKeep} \subseteq Nat \ {0}
  /\ {MaxReplies, MaxMsgs, MaxCrashes} \subseteq Nat
  /\ Absent \notin Entry
  /\ TornStore \notin [Key -> Entry \cup {Absent}]

(* A transcript, and whether its last line lacks the newline.              *)
Transcript == [lines : Seq(SUBSET (Msg \cup {Part})), cut : BOOLEAN]

NoFile == [lines |-> <<>>, cut |-> FALSE]

Pc == {"idle", "list", "title", "append", "history", "agent", "reply",
       "compact_reset", "compact_append"}

-----------------------------------------------------------------------------
(* Transcripts *)

(* Mutant: the line is not ended.                                          *)
Written_NoNewline(f, piece, whole) ==
  [lines |-> IF f.cut THEN Front(f.lines) \o <<Last(f.lines) \cup {piece}>>
                      ELSE Append(f.lines, {piece}),
   cut   |-> TRUE]

(* Appending to a file that ends in the middle of a line goes on with that *)
(* line.                                                                   *)
Written(f, piece, whole) ==
  [lines |-> IF f.cut THEN Front(f.lines) \o <<Last(f.lines) \cup {piece}>>
                      ELSE Append(f.lines, {piece}),
   cut   |-> ~whole]

InFile(f) == (UNION {f.lines[i] : i \in 1 .. Len(f.lines)}) \ {Part}

Parses(line) == Cardinality(line) = 1 /\ line # {Part}

(* The messages GetHistory can parse, in their order.                      *)
Messages(f) ==
  LET upTo[i \in 0 .. Len(f.lines)] ==
        IF i = 0 THEN <<>>
        ELSE IF Parses(f.lines[i])
             THEN Append(upTo[i - 1], CHOOSE m \in f.lines[i] : TRUE)
             ELSE upTo[i - 1]
  IN  upTo[Len(f.lines)]

LastN(s, n) == IF Len(s) > n THEN SubSeq(s, Len(s) - n + 1, Len(s)) ELSE s

History(k) == IF store[k] = Absent THEN <<>> ELSE Messages(file[store[k].id])

(* Mutant: the message that was just appended stays in the context.        *)
ContextOf_KeepsOwn(k) == LastN(History(k), HistoryLimit)

(* What a request gives to the agent beside its own message: the last      *)
(* messages but the last of all.                                           *)
ContextOf(k) == LET h == LastN(History(k), HistoryLimit)
                IN  IF h = <<>> THEN h ELSE Front(h)

-----------------------------------------------------------------------------
(* SessionManager.  Each of these holds mutex_, so none of them starts     *)
(* while another one saves.                                                *)

Unlocked == up /\ ~saving

FreshSid == Sid \ ids

SaveStore ==
  /\ up
  /\ saving
  /\ storeFile' = store
  /\ saving' = FALSE
  /\ UNCHANGED <<store, file, archived, up, requestVars, ids, sent, replyTo,
                 hist>>

(* The entry of a new session.                                             *)
Create(k) ==
  \E s \in FreshSid :
    /\ store' = [store EXCEPT ![k] = [id |-> s, name |-> "key"]]
    /\ ids' = ids \cup {s}

(* Mutant: a new session is not saved at once.                             *)
GetOrCreate_NoSave(k) ==
  /\ IF store[k] # Absent THEN UNCHANGED <<store, ids>> ELSE Create(k)
  /\ saving' = FALSE

(* Mutant: an existing session is replaced.                                *)
GetOrCreate_AlwaysNew(k) == Create(k) /\ saving' = TRUE

GetOrCreate(k) ==
  IF store[k] # Absent
  THEN UNCHANGED <<store, ids, saving>>
  ELSE Create(k) /\ saving' = TRUE

(* AppendMessage: nothing happens if the session is gone.  The first copy  *)
(* of a message that is written completely counts as appended.             *)
AppendMessage(k, m) ==
  IF store[k] = Absent
  THEN UNCHANGED <<file, saving>>
  ELSE /\ file' = [file EXCEPT ![store[k].id] = Written(@, m, TRUE)]
       /\ saving' = TRUE

(* Mutant: store_[key] is written without looking the key up.              *)
UpdateDisplayName_Inserts(k) ==
  /\ store' = [store EXCEPT ![k] =
                 IF @ = Absent THEN [id |-> Absent, name |-> "given"]
                               ELSE [@ EXCEPT !.name = "given"]]
  /\ saving' = TRUE

UpdateDisplayName(k) ==
  IF store[k] = Absent
  THEN UNCHANGED <<store, saving>>
  ELSE /\ store' = [store EXCEPT ![k].name = "given"]
       /\ saving' = TRUE

(* Mutant: the old transcript is removed.                                  *)
Archive_Removes(k) ==
  /\ file' = [file EXCEPT ![store[k].id] = NoFile]
  /\ UNCHANGED archived

(* The old transcript is renamed; two resets of one id come in different   *)
(* seconds, so that archives do not replace each other.                    *)
Archive(k) ==
  /\ archived' = archived \cup InFile(file[store[k].id])
  /\ file' = [file EXCEPT ![store[k].id] = NoFile]

ResetSession(k) ==
  IF store[k] = Absent
  THEN UNCHANGED <<store, ids, file, archived, saving>>
  ELSE /\ Archive(k)
       /\ \E s \in FreshSid :
            /\ store' = [store EXCEPT ![k].id = s]
            /\ ids' = ids \cup {s}
       /\ saving' = TRUE

-----------------------------------------------------------------------------
(* What the properties remember: messages appended and deleted, replies    *)
(* and copies that came to a conversation other than that of the question, *)
(* and lines and stores cut off by crashes.                                *)

Happenings ==
  [appended : SUBSET Msg, deleted : SUBSET Msg, loose : SUBSET Msg,
   cuts : Nat, wiped : BOOLEAN, crashes : Nat]

Serves(u, k) == raw[u] # NoKey /\ Normal[raw[u]] = k

(* Thread t has appended to k.                                             *)
Shared(k, t) ==
  [u \in Requester |-> IF u # t /\ Serves(u, k) /\ since[u] = "alone"
                       THEN "shared" ELSE since[u]]

(* The conversation of k was reset or deleted.                             *)
Moved(k) ==
  [u \in Requester |-> IF Serves(u, k) THEN "moved" ELSE since[u]]

NoteAppend(k, m) ==
  IF store[k] = Absent THEN hist.appended ELSE hist.appended \cup {m}

-----------------------------------------------------------------------------
(* A request to the agent: agent.request, chat.send, /api/agent/request,   *)
(* /api/agent/stream, /api/channel/message.                                *)

(* The next call of the handler; after the last one the thread is free.    *)
GoOn(t, where) == pc' = [pc EXCEPT ![t] = where]

Leave(t, last, where, s) ==
  /\ pc' = [pc EXCEPT ![t] = IF last THEN "idle" ELSE where]
  /\ raw' = [raw EXCEPT ![t] = IF last THEN NoKey ELSE @]
  /\ ask' = [ask EXCEPT ![t] = IF last THEN 0 ELSE @]
  /\ since' = [s EXCEPT ![t] = IF last THEN "alone" ELSE @]

(* chat.send does not give the session a title.                            *)
Request(t, r) ==
  /\ Unlocked
  /\ pc[t] = "idle"
  /\ sent < MaxMsgs
  /\ GetOrCreate(Normal[r])
  /\ raw' = [raw EXCEPT ![t] = r]
  /\ \E where \in {"list", "append"} : GoOn(t, where)
  /\ UNCHANGED <<diskVars, up, ask, seen, todo, since, sent, replyTo, hist>>

(* The handler compares the normalized keys of the list with the spelling  *)
(* of the client.                                                          *)
ListSessions(t) ==
  /\ Unlocked
  /\ pc[t] = "list"
  /\ LET untitled == /\ raw[t] \in Key
                     /\ store[raw[t]] # Absent
                     /\ store[raw[t]].name = "key"
     IN  GoOn(t, IF untitled THEN "title" ELSE "append")
  /\ UNCHANGED <<store, diskVars, saving, up, raw, ask, seen, todo, since, ids,
                 sent, replyTo, hist>>

SetTitle(t) ==
  /\ Unlocked
  /\ pc[t] = "title"
  /\ UpdateDisplayName(Normal[raw[t]])
  /\ GoOn(t, "append")
  /\ UNCHANGED <<diskVars, up, raw, ask, seen, todo, since, ids, sent, replyTo,
                 hist>>

(* The user's message.  If the session has been deleted it is dropped and  *)
(* the request goes on.                                                    *)
AppendUser(t) ==
  /\ Unlocked
  /\ pc[t] = "append"
  /\ sent < MaxMsgs
  /\ LET k == Normal[raw[t]]
         m == sent + 1
     IN  /\ AppendMessage(k, m)
         /\ ask' = [ask EXCEPT ![t] = m]
         /\ hist' = [hist EXCEPT !.appended = NoteAppend(k, m)]
         /\ since' = [Shared(k, t) EXCEPT ![t] =
                         IF store[k] = Absent THEN "moved" ELSE "alone"]
  /\ sent' = sent + 1
  /\ GoOn(t, "history")
  /\ UNCHANGED <<store, storeFile, archived, up, raw, seen, todo, ids, replyTo>>

(* The context is read, and the agent runs with it.                        *)
GetHistory(t) ==
  /\ Unlocked
  /\ pc[t] = "history"
  /\ GoOn(t, "agent")
  /\ UNCHANGED <<store, diskVars, saving, up, raw, ask, seen, todo, since, ids,
                 sent, replyTo, hist>>

(* The agent loop returns some new messages, or none if it failed.         *)
AgentReturns(t) ==
  /\ up
  /\ pc[t] = "agent"
  /\ \E n \in 0 .. MaxReplies :
       /\ todo' = [todo EXCEPT ![t] = n]
       /\ Leave(t, n = 0, "reply", since)
  /\ UNCHANGED <<store, diskVars, saving, up, seen, ids, sent, replyTo, hist>>

AppendReply(t) ==
  /\ Unlocked
  /\ pc[t] = "reply"
  /\ sent < MaxMsgs
  /\ LET k == Normal[raw[t]]
         m == sent + 1
     IN  /\ AppendMessage(k, m)
         /\ replyTo' = [replyTo EXCEPT ![m] = ask[t]]
         /\ hist' = [hist EXCEPT
              !.appended = NoteAppend(k, m),
              !.loose = IF since[t] = "moved" THEN @ \cup {m} ELSE @]
         /\ Leave(t, todo[t] = 1, "reply", Shared(k, t))
  /\ sent' = sent + 1
  /\ todo' = [todo EXCEPT ![t] = @ - 1]
  /\ UNCHANGED <<store, storeFile, archived, up, seen, ids>>

-----------------------------------------------------------------------------
(* The commands of clients *)

(* sessions.delete, /api/sessions/delete                                   *)
DeleteSession(k) ==
  /\ Unlocked
  /\ store[k] # Absent
  /\ file' = [file EXCEPT ![store[k].id] = NoFile]
  /\ store' = [store EXCEPT ![k] = Absent]
  /\ saving' = TRUE
  /\ hist' = [hist EXCEPT !.deleted = @ \cup InFile(file[store[k].id])]
  /\ since' = Moved(k)
  /\ UNCHANGED <<storeFile, archived, up, pc, raw, ask, seen, todo, ids, sent,
                 replyTo>>

(* sessions.reset, /api/sessions/reset, /new and /reset                    *)
Reset(k) ==
  /\ Unlocked
  /\ store[k] # Absent
  /\ ResetSession(k)
  /\ since' = Moved(k)
  /\ UNCHANGED <<storeFile, up, pc, raw, ask, seen, todo, sent, replyTo, hist>>

(* sessions.patch                                                          *)
Patch(k) ==
  /\ Unlocked
  /\ store[k] # Absent
  /\ UpdateDisplayName(k)
  /\ UNCHANGED <<diskVars, up, requestVars, ids, sent, replyTo, hist>>

(* /compact: the history is read, the session is reset and the last        *)
(* messages are appended again, each under mutex_ but not all together.    *)
CompactRead(t, r) ==
  /\ Unlocked
  /\ pc[t] = "idle"
  /\ Len(History(Normal[r])) > CompactKeep
  /\ seen' = [seen EXCEPT ![t] = LastN(History(Normal[r]), CompactKeep)]
  /\ raw' = [raw EXCEPT ![t] = r]
  /\ GoOn(t, "compact_reset")
  /\ UNCHANGED <<store, diskVars, saving, up, ask, todo, since, ids, sent,
                 replyTo, hist>>

CompactReset(t) ==
  /\ Unlocked
  /\ pc[t] = "compact_reset"
  /\ ResetSession(Normal[raw[t]])
  /\ since' = Moved(Normal[raw[t]])
  /\ GoOn(t, "compact_append")
  /\ UNCHANGED <<storeFile, up, raw, ask, seen, todo, sent, replyTo, hist>>

CompactAppend(t) ==
  /\ Unlocked
  /\ pc[t] = "compact_append"
  /\ LET k == Normal[raw[t]]
     IN  /\ AppendMessage(k, Head(seen[t]))
         /\ hist' = [hist EXCEPT !.loose = @ \cup {Head(seen[t])}]
         /\ Leave(t, Len(seen[t]) = 1, "compact_append", Shared(k, t))
  /\ seen' = [seen EXCEPT ![t] = Tail(@)]
  /\ UNCHANGED <<store, storeFile, archived, up, todo, ids, sent, replyTo>>

-----------------------------------------------------------------------------
(* Crashes *)

GoDown(cuts, loose) ==
  /\ hist.crashes < MaxCrashes
  /\ up' = FALSE
  /\ saving' = FALSE
  /\ store' = [k \in Key |-> Absent]
  /\ pc' = [t \in Requester |-> "idle"]
  /\ raw' = [t \in Requester |-> NoKey]
  /\ ask' = [t \in Requester |-> 0]
  /\ seen' = [t \in Requester |-> <<>>]
  /\ todo' = [t \in Requester |-> 0]
  /\ since' = [t \in Requester |-> "alone"]
  /\ hist' = [hist EXCEPT !.crashes = @ + 1, !.cuts = @ + cuts,
                          !.loose = @ \cup loose]
  /\ UNCHANGED <<ids, replyTo>>

(* A crash during SaveStore comes before sessions.json was opened or after *)
(* it was truncated.                                                       *)
Crash ==
  /\ up
  /\ storeFile' \in IF saving THEN {storeFile, TornStore} ELSE {storeFile}
  /\ GoDown(0, {})
  /\ UNCHANGED <<file, archived, sent>>

(* A crash while a message is written leaves a part of its line, or all of *)
(* it but the newline.  The message is a new one, or one that /compact     *)
(* appends again.                                                          *)
CrashInAppend(t) ==
  /\ Unlocked
  /\ pc[t] \in {"append", "reply", "compact_append"}
  /\ store[Normal[raw[t]]] # Absent
  /\ \E m \in Msg, piece \in Msg \cup {Part} :
       /\ \/ /\ pc[t] # "compact_append"
             /\ m = sent + 1 /\ sent' = m /\ GoDown(1, {})
          \/ /\ pc[t] = "compact_append"
             /\ m = Head(seen[t]) /\ sent' = sent /\ GoDown(1, {m})
       /\ piece \in {Part, m}
       /\ file' = [file EXCEPT ![store[Normal[raw[t]]].id] =
                     Written(@, piece, FALSE)]
  /\ UNCHANGED <<storeFile, archived>>

(* The exception of the parser is caught: store_ stays empty.              *)
LoadStore ==
  /\ store' = IF storeFile = TornStore THEN [k \in Key |-> Absent] ELSE storeFile
  /\ UNCHANGED diskVars

Restart ==
  /\ ~up
  /\ LoadStore
  /\ up' = TRUE
  /\ hist' = [hist EXCEPT !.wiped = @ \/ storeFile = TornStore]
  /\ UNCHANGED <<saving, requestVars, ids, sent, replyTo>>

-----------------------------------------------------------------------------
SessionsInit ==
  /\ store = [k \in Key |-> Absent]
  /\ storeFile = [k \in Key |-> Absent]
  /\ file = [s \in Sid |-> NoFile]
  /\ archived = {}
  /\ saving = FALSE
  /\ up = TRUE
  /\ pc = [t \in Requester |-> "idle"]
  /\ raw = [t \in Requester |-> NoKey]
  /\ ask = [t \in Requester |-> 0]
  /\ seen = [t \in Requester |-> <<>>]
  /\ todo = [t \in Requester |-> 0]
  /\ ids = {}
  /\ sent = 0
  /\ replyTo = [m \in Msg |-> 0]
  /\ hist = [appended |-> {}, deleted |-> {}, loose |-> {}, cuts |-> 0,
             wiped |-> FALSE, crashes |-> 0]
  /\ since = [t \in Requester |-> "alone"]

SessionsNext ==
  \/ SaveStore \/ Crash \/ Restart
  \/ \E k \in Key : DeleteSession(k) \/ Reset(k) \/ Patch(k)
  \/ \E t \in Requester :
       \/ ListSessions(t) \/ SetTitle(t) \/ AppendUser(t) \/ GetHistory(t)
       \/ AgentReturns(t) \/ AppendReply(t)
       \/ CompactReset(t) \/ CompactAppend(t) \/ CrashInAppend(t)
       \/ \E r \in Spelling : Request(t, r) \/ CompactRead(t, r)

-----------------------------------------------------------------------------
(* Properties *)

(* Types; an id is given to one session at a time, and mutex_ is free in a *)
(* gateway that is down.                                                   *)
SessionsTypeOK ==
  /\ store \in [Key -> Entry \cup {Absent}]
  /\ storeFile \in [Key -> Entry \cup {Absent}] \cup {TornStore}
  /\ file \in [Sid -> Transcript]
  /\ archived \subseteq Msg
  /\ {saving, up} \subseteq BOOLEAN
  /\ ~up => ~saving
  /\ pc \in [Requester -> Pc]
  /\ raw \in [Requester -> Spelling \cup {NoKey}]
  /\ ask \in [Requester -> 0 .. MaxMsgs]
  /\ seen \in [Requester -> Seq(Msg)]
  /\ todo \in [Requester -> 0 .. MaxReplies]
  /\ ids \subseteq Sid
  /\ sent \in 0 .. MaxMsgs
  /\ replyTo \in [Msg -> 0 .. MaxMsgs]
  /\ hist \in Happenings
  /\ since \in [Requester -> {"alone", "shared", "moved"}]
  /\ \A k, l \in Key :
       store[k] # Absent /\ store[l] # Absent /\ store[k].id = store[l].id
         => k = l

(* A message that was appended stays on disk, in a transcript or in an     *)
(* archive, until its session is deleted: no reset, compaction, crash or   *)
(* unreadable sessions.json erases it.                                     *)
NothingErased ==
  \A m \in hist.appended \ hist.deleted :
    m \in archived \/ \E s \in Sid : m \in InFile(file[s])

(* Every transcript belongs to a session that clients can name, in spite   *)
(* of crashes between the writes of the two files, unless a crash has made *)
(* sessions.json unreadable.                                               *)
NoOrphans ==
  up /\ ~hist.wiped =>
    \A s \in Sid :
      file[s] # NoFile => \E k \in Key : store[k] # Absent /\ store[k].id = s

\* The messages that a transcript of a session should give back.  What was
\* archived or deleted is there at most as a copy, of a compaction.
Owed == hist.appended \ (archived \cup hist.deleted)

Unreadable ==
  {m \in Owed :
     \E s \in Sid : \E i \in 1 .. Len(file[s].lines) :
       m \in file[s].lines[i] /\ ~Parses(file[s].lines[i])}

(* A crash in the middle of a line makes at most one message unreadable    *)
(* beside the one that was being written: the next one of the session.     *)
CutLosesOne == Cardinality(Unreadable) <= hist.cuts

(* The transcripts survive what happens to the gateway: the parts above.   *)
TranscriptsKept == SessionsTypeOK /\ NothingErased /\ NoOrphans /\ CutLosesOne

(* A reply stands below its question, unless the conversation was reset,   *)
(* deleted or compacted while the agent ran.                               *)
ReplyFollowsQuestion ==
  \A s \in Sid : \A i \in 1 .. Len(file[s].lines) :
    \A m \in file[s].lines[i] \ ({Part} \cup hist.loose) :
      replyTo[m] # 0 => \E j \in 1 .. i - 1 : replyTo[m] \in file[s].lines[j]

(* The context of a request that has its session to itself is the end of   *)
(* the conversation without the message of the request.                    *)
ContextExact ==
  \A t \in Requester :
    pc[t] = "history" /\ since[t] = "alone"
      /\ Contains(History(Normal[raw[t]]), ask[t])
    => Append(ContextOf(Normal[raw[t]]), ask[t])
         = LastN(History(Normal[raw[t]]), HistoryLimit)

(* What a request is given and where its replies go: the parts above.      *)
RequestsSound == ReplyFollowsQuestion /\ ContextExact
=============================================================================
