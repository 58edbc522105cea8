--------------------------- MODULE ServicesProofs ---------------------------
(***************************************************************************)
(* Proofs about the services the agents share, each for every value of     *)
(* its constants: the browser session, the exec and process tools, the     *)
(* gateway process and its reloads, the credentials, the plugins with      *)
(* their hooks, the skills, and the tool registry with its chains.         *)
(***************************************************************************)
EXTENDS ToolRuntime, Toolbox, Browser, GatewayProcess, Auth, Plugins, Skills,
        FiniteSetTheorems, SequenceTheorems, WellFoundedInduction, TLAPS

-----------------------------------------------------------------------------
(***************************************************************************)
(* Browser.                                                                *)
(***************************************************************************)
(* A browser session on its own.                                           *)
BrowserSpec == BrowserInit /\ [][BrowserNext]_browserVars

BrowserOp == Hosts \cup {"evaluate", "none"}

BrowserMessage ==
  [id : Nat, op : BrowserOp, to : {"browser", "session"}, reply : {"none", "result", "error"}]

CallRecord ==
  [pc : {"idle", "send", "registered", "wait", "use"}, op : BrowserOp, id : Nat,
   result : {"none", "empty", "result"}, of : Nat \X BrowserOp]

(* Types of what the calls and the DevTools socket share.                  *)
BrowserTypes ==
  /\ brIds \in Nat
  /\ brWire \subseteq BrowserMessage
  /\ brCall \in [BrowserThread -> CallRecord]

InFlight(t) == brCall[t].pc \in {"registered", "wait"}

(* The ids of the calls in flight were handed out, and to one call each.   *)
IdsUnique ==
  /\ \A t \in BrowserThread : InFlight(t) => brCall[t].id <= brIds
  /\ \A t, u \in BrowserThread : InFlight(t) /\ InFlight(u) /\ brCall[t].id = brCall[u].id => t = u

(* What is on the wire, or stored, under the id of a call in flight is     *)
(* about the operation of that call.                                       *)
About(m, i) == \A t \in BrowserThread : InFlight(t) /\ brCall[t].id = i => m.op = brCall[t].op

WireMatches == \A m \in brWire : m.id <= brIds /\ About(m, m.id)

StoredMatches == \A i \in DOMAIN brReplies : brReplies[i].id = i /\ About(brReplies[i], i)

(* Only a call that has taken a reply has a result.                        *)
ResultTaken == \A t \in BrowserThread : brCall[t].pc # "use" => brCall[t].result = "none"

BrowserInv ==
  /\ BrowserTypes /\ RepliesMatched
  /\ IdsUnique /\ WireMatches /\ StoredMatches /\ ResultTaken

(* Nothing is under way in a new session.                                  *)
LEMMA BrowserInitInv == BrowserInit => BrowserInv
<1> SUFFICES ASSUME BrowserInit PROVE BrowserInv
  OBVIOUS
<1> USE DEF BrowserInit, NoBrowserCall
<1>1. BrowserTypes
  BY DEF BrowserTypes, BrowserMessage, BrowserOp, CallRecord
<1>2. RepliesMatched /\ IdsUnique /\ WireMatches /\ StoredMatches /\ ResultTaken
  BY DEF RepliesMatched, IdsUnique, WireMatches, StoredMatches, ResultTaken, InFlight
<1> QED
  BY <1>1, <1>2 DEF BrowserInv

(* The owner's calls, the socket's opening and closing: they touch neither *)
(* the calls nor the stored replies, and only lose what is on the wire.    *)
LEMMA LinkInv ==
  ASSUME BrowserInv, brWire' \subseteq brWire, UNCHANGED <<brIds, brPending, brReplies, brCall>>
  PROVE  BrowserInv'
BY DEF BrowserInv, BrowserTypes, RepliesMatched, IdsUnique, WireMatches, StoredMatches,
       ResultTaken, InFlight, About

(* The browser's answer is about the request it answers.                   *)
LEMMA BrowserAnswersInv ==
  ASSUME BrowserInv, NEW m \in brWire, NEW r \in {"result", "error"}, BrowserAnswers(m, r)
  PROVE  BrowserInv'
<1> USE DEF BrowserInv, BrowserAnswers
<1> DEFINE n == [m EXCEPT !.to = "session", !.reply = r]
<1>1. n \in BrowserMessage /\ n.id = m.id /\ n.op = m.op
  BY DEF BrowserTypes, BrowserMessage
<1> HIDE DEF n
<1>2. brWire' = (brWire \ {m}) \cup {n} /\ UNCHANGED <<brIds, brPending, brReplies, brCall>>
  BY DEF n
<1>3. BrowserTypes' /\ WireMatches'
  BY <1>1, <1>2 DEF BrowserTypes, WireMatches, About, InFlight
<1> QED
  BY <1>2, <1>3 DEF RepliesMatched, IdsUnique, StoredMatches, ResultTaken, About, InFlight

(* The message callback stores a reply only for a call that is in flight.  *)
LEMMA OnMessageInv ==
  ASSUME BrowserInv, NEW m \in brWire, OnMessage(m)
  PROVE  BrowserInv'
<1> USE DEF BrowserInv, OnMessage, Store
<1>1. BrowserTypes' /\ WireMatches' /\ IdsUnique' /\ ResultTaken'
  BY DEF BrowserTypes, WireMatches, IdsUnique, ResultTaken, About, InFlight
<1>2. StoredMatches'
  BY DEF StoredMatches, WireMatches, About, InFlight
<1>3. RepliesMatched'
  BY DEF RepliesMatched
<1> QED
  BY <1>1, <1>2, <1>3

(* A step of thread t that leaves the session's maps alone, before its     *)
(* call is registered or after it is forgotten.                            *)
LEMMA OutOfFlightInv ==
  ASSUME BrowserInv, NEW t \in BrowserThread, ~ InFlight(t), ~ InFlight(t)',
         UNCHANGED cdpVars, BrowserTypes',
         \A u \in BrowserThread \ {t} : brCall'[u] = brCall[u],
         brCall'[t].result # "result",
         brCall'[t].pc # "use" => brCall'[t].result = "none"
  PROVE  BrowserInv'
<1> USE DEF BrowserInv, cdpVars
<1>1. \A u \in BrowserThread : InFlight(u)' = InFlight(u) /\ (InFlight(u) => brCall'[u] = brCall[u])
  BY DEF InFlight
<1>2. RepliesMatched'
  <2>1. brPending' = {brCall'[u].id : u \in {v \in BrowserThread : InFlight(v)'}}
    BY <1>1 DEF RepliesMatched, InFlight
  <2> QED
    BY <2>1 DEF RepliesMatched, InFlight
<1>3. IdsUnique' /\ WireMatches' /\ StoredMatches'
  BY <1>1 DEF IdsUnique, WireMatches, StoredMatches, About
<1>4. ResultTaken'
  BY DEF ResultTaken
<1> QED
  BY <1>2, <1>3, <1>4

(* An operation begins; or its send finds no connection; or its result has *)
(* been used.                                                              *)
LEMMA OutsideInv ==
  ASSUME BrowserInv, NEW t \in BrowserThread, NEW op \in Hosts \cup {"evaluate"},
         Execute(t, op) \/ NotConnected(t) \/ CallReturns(t)
  PROVE  BrowserInv'
<1> USE DEF Execute, NotConnected, CallReturns, NoBrowserCall
<1>1. BrowserTypes' /\ UNCHANGED cdpVars
  BY DEF BrowserInv, BrowserTypes, BrowserOp, CallRecord, cdpVars
<1>2. ~ InFlight(t) /\ ~ InFlight(t)'
  BY DEF InFlight, BrowserInv, BrowserTypes, CallRecord
<1>3. /\ \A u \in BrowserThread \ {t} : brCall'[u] = brCall[u]
      /\ brCall'[t].result # "result"
      /\ brCall'[t].pc # "use" => brCall'[t].result = "none"
  BY DEF BrowserInv, BrowserTypes, CallRecord, ResultTaken
<1> QED
  BY <1>1, <1>2, <1>3, OutOfFlightInv

(* cdp_send takes the next id, which nothing on the wire has.              *)
LEMMA RegisterInv ==
  ASSUME BrowserInv, NEW t \in BrowserThread, Register(t)
  PROVE  BrowserInv'
<1> USE DEF BrowserInv, Register
<1> DEFINE c == [brCall[t] EXCEPT !.pc = "registered", !.id = brIds + 1]
<1>0. c \in CallRecord /\ brCall' = [brCall EXCEPT ![t] = c]
  <2>1. brCall[t] \in CallRecord /\ brIds + 1 \in Nat
    BY DEF BrowserTypes
  <2>2. c \in CallRecord
    BY <2>1 DEF CallRecord
  <2> QED
    BY <2>2 DEF BrowserTypes
<1> HIDE DEF c
<1>1. BrowserTypes'
  <2>1. brCall' \in [BrowserThread -> CallRecord]
    BY <1>0 DEF BrowserTypes
  <2> QED
    BY <2>1 DEF BrowserTypes
<1>2. /\ brCall'[t] = [brCall[t] EXCEPT !.pc = "registered", !.id = brIds + 1]
      /\ \A u \in BrowserThread \ {t} : brCall'[u] = brCall[u]
      /\ ~ InFlight(t)
  BY <1>0 DEF BrowserTypes, CallRecord, InFlight, c
<1>3. /\ brCall'[t].pc = "registered" /\ brCall'[t].id = brIds + 1
      /\ brCall'[t].result = "none"
  BY <1>2 DEF BrowserTypes, CallRecord, ResultTaken
<1>4. RepliesMatched'
  <2>1. brPending' = {brCall'[u].id : u \in {v \in BrowserThread : brCall'[v].pc \in {"registered", "wait"}}}
    <3>1. brPending = {brCall[u].id : u \in {v \in BrowserThread : InFlight(v)}}
      BY DEF RepliesMatched, InFlight
    <3>2. \A u \in BrowserThread : InFlight(u)' <=> InFlight(u) \/ u = t
      BY <1>2, <1>3 DEF InFlight
    <3>3. brPending' = {brCall'[u].id : u \in {v \in BrowserThread : InFlight(v)'}}
      <4>1. \A u \in BrowserThread : InFlight(u) => u # t /\ brCall'[u].id = brCall[u].id
        BY <1>2
      <4>2. \A i : i \in brPending <=> \E u \in BrowserThread : InFlight(u) /\ i = brCall[u].id
        BY <3>1
      <4>3. \A i : i \in brPending' <=> i \in brPending \/ i = brIds + 1
        OBVIOUS
      <4>4. \A i : i \in brPending' <=> \E u \in BrowserThread : InFlight(u)' /\ i = brCall'[u].id
        <5>1. InFlight(t)' /\ brCall'[t].id = brIds + 1
          BY <1>3, <3>2
        <5>2. \A u \in BrowserThread \ {t} :
                InFlight(u)' = InFlight(u) /\ brCall'[u].id = brCall[u].id
          BY <1>2 DEF InFlight
        <5>3. ~ InFlight(t)
          BY <1>2
        <5> HIDE DEF InFlight, BrowserInv, Register
        <5> QED
          BY <4>2, <4>3, <5>1, <5>2, <5>3, ZenonT(60)
      <4> QED
        BY <4>4
    <3> QED
      BY <3>3 DEF InFlight
  <2> QED
    BY ZenonT(60), <1>2, <1>3, <2>1 DEF RepliesMatched
<1>5. IdsUnique'
  BY <1>2, <1>3 DEF IdsUnique, InFlight, BrowserTypes, CallRecord
<1>6. WireMatches' /\ ResultTaken'
  BY <1>2, <1>3 DEF WireMatches, ResultTaken, About, InFlight, BrowserTypes, BrowserMessage, CallRecord
<1>7. \A i \in DOMAIN brReplies : i \in Nat /\ i <= brIds
  BY DEF RepliesMatched, IdsUnique, BrowserTypes, CallRecord, InFlight
<1>8. StoredMatches'
  BY <1>2, <1>3, <1>7 DEF StoredMatches, About, InFlight, BrowserTypes
<1> QED
  BY <1>1, <1>4, <1>5, <1>6, <1>8

(* The request goes out under the call's id, or is lost.                   *)
LEMMA SendInv ==
  ASSUME BrowserInv, NEW t \in BrowserThread, Send(t)
  PROVE  BrowserInv'
<1> USE DEF BrowserInv, Send
<1>1. BrowserTypes'
  BY DEF BrowserTypes, BrowserMessage, CallRecord
<1>2. \A u \in BrowserThread :
        /\ InFlight(u)' = InFlight(u) /\ brCall'[u].id = brCall[u].id
        /\ brCall'[u].op = brCall[u].op /\ brCall'[u].result = brCall[u].result
        /\ brCall'[u].of = brCall[u].of
        /\ brCall'[u].pc = "use" <=> brCall[u].pc = "use"
  BY DEF BrowserTypes, InFlight
<1>3. InFlight(t)
  BY DEF InFlight
<1>4. WireMatches'
  <2>1. \A m \in brWire' : m \in brWire \/ (m.id = brCall[t].id /\ m.op = brCall[t].op)
    OBVIOUS
  <2> QED
    BY <1>2, <1>3, <2>1 DEF WireMatches, About, IdsUnique
<1>5. RepliesMatched'
  <2>1. brPending' = {brCall'[u].id : u \in {v \in BrowserThread : InFlight(v)'}}
    BY <1>2 DEF RepliesMatched, InFlight
  <2> QED
    BY <1>2, <2>1 DEF RepliesMatched, InFlight
<1>6. IdsUnique' /\ StoredMatches' /\ ResultTaken'
  BY <1>2 DEF IdsUnique, StoredMatches, ResultTaken, About
<1> QED
  BY <1>1, <1>4, <1>5, <1>6

(* A call ends with its reply or without one, and its id is forgotten.     *)
LEMMA EndsInv ==
  ASSUME BrowserInv, NEW t \in BrowserThread, Answered(t) \/ TimesOut(t)
  PROVE  BrowserInv'
<1> USE DEF BrowserInv
<1>1. /\ Forget(brCall[t].id) /\ brCall[t].pc = "wait" /\ UNCHANGED <<brIds, brWire>>
      /\ \A u \in BrowserThread \ {t} : brCall'[u] = brCall[u]
  BY DEF Answered, TimesOut, BrowserTypes
<1>2. /\ brCall'[t].pc = "use" /\ BrowserTypes'
      /\ brCall'[t].result = "result" => brCall'[t].of = <<brCall'[t].id, brCall'[t].op>>
  <2>1. CASE Answered(t)
    <3>1. brReplies[brCall[t].id].id = brCall[t].id /\ brReplies[brCall[t].id].op = brCall[t].op
      BY <1>1, <2>1 DEF Answered, StoredMatches, About, InFlight
    <3> DEFINE c == [brCall[t] EXCEPT !.pc = "use",
             !.result = IF brReplies[brCall[t].id].reply = "error" THEN "empty" ELSE "result",
             !.of = <<brCall[t].id, brCall[t].op>>]
    <3>2. brCall[t] \in CallRecord
      BY DEF BrowserTypes
    <3>3. c \in CallRecord
      BY <3>2 DEF CallRecord
    <3>4. /\ c.pc = "use"
          /\ c.result = "result" => c.of = <<c.id, c.op>>
      BY <3>2 DEF CallRecord
    <3>5. brCall' = [brCall EXCEPT ![t] = c]
      BY <2>1, <3>1, <3>2 DEF Answered, BrowserTypes
    <3> HIDE DEF c
    <3>6. brCall' \in [BrowserThread -> CallRecord] /\ brCall'[t] = c
      BY <3>3, <3>5 DEF BrowserTypes
    <3> QED
      BY <1>1, <3>4, <3>6 DEF BrowserTypes
  <2>2. CASE TimesOut(t)
    BY ZenonT(60), <1>1, <2>2 DEF TimesOut, BrowserTypes, CallRecord
  <2> QED
    BY <2>1, <2>2
<1>3. \A u \in BrowserThread :
        /\ InFlight(u)' <=> InFlight(u) /\ u # t
        /\ InFlight(u)' => brCall'[u] = brCall[u] /\ brCall[u].id # brCall[t].id
  BY <1>1, <1>2 DEF InFlight, IdsUnique
<1>4. RepliesMatched'
  <2>1. brPending' = {brCall'[u].id : u \in {v \in BrowserThread : InFlight(v)'}}
    <3>1. brPending = {brCall[u].id : u \in {v \in BrowserThread : InFlight(v)}}
      BY DEF RepliesMatched, InFlight
    <3>2. InFlight(t)
      BY <1>1 DEF InFlight
    <3> QED
      BY <1>1, <1>3, <3>1, <3>2 DEF Forget
  <2>2. DOMAIN brReplies' \subseteq brPending'
    BY <1>1 DEF Forget, RepliesMatched
  <2> QED
    BY <1>1, <1>2, <2>1, <2>2 DEF RepliesMatched, InFlight
<1>5. IdsUnique' /\ WireMatches' /\ StoredMatches'
  BY <1>1, <1>3 DEF IdsUnique, WireMatches, StoredMatches, About, Forget
<1>6. ResultTaken'
  BY <1>1, <1>2 DEF ResultTaken
<1> QED
  BY <1>2, <1>4, <1>5, <1>6

(* The maps of the session hold exactly what its waiting calls need, and a *)
(* call takes the reply to its own request, for any number of threads,     *)
(* drops and restarts (browser_tool.cpp, cdp_send and the callback).       *)
THEOREM RepliesAlwaysMatched == BrowserSpec => []RepliesMatched
<1>1. BrowserInv /\ [BrowserNext]_browserVars => BrowserInv'
  <2> SUFFICES ASSUME BrowserInv, [BrowserNext]_browserVars PROVE BrowserInv'
    OBVIOUS
  <2>1. CASE \/ close \/ SocketOpens \/ SocketDrops
             \/ \E b \in BOOLEAN : \/ launch_local(b) \/ EndpointReady(b)
                                   \/ connect_remote(b) \/ Connected(b)
    BY <2>1, LinkInv DEF close, Closed, SocketOpens, SocketDrops, launch_local, EndpointReady,
                         connect_remote, Connected, cdpVars
  <2>2. CASE \E m \in brWire : OnMessage(m) \/ \E r \in {"result", "error"} : BrowserAnswers(m, r)
    BY <2>2, OnMessageInv, BrowserAnswersInv
  <2>3. CASE \E t \in BrowserThread :
               \/ \E op \in Hosts \cup {"evaluate"} : Execute(t, op)
               \/ NotConnected(t) \/ Register(t) \/ Send(t) \/ Answered(t) \/ TimesOut(t)
               \/ CallReturns(t)
    BY <2>3, OutsideInv, RegisterInv, SendInv, EndsInv
  <2>4. CASE UNCHANGED browserVars
    BY <2>4, LinkInv DEF browserVars, cdpVars
  <2> QED
    BY <2>1, <2>2, <2>3, <2>4 DEF BrowserNext
<1>2. BrowserInv => RepliesMatched
  BY DEF BrowserInv
<1> QED
  BY <1>1, <1>2, BrowserInitInv, PTL DEF BrowserSpec

-----------------------------------------------------------------------------
(***************************************************************************)
(* ToolRuntime: exec and its approval.                                     *)
(***************************************************************************)
(* The exec tool under any configuration, on its own.                      *)
ExecSpec == (\E g \in ToolConfigs : ExecInit(g)) /\ [][ExecNext]_execVars

ToolConfig ==
  [exec : BOOLEAN, ask : {"off", "on-miss", "always"}, allow : SUBSET ToolCommand,
   fallback : {"approved", "denied"}]

ToolCall ==
  [pc : {"idle", "ask", "list", "request", "handler", "resolve", "run", "ended"},
   cmd : ToolCommand \cup {"none"}, id : Nat, decision : {"pending", "approved", "denied"},
   asked : BOOLEAN, seen : SUBSET ToolConfig]

Resolution ==
  [id : Nat, decision : {"pending", "approved", "denied", "timeout"},
   by : {"auto", "operator", "system"}]

(* Types of the approval manager's members and of the calls.               *)
ExecTypes ==
  /\ apConfig \in ToolConfig /\ apAllow \in SUBSET ToolCommand
  /\ apReload \in [left : {{}, {"allow"}, {"config", "allow"}}, new : ToolConfig, old : ToolConfig]
  /\ apIds \in Nat /\ apPending \subseteq 1 .. apIds /\ apResolved \in Seq(Resolution)
  /\ tcall \in [ToolThread -> ToolCall]

(* What the lists hold in each phase of a reload.                          *)
ReloadPhases ==
  /\ apReload.left = {} => apAllow \subseteq apConfig.allow
  /\ apReload.left # {} => apAllow \subseteq apReload.old.allow
  /\ apReload.left = {"allow"} => apConfig.allow = apReload.new.allow

(* Every call has seen a configuration with the ask mode in force, one     *)
(* that allows what the allow list allows, and the one being loaded.       *)
SeesConfig(c) ==
  c.pc # "idle" =>
    /\ \E a \in c.seen : a.ask = apConfig.ask
    /\ \E b \in c.seen : apAllow \subseteq b.allow
    /\ apReload.left # {} => apReload.new \in c.seen

(* A question is asked between the checks and the answer.                  *)
AsksInOrder(c) ==
  /\ c.pc \in {"idle", "ask", "list", "request"} => ~ c.asked
  /\ c.pc \in {"handler", "resolve"} => c.asked

LetThrough(c) ==
  c.pc = "run" /\ ~ c.asked =>
    \E a, b \in c.seen : a.ask = "off" \/ (a.ask = "on-miss" /\ c.cmd \in b.allow)

ConfigInv ==
  /\ ExecTypes /\ ReloadPhases
  /\ \A t \in ToolThread : /\ SeesConfig(tcall[t]) /\ AsksInOrder(tcall[t])
                           /\ LetThrough(tcall[t])

(* A step of one call under an unchanged configuration.                    *)
LEMMA OneCallConfig ==
  ASSUME ConfigInv, NEW t \in ToolThread, NEW c \in ToolCall,
         tcall' = [tcall EXCEPT ![t] = c],
         UNCHANGED <<apConfig, apAllow, apReload>>,
         apIds' \in Nat, apPending' \subseteq 1 .. apIds', apResolved' \in Seq(Resolution),
         SeesConfig(c), AsksInOrder(c), LetThrough(c)
  PROVE  ConfigInv'
<1>1. ExecTypes' /\ ReloadPhases'
  BY DEF ConfigInv, ExecTypes, ReloadPhases
<1>2. \A u \in ToolThread : tcall'[u] = IF u = t THEN c ELSE tcall[u]
  BY DEF ConfigInv, ExecTypes
<1>3. \A u \in ToolThread : /\ SeesConfig(tcall[u])' /\ AsksInOrder(tcall[u])'
                            /\ LetThrough(tcall[u])'
  BY <1>2 DEF ConfigInv, SeesConfig, AsksInOrder, LetThrough
<1> QED
  BY <1>1, <1>3 DEF ConfigInv

(* The steps of an exec call.                                              *)
LEMMA CallConfig ==
  ASSUME ConfigInv, NEW t \in ToolThread,
         \/ \E cmd \in ToolCommand : ExecuteTool(t, cmd)
         \/ CheckOff(t) \/ CheckAllowlist(t) \/ CreateRequest(t)
         \/ \E answer \in {"approved", "denied", "pending"} : AskHandler(t, answer)
         \/ RunCommand(t) \/ ToolReturns(t)
  PROVE  ConfigInv'
<1> DEFINE c == tcall[t]
<1>1. /\ c \in ToolCall /\ SeesConfig(c) /\ AsksInOrder(c) /\ LetThrough(c)
      /\ apConfig \in ToolConfig /\ apAllow \subseteq ToolCommand /\ apIds \in Nat
      /\ apReload.new \in ToolConfig /\ apReload.old \in ToolConfig
      /\ apPending \subseteq 1 .. apIds /\ apResolved \in Seq(Resolution)
      /\ tcall \in [ToolThread -> ToolCall]
  BY DEF ConfigInv, ExecTypes
<1>2. ASSUME NEW cmd \in ToolCommand, ExecuteTool(t, cmd) PROVE ConfigInv'
  <2> DEFINE s == {apConfig} \cup (IF apReload.left = {} THEN {} ELSE {apReload.new, apReload.old})
             n == [NoToolCall EXCEPT !.pc = "ask", !.cmd = cmd, !.seen = s]
  <2>1. n \in ToolCall /\ n.pc = "ask" /\ n.seen = s /\ n.asked = FALSE
    BY <1>1 DEF NoToolCall, ToolCall
  <2>2. SeesConfig(n)
    BY <2>1 DEF SeesConfig, ConfigInv, ReloadPhases
  <2>3. AsksInOrder(n) /\ LetThrough(n)
    BY <2>1 DEF AsksInOrder, LetThrough
  <2>4. tcall' = [tcall EXCEPT ![t] = n] /\ UNCHANGED apVars
    BY <1>2 DEF ExecuteTool
  <2> HIDE DEF n
  <2> QED
    BY <1>1, <2>1, <2>2, <2>3, <2>4, OneCallConfig DEF apVars
<1>3. CASE CheckOff(t)
  <2> DEFINE n == [c EXCEPT !.pc = IF apConfig.ask = "off" THEN "run" ELSE "list",
                            !.decision = IF apConfig.ask = "off" THEN "approved" ELSE @]
  <2>1. /\ n \in ToolCall /\ n.pc = IF apConfig.ask = "off" THEN "run" ELSE "list"
        /\ n.seen = c.seen /\ n.asked = c.asked /\ n.cmd = c.cmd
    BY <1>1 DEF ToolCall
  <2>2. c.pc = "ask" /\ tcall' = [tcall EXCEPT ![t] = n] /\ UNCHANGED apVars
    BY <1>1, <1>3 DEF CheckOff, ToolCall
  <2> HIDE DEF n
  <2>3. SeesConfig(n) /\ AsksInOrder(n) /\ LetThrough(n)
    BY <1>1, <2>1, <2>2 DEF SeesConfig, AsksInOrder, LetThrough
  <2> QED
    BY <1>1, <2>1, <2>2, <2>3, OneCallConfig DEF apVars
<1>4. CASE CheckAllowlist(t)
  <2> DEFINE hit == apConfig.ask = "on-miss" /\ c.cmd \in apAllow
             n == [c EXCEPT !.pc = IF hit THEN "run" ELSE "request",
                            !.decision = IF hit THEN "approved" ELSE @]
  <2>1. /\ n \in ToolCall /\ n.pc = IF hit THEN "run" ELSE "request"
        /\ n.seen = c.seen /\ n.asked = c.asked /\ n.cmd = c.cmd
    BY <1>1 DEF ToolCall
  <2>2. c.pc = "list" /\ tcall' = [tcall EXCEPT ![t] = n] /\ UNCHANGED apVars
    BY <1>1, <1>4 DEF CheckAllowlist, ToolCall
  <2> HIDE DEF n
  <2>3. SeesConfig(n) /\ AsksInOrder(n) /\ LetThrough(n)
    BY <1>1, <2>1, <2>2 DEF SeesConfig, AsksInOrder, LetThrough
  <2> QED
    BY <1>1, <2>1, <2>2, <2>3, OneCallConfig DEF apVars
<1>5. CASE CreateRequest(t)
  <2> DEFINE n == [c EXCEPT !.pc = "handler", !.id = apIds', !.asked = TRUE]
  <2>1. apIds' \in Nat /\ apPending' \subseteq 1 .. apIds'
    BY <1>1, <1>5 DEF CreateRequest
  <2>2. /\ n \in ToolCall /\ n.pc = "handler"
        /\ n.seen = c.seen /\ n.asked = TRUE
    BY <1>1, <2>1 DEF ToolCall
  <2>3. /\ c.pc = "request" /\ tcall' = [tcall EXCEPT ![t] = n]
        /\ UNCHANGED <<apConfig, apAllow, apReload, apReloads, apResolved>>
    BY <1>1, <1>5 DEF CreateRequest, ToolCall
  <2> HIDE DEF n
  <2>4. SeesConfig(n) /\ AsksInOrder(n) /\ LetThrough(n)
    BY <1>1, <2>2, <2>3 DEF SeesConfig, AsksInOrder, LetThrough
  <2> QED
    BY <1>1, <2>1, <2>2, <2>3, <2>4, OneCallConfig
<1>6. ASSUME NEW answer \in {"approved", "denied", "pending"}, AskHandler(t, answer)
      PROVE  ConfigInv'
  <2> DEFINE n == [c EXCEPT !.pc = "resolve",
                            !.decision = IF answer = "pending" THEN apConfig.fallback ELSE answer]
  <2>1. apConfig.fallback \in {"approved", "denied"}
    BY <1>1 DEF ToolConfig
  <2>2. n \in ToolCall /\ n.pc = "resolve" /\ n.seen = c.seen /\ n.asked = c.asked
    BY <1>1, <2>1 DEF ToolCall
  <2>3. c.pc = "handler" /\ tcall' = [tcall EXCEPT ![t] = n] /\ UNCHANGED apVars
    BY <1>1, <1>6 DEF AskHandler, ToolCall
  <2> HIDE DEF n
  <2>4. SeesConfig(n) /\ AsksInOrder(n) /\ LetThrough(n)
    BY <1>1, <2>2, <2>3 DEF SeesConfig, AsksInOrder, LetThrough
  <2> QED
    BY <1>1, <2>2, <2>3, <2>4, OneCallConfig DEF apVars
<1>7. CASE RunCommand(t)
  <2> DEFINE n == [c EXCEPT !.pc = "ended"]
  <2>1. n \in ToolCall /\ n.pc = "ended" /\ n.seen = c.seen
    BY <1>1 DEF ToolCall
  <2>2. c.pc = "run" /\ tcall' = [tcall EXCEPT ![t] = n] /\ UNCHANGED apVars
    BY <1>1, <1>7 DEF RunCommand, Goto, ToolCall
  <2> HIDE DEF n
  <2>3. SeesConfig(n) /\ AsksInOrder(n) /\ LetThrough(n)
    BY <1>1, <2>1, <2>2 DEF SeesConfig, AsksInOrder, LetThrough
  <2> QED
    BY <1>1, <2>1, <2>2, <2>3, OneCallConfig DEF apVars
<1>8. CASE ToolReturns(t)
  <2>1. NoToolCall \in ToolCall
    BY DEF NoToolCall, ToolCall
  <2>2. SeesConfig(NoToolCall) /\ AsksInOrder(NoToolCall) /\ LetThrough(NoToolCall)
    BY DEF SeesConfig, AsksInOrder, LetThrough, NoToolCall
  <2> QED
    BY <1>1, <1>8, <2>1, <2>2, OneCallConfig DEF ToolReturns, apVars
<1> QED
  BY <1>2, <1>3, <1>4, <1>5, <1>6, <1>7, <1>8

(* A reload: the checker, config_, the emptied and the rebuilt allow list. *)
LEMMA ReloadConfig ==
  ASSUME ConfigInv, \/ \E g \in ToolConfigs : BeginReload(g)
                    \/ Configure
  PROVE  ConfigInv'
<1>1. /\ apConfig \in ToolConfig /\ apReload.new \in ToolConfig /\ apReload.old \in ToolConfig
      /\ apReload \in [left : {{}, {"allow"}, {"config", "allow"}}, new : ToolConfig, old : ToolConfig]
      /\ ToolConfigs \subseteq ToolConfig /\ tcall \in [ToolThread -> ToolCall]
  BY ToolAssumption DEF ConfigInv, ExecTypes, ToolConfig
<1>2. ASSUME NEW g \in ToolConfigs, BeginReload(g) PROVE ConfigInv'
  <2>1. apConfig' \in ToolConfig /\ apConfig'.ask = apConfig.ask /\ apConfig'.allow = apConfig.allow
    BY <1>1, <1>2 DEF BeginReload, ToolConfig
  <2>2. /\ apReload' = [left |-> {"config", "allow"}, new |-> g, old |-> apConfig]
        /\ apReload.left = {} /\ UNCHANGED <<apAllow, apPending, apResolved, apIds>>
    BY <1>2 DEF BeginReload
  <2>3. ASSUME NEW u \in ToolThread
        PROVE  /\ tcall'[u] \in ToolCall /\ SeesConfig(tcall[u])'
               /\ AsksInOrder(tcall[u])' /\ LetThrough(tcall[u])'
    <3>1. CASE tcall[u].pc = "idle"
      <4>1. tcall'[u] = tcall[u]
        BY <1>2, <3>1 DEF BeginReload
      <4> QED
        BY <1>1, <3>1, <4>1 DEF SeesConfig, AsksInOrder, LetThrough, ConfigInv
    <3>2. CASE tcall[u].pc # "idle"
      <4>1. tcall'[u] = [tcall[u] EXCEPT !.seen = @ \cup {g}]
        BY <1>2, <3>2 DEF BeginReload
      <4>2. /\ tcall'[u] \in ToolCall /\ tcall'[u].pc = tcall[u].pc
            /\ tcall'[u].asked = tcall[u].asked /\ tcall'[u].cmd = tcall[u].cmd
            /\ tcall'[u].seen = tcall[u].seen \cup {g}
        BY <1>1, <4>1 DEF ToolCall
      <4>3. SeesConfig(tcall[u])'
        BY <2>1, <2>2, <4>2 DEF SeesConfig, ConfigInv
      <4> QED
        BY <4>2, <4>3 DEF AsksInOrder, LetThrough, ConfigInv
    <3> QED
      BY <3>1, <3>2
  <2>4. ExecTypes'
    <3>1. tcall' \in [ToolThread -> ToolCall]
      BY <1>2, <2>3 DEF BeginReload
    <3> QED
      BY <1>1, <2>1, <2>2, <3>1 DEF ExecTypes, ConfigInv
  <2>5. ReloadPhases'
    BY <2>2 DEF ReloadPhases, ConfigInv
  <2> QED
    BY <2>3, <2>4, <2>5 DEF ConfigInv
<1>3. CASE Configure
  <2>1. UNCHANGED <<apReloads, apPending, apResolved, apIds, tcall>>
    BY <1>3 DEF Configure
  <2>2. \/ /\ apReload.left = {"config", "allow"} /\ apConfig' = apReload.new
           /\ apReload' = [apReload EXCEPT !.left = {"allow"}] /\ UNCHANGED apAllow
        \/ /\ apReload.left = {"allow"} /\ apAllow' = {} /\ UNCHANGED <<apConfig, apReload>>
        \/ /\ apReload.left = {"allow"} /\ apAllow' = apReload.new.allow
           /\ apReload' = [apReload EXCEPT !.left = {}] /\ UNCHANGED apConfig
    <3>1. "config" \in apReload.left => /\ apReload.left = {"config", "allow"}
                                        /\ apReload.left \ {"config"} = {"allow"}
      BY <1>1
    <3> QED
      BY <1>3, <3>1 DEF Configure
  <2>3. apReload'.new = apReload.new /\ apReload'.old = apReload.old
    BY <1>1, <2>2
  <2>4. ExecTypes'
    BY <1>1, <2>1, <2>2 DEF ExecTypes, ConfigInv, ToolConfig
  <2>5. ReloadPhases'
    BY <1>1, <2>2, <2>3 DEF ReloadPhases, ConfigInv
  <2>6. ASSUME NEW u \in ToolThread PROVE SeesConfig(tcall[u])'
    BY <1>1, <2>1, <2>2, <2>3 DEF SeesConfig, ConfigInv
  <2> QED
    BY <2>1, <2>4, <2>5, <2>6 DEF ConfigInv, AsksInOrder, LetThrough
<1> QED
  BY <1>2, <1>3

(***************************************************************************)
(* What is recorded of the requests.                                       *)
(***************************************************************************)
(* Resolved ids were handed out, and a call that asked has one of its own. *)
RequestIds ==
  /\ \A i \in DOMAIN apResolved : apResolved[i].id <= apIds
  /\ \A t \in ToolThread : tcall[t].asked => tcall[t].id <= apIds
  /\ \A t, u \in ToolThread :
       tcall[t].asked /\ tcall[u].asked /\ tcall[t].id = tcall[u].id => t = u

(* While a call waits for its answer its request is pending, or somebody   *)
(* else has resolved it.                                                   *)
Undecided(c) ==
  c.pc \in {"handler", "resolve"} =>
    \/ c.id \in apPending
    \/ \E i \in DOMAIN apResolved : apResolved[i].id = c.id /\ apResolved[i].by # "auto"

RecordInv == RequestIds /\ RecordedOnce /\ \A t \in ToolThread : Undecided(tcall[t])

ExecInv == ConfigInv /\ RecordInv

(* Records are added for pending requests, which are then pending no more, *)
(* while calls keep their ids and act on what was recorded.                *)
LEMMA RecordExtends ==
  ASSUME ExecInv, NEW new \in Seq(Resolution), UNCHANGED apIds,
         \A i, j \in DOMAIN new : new[i].id = new[j].id => i = j,
         \A i \in DOMAIN new : new[i].id \in apPending,
         apPending' = apPending \ {new[i].id : i \in DOMAIN new},
         apResolved' = apResolved \o new,
         \A t \in ToolThread : tcall'[t].asked => tcall[t].asked /\ tcall'[t].id = tcall[t].id,
         \A t \in ToolThread : tcall'[t].pc \in {"handler", "resolve"} =>
           /\ tcall[t].pc \in {"handler", "resolve"} /\ tcall'[t].id = tcall[t].id
           /\ \A i \in DOMAIN new : new[i].id = tcall[t].id => new[i].by # "auto",
         \A t \in ToolThread : tcall'[t].asked /\ tcall'[t].pc \in {"run", "ended"} =>
           /\ tcall'[t].decision = tcall[t].decision
           /\ \/ tcall[t].pc \in {"run", "ended"}
              \/ /\ tcall[t].pc = "resolve"
                 /\ tcall[t].id \in apPending =>
                      \E i \in DOMAIN new : new[i].id = tcall[t].id
                                            /\ new[i].decision = tcall[t].decision
  PROVE  RecordInv'
<1> DEFINE m == Len(apResolved)
<1>1. /\ apResolved \in Seq(Resolution) /\ m \in Nat /\ Len(new) \in Nat
      /\ DOMAIN apResolved = 1 .. m /\ DOMAIN new = 1 .. Len(new)
      /\ apPending \subseteq 1 .. apIds /\ apIds \in Nat
  BY LenProperties DEF ExecInv, ConfigInv, ExecTypes
<1>2. /\ DOMAIN apResolved' = 1 .. m + Len(new)
      /\ \A i \in 1 .. m : apResolved'[i] = apResolved[i]
      /\ \A i \in 1 .. m + Len(new) : i > m => i - m \in 1 .. Len(new) /\ apResolved'[i] = new[i - m]
      /\ \A i \in 1 .. Len(new) : m + i \in 1 .. m + Len(new) /\ apResolved'[m + i] = new[i]
  <2>1. /\ apResolved' \in Seq(Resolution) /\ Len(apResolved') = m + Len(new)
        /\ \A i \in 1 .. m + Len(new) :
             apResolved'[i] = IF i <= m THEN apResolved[i] ELSE new[i - m]
    BY <1>1, ConcatProperties
  <2>2. DOMAIN apResolved' = 1 .. m + Len(new)
    BY <2>1, LenProperties
  <2> HIDE DEF m
  <2> QED
    BY <1>1, <2>1, <2>2
<1> HIDE DEF m
<1>3. RequestIds'
  <2>1. \A i \in DOMAIN apResolved' : apResolved'[i].id <= apIds
    <3>1. \A i \in DOMAIN apResolved : apResolved[i].id <= apIds
      BY DEF ExecInv, RecordInv, RequestIds
    <3>2. \A i \in DOMAIN new : new[i].id <= apIds
      <4>1. \A i \in DOMAIN new : new[i].id \in apPending
        OBVIOUS
      <4>2. \A k \in apPending : k <= apIds
        BY <1>1
      <4> QED
        BY <4>1, <4>2, Zenon
    <3> QED
      BY <1>1, <1>2, <3>1, <3>2
  <2> QED
    BY SMTT(40), <2>1 DEF RequestIds, ExecInv, RecordInv
<1>4. \A t \in ToolThread : Undecided(tcall[t])'
  <2> SUFFICES ASSUME NEW t \in ToolThread, tcall'[t].pc \in {"handler", "resolve"}
               PROVE  \/ tcall'[t].id \in apPending'
                      \/ \E i \in DOMAIN apResolved' :
                           apResolved'[i].id = tcall'[t].id /\ apResolved'[i].by # "auto"
    BY DEF Undecided
  <2>1. CASE tcall[t].id \in apPending /\ tcall'[t].id \notin apPending'
    <3>1. PICK i \in DOMAIN new : new[i].id = tcall[t].id /\ new[i].by # "auto"
      BY <2>1
    <3>2. m + i \in DOMAIN apResolved' /\ apResolved'[m + i] = new[i]
      BY <1>1, <1>2
    <3> QED
      BY <3>1, <3>2
  <2>2. CASE tcall[t].id \notin apPending
    <3>1. PICK i \in DOMAIN apResolved : apResolved[i].id = tcall[t].id /\ apResolved[i].by # "auto"
      BY <2>2 DEF ExecInv, RecordInv, Undecided
    <3> QED
      BY <1>1, <1>2, <3>1
  <2> QED
    BY <2>1, <2>2
<1>5. /\ \A i, j \in DOMAIN apResolved' : apResolved'[i].id = apResolved'[j].id => i = j
      /\ \A i \in DOMAIN apResolved' : apResolved'[i].id \notin apPending'
  <2>1. /\ \A i, j \in DOMAIN apResolved : apResolved[i].id = apResolved[j].id => i = j
        /\ \A i \in DOMAIN apResolved : apResolved[i].id \notin apPending
    BY DEF ExecInv, RecordInv, RecordedOnce
  <2>2. ASSUME NEW i \in DOMAIN apResolved', NEW j \in DOMAIN apResolved',
               apResolved'[i].id = apResolved'[j].id
        PROVE  i = j
    <3>1. CASE i <= m /\ j <= m
      BY <1>1, <1>2, <2>1, <2>2, <3>1
    <3>2. CASE i > m /\ j > m
      <4>1. i - m = j - m
        BY SMTT(40), <1>1, <1>2, <2>2, <3>2
      <4> QED
        BY <1>1, <1>2, <4>1
    <3>3. CASE ~ (i <= m <=> j <= m)
      BY SMTT(40), <1>1, <1>2, <2>1, <2>2, <3>3
    <3> QED
      BY <1>1, <1>2, <3>1, <3>2, <3>3
  <2>3. \A i \in DOMAIN apResolved' : apResolved'[i].id \notin apPending'
    BY <1>1, <1>2, <2>1
  <2> QED
    BY <2>2, <2>3
<1>6. ASSUME NEW t \in ToolThread, tcall'[t].asked, tcall'[t].pc \in {"run", "ended"}
      PROVE  \E i \in DOMAIN apResolved' :
               /\ apResolved'[i].id = tcall'[t].id
               /\ apResolved'[i].by = "auto" => apResolved'[i].decision = tcall'[t].decision
  <2>1. tcall[t].asked /\ tcall'[t].id = tcall[t].id /\ tcall'[t].decision = tcall[t].decision
    BY <1>6
  <2>2. CASE \E i \in DOMAIN apResolved :
               /\ apResolved[i].id = tcall[t].id
               /\ apResolved[i].by = "auto" => apResolved[i].decision = tcall[t].decision
    BY <1>1, <1>2, <2>1, <2>2
  <2>3. CASE tcall[t].pc \in {"run", "ended"}
    BY <2>1, <2>2, <2>3 DEF ExecInv, RecordInv, RecordedOnce
  <2>4. CASE tcall[t].pc = "resolve" /\ tcall[t].id \in apPending
    <3>1. PICK i \in DOMAIN new : new[i].id = tcall[t].id /\ new[i].decision = tcall[t].decision
      BY <1>6, <2>4
    <3>2. m + i \in DOMAIN apResolved' /\ apResolved'[m + i] = new[i]
      BY <1>1, <1>2
    <3> QED
      BY <2>1, <3>1, <3>2
  <2>5. CASE tcall[t].pc = "resolve" /\ tcall[t].id \notin apPending
    <3>1. PICK i \in DOMAIN apResolved : apResolved[i].id = tcall[t].id /\ apResolved[i].by # "auto"
      BY <2>5 DEF ExecInv, RecordInv, Undecided
    <3> QED
      BY <2>2, <3>1
  <2> QED
    BY <1>6, <2>3, <2>4, <2>5
<1> QED
  BY <1>3, <1>4, <1>5, <1>6 DEF RecordInv, RecordedOnce

(* A step that records nothing.                                            *)
LEMMA RecordStays ==
  ASSUME ExecInv, UNCHANGED <<apIds, apPending, apResolved>>,
         \A t \in ToolThread : tcall'[t].asked => tcall[t].asked /\ tcall'[t].id = tcall[t].id,
         \A t \in ToolThread : tcall'[t].pc \in {"handler", "resolve"} =>
           tcall[t].pc \in {"handler", "resolve"} /\ tcall'[t].id = tcall[t].id,
         \A t \in ToolThread : tcall'[t].asked /\ tcall'[t].pc \in {"run", "ended"} =>
           tcall'[t].decision = tcall[t].decision /\ tcall[t].pc \in {"run", "ended"}
  PROVE  RecordInv'
<1>1. <<>> \in Seq(Resolution) /\ DOMAIN <<>> = {}
  BY EmptySeq
<1>2. apResolved' = apResolved \o <<>>
  BY ConcatEmptySeq DEF ExecInv, ConfigInv, ExecTypes
<1> QED
  BY <1>1, <1>2, RecordExtends

(* At most one record is added, and it is of the pending request id.       *)
RecordsOne(new, id, d, by) ==
  /\ \A i, j \in DOMAIN new : new[i].id = new[j].id => i = j
  /\ \A i \in DOMAIN new : new[i].id \in apPending /\ new[i].id = id
                           /\ new[i].decision = d /\ new[i].by = by
  /\ id \in apPending => DOMAIN new # {}
  /\ apPending' = apPending \ {new[i].id : i \in DOMAIN new}
  /\ apResolved' = apResolved \o new

(* A request is resolved, by the call that made it or by an operator.      *)
LEMMA ResolveRecord ==
  ASSUME ExecInv, NEW id, NEW d \in {"pending", "approved", "denied"},
         NEW by \in {"auto", "operator"},
         Resolve(id, d, by), UNCHANGED apIds
  PROVE  \E new \in Seq(Resolution) : RecordsOne(new, id, d, by)
<1> USE DEF RecordsOne
<1>0. apResolved \in Seq(Resolution) /\ apPending \subseteq 1 .. apIds /\ apIds \in Nat
  BY DEF ExecInv, ConfigInv, ExecTypes
<1>1. CASE id \in apPending
  <2> DEFINE r == [id |-> id, decision |-> d, by |-> by]
  <2>1. r \in Resolution /\ r.id = id /\ r.decision = d /\ r.by = by
    BY <1>0, <1>1 DEF Resolution
  <2>2. apPending' = apPending \ {id} /\ apResolved' = Append(apResolved, r)
    BY <1>1 DEF Resolve
  <2> HIDE DEF r
  <2>3. apResolved' = apResolved \o <<r>>
    BY <1>0, <2>1, <2>2, AppendIsConcat
  <2>4. <<r>> \in Seq(Resolution) /\ DOMAIN <<r>> = {1} /\ <<r>>[1] = r
    BY <2>1
  <2>5. {<<r>>[i].id : i \in DOMAIN <<r>>} = {id}
    BY <2>1, <2>4
  <2> DEFINE new == <<r>>
  <2>6. /\ new \in Seq(Resolution) /\ DOMAIN new = {1} /\ new[1] = r
        /\ {new[i].id : i \in DOMAIN new} = {id} /\ apResolved' = apResolved \o new
    BY <2>3, <2>4, <2>5
  <2> HIDE DEF new
  <2> QED
    BY <1>1, <2>1, <2>2, <2>6
<1>2. CASE id \notin apPending
  <2>1. <<>> \in Seq(Resolution) /\ DOMAIN <<>> = {} /\ apResolved \o <<>> = apResolved
    BY <1>0, EmptySeq, ConcatEmptySeq
  <2>2. UNCHANGED <<apPending, apResolved>>
    BY <1>2 DEF Resolve
  <2> QED
    BY <1>2, <2>1, <2>2
<1> QED
  BY <1>1, <1>2

(* The steps of a call that record nothing, and the reloads.               *)
LEMMA QuietRecord ==
  ASSUME ExecInv,
         \/ \E t \in ToolThread :
              \/ \E cmd \in ToolCommand : ExecuteTool(t, cmd)
              \/ CheckOff(t) \/ CheckAllowlist(t)
              \/ \E answer \in {"approved", "denied", "pending"} : AskHandler(t, answer)
              \/ RunCommand(t) \/ ToolReturns(t)
         \/ \E g \in ToolConfigs : BeginReload(g)
         \/ Configure
  PROVE  RecordInv'
<1>1. /\ tcall \in [ToolThread -> ToolCall]
      /\ \A u \in ToolThread : AsksInOrder(tcall[u]) /\ tcall[u] \in ToolCall
  BY DEF ExecInv, ConfigInv, ExecTypes
<1>2. ASSUME NEW t \in ToolThread,
             \/ \E cmd \in ToolCommand : ExecuteTool(t, cmd)
             \/ CheckOff(t) \/ CheckAllowlist(t)
             \/ \E answer \in {"approved", "denied", "pending"} : AskHandler(t, answer)
             \/ RunCommand(t) \/ ToolReturns(t)
      PROVE  RecordInv'
  <2>1. UNCHANGED <<apIds, apPending, apResolved>>
    BY <1>2 DEF ExecuteTool, CheckOff, CheckAllowlist, AskHandler, RunCommand, ToolReturns, apVars
  <2>2. \A u \in ToolThread \ {t} : tcall'[u] = tcall[u]
    BY <1>1, <1>2 DEF ExecuteTool, CheckOff, CheckAllowlist, AskHandler, RunCommand, ToolReturns,
                      Goto
  <2>3. CASE \/ \E cmd \in ToolCommand : ExecuteTool(t, cmd)
             \/ CheckOff(t) \/ CheckAllowlist(t) \/ ToolReturns(t)
    <3>1. ~ tcall'[t].asked /\ tcall'[t].pc \notin {"handler", "resolve"}
      <4>1. ASSUME NEW cmd \in ToolCommand, ExecuteTool(t, cmd)
            PROVE  ~ tcall'[t].asked /\ tcall'[t].pc = "ask"
        BY <1>1, <4>1 DEF ExecuteTool, NoToolCall
      <4>4. CASE ToolReturns(t)
        BY <1>1, <4>4 DEF ToolReturns, NoToolCall
      <4>2. CASE CheckOff(t)
        BY <1>1, <4>2 DEF CheckOff, AsksInOrder, ToolCall
      <4>3. CASE CheckAllowlist(t)
        BY <1>1, <4>3 DEF CheckAllowlist, AsksInOrder, ToolCall
      <4> QED
        BY <2>3, <4>1, <4>2, <4>3, <4>4
    <3> QED
      BY <2>1, <2>2, <3>1, RecordStays
  <2>4. CASE \E answer \in {"approved", "denied", "pending"} : AskHandler(t, answer)
    <3>1. /\ tcall'[t].pc = "resolve" /\ tcall[t].pc = "handler"
          /\ tcall'[t].id = tcall[t].id /\ tcall'[t].asked = tcall[t].asked
      BY <1>1, <2>4 DEF AskHandler, ToolCall
    <3> QED
      BY <2>1, <2>2, <3>1, RecordStays
  <2>5. CASE RunCommand(t)
    <3>1. /\ tcall'[t].pc = "ended" /\ tcall[t].pc = "run"
          /\ tcall'[t].id = tcall[t].id /\ tcall'[t].asked = tcall[t].asked
          /\ tcall'[t].decision = tcall[t].decision
      BY <1>1, <2>5 DEF RunCommand, Goto, ToolCall
    <3> QED
      BY <2>1, <2>2, <3>1, RecordStays
  <2> QED
    BY <1>2, <2>3, <2>4, <2>5
<1>3. CASE (\E g \in ToolConfigs : BeginReload(g)) \/ Configure
  <2>1. UNCHANGED <<apIds, apPending, apResolved>>
    BY <1>3 DEF BeginReload, Configure
  <2>2. \A u \in ToolThread : /\ tcall'[u].pc = tcall[u].pc /\ tcall'[u].id = tcall[u].id
                              /\ tcall'[u].asked = tcall[u].asked
                              /\ tcall'[u].decision = tcall[u].decision
    BY <1>1, <1>3 DEF BeginReload, Configure, ToolCall
  <2> QED
    BY <2>1, <2>2, RecordStays
<1> QED
  BY <1>2, <1>3

(* The ids in resolved_ are numbers.                                       *)
LEMMA ResolvedTypes == ExecInv => \A i \in DOMAIN apResolved : apResolved[i].id \in Nat
<1> SUFFICES ASSUME ExecInv, NEW i \in DOMAIN apResolved PROVE apResolved[i].id \in Nat
  OBVIOUS
<1>1. apResolved \in Seq(Resolution)
  BY DEF ExecInv, ConfigInv, ExecTypes
<1>2. apResolved[i] \in Resolution
  BY <1>1, LenProperties, ElementOfSeq
<1> QED
  BY <1>2 DEF Resolution

(* A new request has a new id.                                             *)
LEMMA CreateRecord ==
  ASSUME ExecInv, NEW t \in ToolThread, CreateRequest(t)
  PROVE  RecordInv'
<1>1. /\ tcall \in [ToolThread -> ToolCall] /\ apIds \in Nat /\ apPending \subseteq 1 .. apIds
      /\ tcall[t].pc = "request" /\ ~ tcall[t].asked
  BY DEF ExecInv, ConfigInv, ExecTypes, CreateRequest, AsksInOrder
<1>2. /\ apIds' = apIds + 1 /\ apPending' = apPending \cup {apIds + 1} /\ UNCHANGED apResolved
      /\ tcall'[t].pc = "handler" /\ tcall'[t].id = apIds + 1 /\ tcall'[t].asked
      /\ \A u \in ToolThread \ {t} : tcall'[u] = tcall[u]
  BY <1>1 DEF CreateRequest, ToolCall
<1>3. RequestIds'
  <2>1. \A u \in ToolThread \ {t} : tcall[u].asked => tcall[u].id <= apIds /\ tcall[u].id # apIds + 1
    BY <1>1 DEF ExecInv, RecordInv, RequestIds, ToolCall
  <2>2. \A i \in DOMAIN apResolved : apResolved[i].id <= apIds + 1
    <3>1. \A i \in DOMAIN apResolved : apResolved[i].id \in Nat
      BY ResolvedTypes
    <3> QED
      BY <1>1, <3>1 DEF ExecInv, RecordInv, RequestIds
  <2>3. \A u \in ToolThread \ {t} : tcall[u].id \in Nat
    BY <1>1 DEF ToolCall
  <2> QED
    BY <1>1, <1>2, <2>1, <2>2, <2>3 DEF RequestIds, ExecInv, RecordInv
<1>4. RecordedOnce'
  <2>1. \A i \in DOMAIN apResolved : apResolved[i].id # apIds + 1
    <3>1. \A i \in DOMAIN apResolved : apResolved[i].id \in Nat /\ apResolved[i].id <= apIds
      BY ResolvedTypes DEF ExecInv, RecordInv, RequestIds
    <3> QED
      BY <1>1, <3>1
  <2> QED
    BY <1>1, <1>2, <2>1 DEF RecordedOnce, ExecInv, RecordInv
<1>5. \A u \in ToolThread : Undecided(tcall[u])'
  BY <1>1, <1>2 DEF Undecided, ExecInv, RecordInv
<1> QED
  BY <1>3, <1>4, <1>5 DEF RecordInv

(* The call's own decision is recorded, or another one already is.         *)
LEMMA ResolveAutoInv ==
  ASSUME ExecInv, NEW t \in ToolThread, ResolveAuto(t)
  PROVE  ExecInv'
<1>1. /\ tcall \in [ToolThread -> ToolCall] /\ tcall[t] \in ToolCall
      /\ tcall[t].pc = "resolve" /\ tcall[t].asked
      /\ apResolved \in Seq(Resolution) /\ apPending \subseteq 1 .. apIds /\ apIds \in Nat
  BY DEF ExecInv, ConfigInv, ExecTypes, ResolveAuto, AsksInOrder
<1> DEFINE c == [tcall[t] EXCEPT !.pc = IF tcall[t].decision = "approved" THEN "run" ELSE "ended"]
<1>2. /\ c \in ToolCall /\ c.pc \in {"run", "ended"} /\ c.asked /\ c.id = tcall[t].id
      /\ c.decision = tcall[t].decision /\ c.seen = tcall[t].seen
  BY <1>1 DEF ToolCall
<1>3. /\ tcall' = [tcall EXCEPT ![t] = c]
      /\ UNCHANGED <<apConfig, apAllow, apReload, apReloads, apIds>>
  BY <1>1 DEF ResolveAuto, Goto, ToolCall
<1>4. Resolve(tcall[t].id, tcall[t].decision, "auto")
  BY DEF ResolveAuto
<1>5. tcall[t].decision \in {"pending", "approved", "denied"}
  BY <1>1 DEF ToolCall
<1> HIDE DEF c
<1>a. PICK new \in Seq(Resolution) : RecordsOne(new, tcall[t].id, tcall[t].decision, "auto")
  BY <1>3, <1>4, <1>5, ResolveRecord
<1>6. /\ \A i, j \in DOMAIN new : new[i].id = new[j].id => i = j
      /\ \A i \in DOMAIN new : new[i].id \in apPending /\ new[i].id = tcall[t].id
                               /\ new[i].decision = tcall[t].decision /\ new[i].by = "auto"
      /\ tcall[t].id \in apPending => DOMAIN new # {}
      /\ apPending' = apPending \ {new[i].id : i \in DOMAIN new}
      /\ apResolved' = apResolved \o new
  BY <1>a DEF RecordsOne
<1>7. \A u \in ToolThread : tcall'[u] = IF u = t THEN c ELSE tcall[u]
  BY <1>1, <1>3
<1>8. ConfigInv'
  <2>1. apPending' \subseteq 1 .. apIds' /\ apResolved' \in Seq(Resolution)
    BY <1>1, <1>3, <1>6, ConcatProperties
  <2>2. SeesConfig(c) /\ AsksInOrder(c) /\ LetThrough(c)
    BY <1>1, <1>2 DEF SeesConfig, AsksInOrder, LetThrough, ExecInv, ConfigInv
  <2> QED
    BY <1>1, <1>2, <1>3, <2>1, <2>2, OneCallConfig DEF ExecInv
<1>9. RecordInv'
  <2>1. \A u \in ToolThread : tcall'[u].pc \in {"handler", "resolve"} =>
          /\ u # t /\ tcall[u].pc \in {"handler", "resolve"} /\ tcall'[u].id = tcall[u].id
          /\ tcall[u].id # tcall[t].id
    <3>1. \A u \in ToolThread : tcall[u].pc \in {"handler", "resolve"} => tcall[u].asked
      BY DEF ExecInv, ConfigInv, AsksInOrder
    <3> QED
      BY <1>1, <1>2, <1>7, <3>1 DEF ExecInv, RecordInv, RequestIds
  <2>2. \A u \in ToolThread : tcall'[u].asked => tcall[u].asked /\ tcall'[u].id = tcall[u].id
    BY <1>1, <1>2, <1>7
  <2>3. \A u \in ToolThread : tcall'[u].asked /\ tcall'[u].pc \in {"run", "ended"} =>
          /\ tcall'[u].decision = tcall[u].decision
          /\ \/ tcall[u].pc \in {"run", "ended"}
             \/ /\ tcall[u].pc = "resolve"
                /\ tcall[u].id \in apPending =>
                     \E i \in DOMAIN new : new[i].id = tcall[u].id
                                           /\ new[i].decision = tcall[u].decision
    BY <1>1, <1>2, <1>6, <1>7
  <2>4. \A u \in ToolThread : tcall'[u].pc \in {"handler", "resolve"} =>
          /\ tcall[u].pc \in {"handler", "resolve"} /\ tcall'[u].id = tcall[u].id
          /\ \A i \in DOMAIN new : new[i].id = tcall[u].id => new[i].by # "auto"
    BY <1>6, <2>1
  <2> QED
    BY <1>3, <1>6, <2>2, <2>3, <2>4, RecordExtends
<1> QED
  BY <1>8, <1>9 DEF ExecInv

(* Records that an operator or the expiry adds.                            *)
LEMMA OthersRecord ==
  ASSUME ExecInv, NEW new \in Seq(Resolution),
         UNCHANGED <<apConfig, apAllow, apReload, apReloads, apIds, tcall>>,
         \A i, j \in DOMAIN new : new[i].id = new[j].id => i = j,
         \A i \in DOMAIN new : new[i].id \in apPending /\ new[i].by # "auto",
         apPending' = apPending \ {new[i].id : i \in DOMAIN new},
         apResolved' = apResolved \o new
  PROVE  ExecInv'
<1>1. apResolved' \in Seq(Resolution) /\ apPending' \subseteq 1 .. apIds
  BY ConcatProperties DEF ExecInv, ConfigInv, ExecTypes
<1>2. ConfigInv'
  BY <1>1 DEF ExecInv, ConfigInv, ExecTypes, ReloadPhases, SeesConfig, AsksInOrder, LetThrough
<1>3. RecordInv'
  BY RecordExtends
<1> QED
  BY <1>2, <1>3 DEF ExecInv

\* An operator's answer to a pending request keeps the invariant.
LEMMA OperatorInv ==
  ASSUME ExecInv, NEW id \in apPending, NEW d \in {"approved", "denied"},
         OperatorResolves(id, d)
  PROVE  ExecInv'
<1>1. /\ Resolve(id, d, "operator") /\ UNCHANGED apIds
      /\ UNCHANGED <<apConfig, apAllow, apReload, apReloads, apIds, tcall>>
  BY DEF OperatorResolves
<1>2. PICK new \in Seq(Resolution) : RecordsOne(new, id, d, "operator")
  BY <1>1, ResolveRecord
<1>3. /\ \A i, j \in DOMAIN new : new[i].id = new[j].id => i = j
      /\ \A i \in DOMAIN new : new[i].id \in apPending /\ new[i].by # "auto"
      /\ apPending' = apPending \ {new[i].id : i \in DOMAIN new}
      /\ apResolved' = apResolved \o new
  BY <1>2 DEF RecordsOne
<1> QED
  BY <1>1, <1>2, <1>3, OthersRecord

(* PruneExpired records every expired request once.                        *)
LEMMA PruneInv ==
  ASSUME ExecInv, NEW expired \in SUBSET apPending, PruneExpired(expired)
  PROVE  ExecInv'
<1> DEFINE n == Cardinality(expired)
<1>1. apPending \subseteq 1 .. apIds /\ apIds \in Nat
  BY DEF ExecInv, ConfigInv, ExecTypes
<1>2. IsFiniteSet(expired) /\ n \in Nat
  <2>1. IsFiniteSet(1 .. apIds)
    BY <1>1, FS_Interval
  <2>2. expired \in SUBSET (1 .. apIds)
    BY <1>1
  <2> QED
    BY <2>1, <2>2, FS_Subset, FS_CardinalityType
<1>3. PICK order \in [1 .. n -> expired] :
        /\ {order[i] : i \in DOMAIN order} = expired
        /\ apResolved' = apResolved \o [i \in DOMAIN order |->
             [id |-> order[i], decision |-> "timeout", by |-> "system"]]
  BY DEF PruneExpired
<1> HIDE DEF n
<1>4. \A i, j \in 1 .. n : order[i] = order[j] => i = j
  <2>1. order \in Surjection(1 .. n, expired)
    BY <1>3 DEF Surjection
  <2>2. IsFiniteSet(1 .. n) /\ Cardinality(1 .. n) = n
    BY <1>2, FS_Interval
  <2>3. order \in Injection(1 .. n, expired)
    BY <1>2, <2>1, <2>2, FS_SurjSameCardinalityImpliesInj DEF n
  <2> QED
    BY <2>3 DEF Injection, IsInjective
<1> DEFINE new == [i \in 1 .. n |-> [id |-> order[i], decision |-> "timeout", by |-> "system"]]
<1>5. new \in Seq(Resolution) /\ DOMAIN new = 1 .. n
  <2>1. \A i \in 1 .. n : [id |-> order[i], decision |-> "timeout", by |-> "system"] \in Resolution
    <3>1. \A i \in 1 .. n : order[i] \in Nat
      <4>1. expired \subseteq Nat
        BY <1>1
      <4> QED
        BY <4>1
    <3> QED
      BY <3>1 DEF Resolution
  <2> QED
    BY <1>2, <2>1
<1>6. \A i \in DOMAIN new : new[i].id = order[i] /\ new[i].by = "system"
  OBVIOUS
<1>7. apResolved' = apResolved \o new /\ DOMAIN order = 1 .. n
  BY <1>3
<1> HIDE DEF new
<1>8. {new[i].id : i \in DOMAIN new} = expired
  BY <1>3, <1>5, <1>6, <1>7
<1>9. /\ apPending' = apPending \ expired
      /\ UNCHANGED <<apConfig, apAllow, apReload, apReloads, apIds, tcall>>
  BY DEF PruneExpired
<1>10. \A i \in DOMAIN new : new[i].id \in apPending /\ new[i].by # "auto"
  BY <1>5, <1>6
<1>11. \A i, j \in DOMAIN new : new[i].id = new[j].id => i = j
  BY <1>4, <1>5, <1>6
<1> QED
  BY <1>5, <1>7, <1>8, <1>9, <1>10, <1>11, OthersRecord

(* Every step of exec keeps both parts.                                    *)
LEMMA ExecNextInv == ExecInv /\ [ExecNext]_execVars => ExecInv'
<1> SUFFICES ASSUME ExecInv, [ExecNext]_execVars PROVE ExecInv'
  OBVIOUS
<1>1. CASE \E t \in ToolThread :
             \/ \E cmd \in ToolCommand : ExecuteTool(t, cmd)
             \/ CheckOff(t) \/ CheckAllowlist(t)
             \/ \E answer \in {"approved", "denied", "pending"} : AskHandler(t, answer)
             \/ RunCommand(t) \/ ToolReturns(t)
  BY <1>1, CallConfig, QuietRecord DEF ExecInv
<1>2. CASE \E t \in ToolThread : CreateRequest(t)
  BY <1>2, CallConfig, CreateRecord DEF ExecInv
<1>3. CASE \E t \in ToolThread : ResolveAuto(t)
  BY <1>3, ResolveAutoInv
<1>4. CASE \E id \in apPending, d \in {"approved", "denied"} : OperatorResolves(id, d)
  BY <1>4, OperatorInv
<1>5. CASE \E expired \in SUBSET apPending : PruneExpired(expired)
  BY <1>5, PruneInv
<1>6. CASE (\E g \in ToolConfigs : BeginReload(g)) \/ Configure
  BY <1>6, ReloadConfig, QuietRecord DEF ExecInv
<1>7. CASE UNCHANGED execVars
  <2>1. ConfigInv'
    BY <1>7 DEF execVars, apVars, ExecInv, ConfigInv, ExecTypes, ReloadPhases, SeesConfig,
                AsksInOrder, LetThrough
  <2>2. RecordInv'
    BY <1>7 DEF execVars, apVars, ExecInv, RecordInv, RequestIds, RecordedOnce, Undecided
  <2> QED
    BY <2>1, <2>2 DEF ExecInv
<1> QED
  BY <1>1, <1>2, <1>3, <1>4, <1>5, <1>6, <1>7 DEF ExecNext

(* No request has been made when the registry is configured.               *)
LEMMA ExecInitInv == (\E g \in ToolConfigs : ExecInit(g)) => ExecInv
<1> SUFFICES ASSUME NEW g \in ToolConfigs, ExecInit(g) PROVE ExecInv
  OBVIOUS
<1> USE DEF ExecInit
<1>1. g \in ToolConfig
  BY ToolAssumption DEF ToolConfig
<1>2. NoToolCall \in ToolCall /\ NoToolCall.pc = "idle" /\ NoToolCall.asked = FALSE
  BY DEF NoToolCall, ToolCall
<1>3. ExecTypes
  <2>1. apReload \in [left : {{}, {"allow"}, {"config", "allow"}}, new : ToolConfig, old : ToolConfig]
    BY <1>1
  <2>2. apAllow \in SUBSET ToolCommand
    BY <1>1 DEF ToolConfig
  <2>3. tcall \in [ToolThread -> ToolCall]
    BY <1>2
  <2> QED
    BY <1>1, <2>1, <2>2, <2>3, EmptySeq DEF ExecTypes
<1>4. ReloadPhases
  BY <1>1 DEF ReloadPhases
<1>5. \A t \in ToolThread : SeesConfig(tcall[t]) /\ AsksInOrder(tcall[t]) /\ LetThrough(tcall[t])
  BY <1>2 DEF SeesConfig, AsksInOrder, LetThrough
<1>6. RecordInv
  <2>1. DOMAIN apResolved = {}
    OBVIOUS
  <2> QED
    BY <1>2, <2>1 DEF RecordInv, RequestIds, RecordedOnce, Undecided
<1> QED
  BY <1>3, <1>4, <1>5, <1>6 DEF ExecInv, ConfigInv

-----------------------------------------------------------------------------
(***************************************************************************)
(* ToolRuntime: the process tool.                                          *)
(***************************************************************************)
ProcSpec == ProcInit /\ [][ProcNext]_procVars

Live == {"valid", "moved", "read"}

BgSession ==
  [listed : BOOLEAN, running : BOOLEAN, future : Live \cup {"none", "destroyed"},
   exited : BOOLEAN, output : BOOLEAN, killed : BOOLEAN, cleared : BOOLEAN,
   raced : BOOLEAN]

ProcPc == {"idle", "check", "wait", "get", "release", "assign", "mark", "kill",
           "clear", "remove", "drop"}

ProcCall ==
  [pc : ProcPc, id : 0 .. MaxProcs, todo : SUBSET (1 .. MaxProcs), text : BOOLEAN,
   listing : BOOLEAN]

\* The sessions a call can reach.
Reach(q) == q.todo \cup ({q.id} \ {0})

(* A call reaches sessions that exist, list only those in the map; and one *)
(* that is past get() has taken a text, unless two were in get() at once.  *)
CallOk(q, b) ==
  /\ q \in ProcCall
  /\ q.pc \notin {"idle", "check"} \/ (q.pc = "check" /\ ~ q.listing) => q.id # 0
  /\ \A i \in Reach(q) : b[i].future \in Live
  /\ q.listing => \A i \in Reach(q) : b[i].listed
  /\ ~ q.listing => q.todo \subseteq {q.id}
  /\ q.pc \in {"release", "assign", "mark"} => b[q.id].future \in {"moved", "read"}
  /\ q.pc \in {"release", "assign"} => q.text \/ b[q.id].raced

\* A call is about to put down the text of session i.
Carries(q, i) == q.pc \in {"release", "assign"} /\ q.id = i /\ q.text

\* A session, given that somebody brings its text or not.
SessionOk(x, brought) ==
  /\ x \in BgSession
  /\ x.listed => x.future \in Live
  /\ x.exited /\ ~ x.killed => x.future # "valid"
  /\ x.future \in {"moved", "read"} => x.output \/ x.cleared \/ x.raced \/ brought

ProcInv ==
  /\ bg \in [1 .. MaxProcs -> BgSession] /\ pcall \in [ToolThread -> ProcCall]
  /\ \A t \in ToolThread : CallOk(pcall[t], bg)
  /\ \A i \in 1 .. MaxProcs : SessionOk(bg[i], \E t \in ToolThread : Carries(pcall[t], i))

(* One call goes on; it leaves no text behind.                             *)
LEMMA CallGoesOn ==
  ASSUME ProcInv, NEW t \in ToolThread, NEW q, CallOk(q, bg),
         UNCHANGED bg, pcall' = [pcall EXCEPT ![t] = q],
         \A i \in 1 .. MaxProcs : Carries(pcall[t], i) => Carries(q, i)
  PROVE  ProcInv'
<1>1. /\ pcall' \in [ToolThread -> ProcCall]
      /\ \A u \in ToolThread : pcall'[u] = IF u = t THEN q ELSE pcall[u]
  BY DEF ProcInv, CallOk
<1>2. \A u \in ToolThread : CallOk(pcall'[u], bg')
  BY <1>1 DEF ProcInv
<1>3. ASSUME NEW i \in 1 .. MaxProcs
      PROVE  SessionOk(bg'[i], \E u \in ToolThread : Carries(pcall'[u], i))
  <2>1. (\E u \in ToolThread : Carries(pcall[u], i))
          => \E u \in ToolThread : Carries(pcall'[u], i)
    BY <1>1
  <2>2. SessionOk(bg[i], \E u \in ToolThread : Carries(pcall[u], i)) /\ bg'[i] = bg[i]
    BY <1>3 DEF ProcInv
  <2> HIDE DEF Carries
  <2> QED
    BY <2>1, <2>2 DEF SessionOk
<1> QED
  BY <1>1, <1>2, <1>3 DEF ProcInv

(* One session changes, and lives on where it was, under a call that goes   *)
(* on, or under none.                                                       *)
LEMMA SessionGoesOn ==
  ASSUME ProcInv, NEW t \in ToolThread, NEW q, NEW i \in 1 .. MaxProcs, NEW x,
         bg' = [bg EXCEPT ![i] = x], pcall' = [pcall EXCEPT ![t] = q],
         CallOk(q, bg'),
         x \in BgSession, x.future \in Live, x.listed = bg[i].listed,
         bg[i].raced => x.raced,
         bg[i].future \in {"moved", "read"} => x.future \in {"moved", "read"},
         SessionOk(x, \E u \in ToolThread : Carries(pcall'[u], i)),
         \A j \in 1 .. MaxProcs : j # i /\ Carries(pcall[t], j) => Carries(q, j)
  PROVE  ProcInv'
<1>1. /\ pcall' \in [ToolThread -> ProcCall]
      /\ \A u \in ToolThread : pcall'[u] = IF u = t THEN q ELSE pcall[u]
  BY DEF ProcInv, CallOk
<1>2. /\ bg' \in [1 .. MaxProcs -> BgSession]
      /\ \A j \in 1 .. MaxProcs : bg'[j] = IF j = i THEN x ELSE bg[j]
  BY DEF ProcInv
<1>3. ASSUME NEW u \in ToolThread PROVE CallOk(pcall'[u], bg')
  <2>1. CASE u = t
    BY <1>1, <2>1
  <2>2. CASE u # t
    <3>1. PICK r : r = pcall[u] /\ r = pcall'[u]
      BY <1>1, <2>2
    <3>4. CallOk(r, bg)
      BY <3>1 DEF ProcInv
    <3>5. r.todo \in SUBSET (1 .. MaxProcs) /\ r.id \in 0 .. MaxProcs /\ MaxProcs \in Nat
      BY <3>4, ToolAssumption DEF CallOk, ProcCall
    <3>2. CallOk(r, bg) /\ Reach(r) \subseteq 1 .. MaxProcs
      BY <3>4, <3>5 DEF Reach
    <3>3. r.pc \in {"release", "assign", "mark"} => r.id \in 1 .. MaxProcs
      BY <3>2 DEF CallOk, ProcCall
    <3> QED
      BY <1>2, <3>1, <3>2, <3>3 DEF CallOk
  <2> QED
    BY <2>1, <2>2
<1>4. ASSUME NEW j \in 1 .. MaxProcs
      PROVE  SessionOk(bg'[j], \E u \in ToolThread : Carries(pcall'[u], j))
  <2>1. CASE j = i
    BY <1>2, <2>1
  <2>2. CASE j # i
    <3>1. (\E u \in ToolThread : Carries(pcall[u], j))
            => \E u \in ToolThread : Carries(pcall'[u], j)
      BY <1>1, <2>2
    <3>2. SessionOk(bg[j], \E u \in ToolThread : Carries(pcall[u], j)) /\ bg'[j] = bg[j]
      BY <1>2, <2>2 DEF ProcInv
    <3> HIDE DEF Carries
    <3> QED
      BY <3>1, <3>2 DEF SessionOk
  <2> QED
    BY <2>1, <2>2
<1> QED
  BY <1>1, <1>2, <1>3, <1>4 DEF ProcInv

(* What the invariant says of a call and its session.                      *)
LEMMA ProcLooked ==
  ASSUME ProcInv, NEW t \in ToolThread
  PROVE  /\ DOMAIN bg = 1 .. MaxProcs /\ MaxProcs \in Nat
         /\ pcall[t] \in ProcCall /\ CallOk(pcall[t], bg)
         /\ pcall[t].pc \notin {"idle", "check"} =>
              /\ pcall[t].id \in 1 .. MaxProcs /\ bg[pcall[t].id] \in BgSession
              /\ bg[pcall[t].id].future \in Live /\ pcall[t].id \in Reach(pcall[t])
         /\ \A i \in 1 .. MaxProcs :
              /\ bg[i] \in BgSession
              /\ SessionOk(bg[i], \E u \in ToolThread : Carries(pcall[u], i))
<1>1. /\ DOMAIN bg = 1 .. MaxProcs /\ MaxProcs \in Nat
      /\ pcall[t] \in ProcCall /\ CallOk(pcall[t], bg)
      /\ \A i \in 1 .. MaxProcs :
           /\ bg[i] \in BgSession
           /\ SessionOk(bg[i], \E u \in ToolThread : Carries(pcall[u], i))
  BY ToolAssumption DEF ProcInv
<1>2. ASSUME pcall[t].pc \notin {"idle", "check"}
      PROVE  /\ pcall[t].id \in 1 .. MaxProcs /\ bg[pcall[t].id] \in BgSession
             /\ bg[pcall[t].id].future \in Live /\ pcall[t].id \in Reach(pcall[t])
  <2>1. pcall[t].id # 0
    BY <1>1, <1>2 DEF CallOk
  <2>2. pcall[t].id \in 1 .. MaxProcs
    BY <1>1, <2>1 DEF ProcCall
  <2>3. pcall[t].id \in Reach(pcall[t])
    BY <2>1 DEF Reach
  <2> QED
    BY <1>1, <2>2, <2>3 DEF CallOk
<1> QED
  BY <1>1, <1>2

(* The steps that touch no session.                                        *)
LEMMA CallsKeep ==
  ASSUME ProcInv, NEW t \in ToolThread,
         \/ ProcessList(t)
         \/ \E i \in DOMAIN bg, a \in {"check", "kill", "clear", "remove"} :
              ProcessLookup(t, i, a)
         \/ \E i \in DOMAIN bg : ProcessCheck(t, i)
         \/ ProcessWait(t) \/ ProcessAnswer(t)
         \/ ProcessGet(t) /\ Session(t).future = "read"
         \/ ProcessDrop(t) /\ UNCHANGED bg
  PROVE  ProcInv'
<1>0. /\ DOMAIN bg = 1 .. MaxProcs /\ MaxProcs \in Nat
      /\ pcall[t] \in ProcCall /\ CallOk(pcall[t], bg)
      /\ pcall[t].pc \notin {"idle", "check"} =>
           /\ pcall[t].id \in 1 .. MaxProcs /\ bg[pcall[t].id] \in BgSession
           /\ bg[pcall[t].id].future \in Live /\ pcall[t].id \in Reach(pcall[t])
      /\ \A i \in 1 .. MaxProcs : bg[i].listed => bg[i].future \in Live
  BY ProcLooked DEF SessionOk
<1>N. CallOk(NoProcCall, bg)
  BY <1>0 DEF CallOk, NoProcCall, ProcCall, ProcPc, Reach
<1>1. ASSUME NEW q, CallOk(q, bg), UNCHANGED bg, pcall' = [pcall EXCEPT ![t] = q],
             pcall[t].pc \notin {"release", "assign"}
      PROVE  ProcInv'
  BY <1>1, CallGoesOn DEF Carries
<1>2. ASSUME Answer(t), UNCHANGED bg, pcall[t].pc \in {"wait", "check"},
             pcall[t].pc = "check" /\ ~ pcall[t].listing => pcall[t].id # 0
      PROVE  ProcInv'
  <2>1. CASE pcall[t].listing
    BY <1>N, <1>1, <1>2, <2>1 DEF Answer
  <2>2. CASE ~ pcall[t].listing
    <3> DEFINE q == [pcall[t] EXCEPT !.pc = "drop"]
    <3>1. CallOk(q, bg)
      BY <1>0, <1>2, <2>2 DEF CallOk, ProcCall, ProcPc, Reach
    <3>2. pcall' = [pcall EXCEPT ![t] = q]
      BY <1>2, <2>2 DEF Answer
    <3> HIDE DEF q
    <3> QED
      BY <1>1, <1>2, <3>1, <3>2
  <2> QED
    BY <2>1, <2>2
<1>3. ASSUME NEW pc \in ProcPc \ {"release", "assign", "mark"}, ProcGoto(t, pc),
             UNCHANGED bg, pcall[t].pc \in {"wait", "get"}
      PROVE  ProcInv'
  <2> DEFINE q == [pcall[t] EXCEPT !.pc = pc]
  <2>1. CallOk(q, bg)
    BY <1>0, <1>3 DEF CallOk, ProcCall, ProcPc, Reach
  <2>2. pcall' = [pcall EXCEPT ![t] = q]
    BY <1>3 DEF ProcGoto
  <2> HIDE DEF q
  <2> QED
    BY <1>1, <1>3, <2>1, <2>2
<1>4. CASE ProcessList(t)
  <2>5. PICK S \in SUBSET (1 .. MaxProcs) : S = Procs
    BY <1>0 DEF Procs
  <2> DEFINE q == [NoProcCall EXCEPT !.pc = "check", !.todo = S, !.listing = TRUE]
  <2>6. q.pc = "check" /\ q.todo = S /\ q.listing /\ q.id = 0
    BY DEF NoProcCall
  <2>8. 0 \in 0 .. MaxProcs
    BY <1>0
  <2>7. q \in ProcCall
    BY <2>8 DEF NoProcCall, ProcCall, ProcPc
  <2>3. /\ q.pc = "check" /\ q.todo = Procs /\ q.listing /\ q.id = 0 /\ q \in ProcCall
    BY <2>5, <2>6, <2>7
  <2>4. \A i \in Reach(q) : i \in 1 .. MaxProcs /\ bg[i].listed
    BY <1>0, <2>3 DEF Reach, Procs
  <2>1. CallOk(q, bg)
    BY <1>0, <2>3, <2>4 DEF CallOk
  <2>2. pcall' = [pcall EXCEPT ![t] = q] /\ UNCHANGED bg /\ pcall[t].pc = "idle"
    BY <1>4, <2>5 DEF ProcessList
  <2> HIDE DEF q
  <2> QED
    BY <1>1, <2>1, <2>2
<1>5. ASSUME NEW i \in DOMAIN bg, NEW a \in {"check", "kill", "clear", "remove"},
             ProcessLookup(t, i, a)
      PROVE  ProcInv'
  <2>6. i \in 1 .. MaxProcs /\ i # 0 /\ i \in 0 .. MaxProcs
    BY <1>0
  <2>7. bg[i].listed
    BY <1>5 DEF ProcessLookup
  <2>3. i \in 1 .. MaxProcs /\ i # 0 /\ bg[i].future \in Live
    BY <1>0, <2>6, <2>7
  <2>8. PICK S \in SUBSET (1 .. MaxProcs) : S = IF a = "check" THEN {i} ELSE {}
    BY <2>6
  <2> DEFINE q == [NoProcCall EXCEPT !.pc = a, !.id = i, !.todo = S]
  <2>9. q.pc = a /\ q.id = i /\ ~ q.listing /\ q.todo = S
    BY DEF NoProcCall
  <2>10. q \in ProcCall
    BY <2>6 DEF NoProcCall, ProcCall, ProcPc
  <2>2. pcall' = [pcall EXCEPT ![t] = q] /\ UNCHANGED bg /\ pcall[t].pc = "idle"
    BY <1>5, <2>8 DEF ProcessLookup
  <2> HIDE DEF q
  <2>4. /\ q.pc = a /\ q.id = i /\ ~ q.listing /\ q \in ProcCall
        /\ q.todo = IF a = "check" THEN {i} ELSE {}
    BY <2>8, <2>9, <2>10
  <2>5. Reach(q) = {i}
    BY <2>3, <2>4 DEF Reach
  <2>1. CallOk(q, bg)
    BY <2>3, <2>4, <2>5 DEF CallOk
  <2> QED
    BY <1>1, <2>1, <2>2
<1>6. ASSUME NEW i \in DOMAIN bg, ProcessCheck(t, i) PROVE ProcInv'
  <2>1. PICK pc \in {"check", "wait"} :
          pcall' = [pcall EXCEPT ![t].todo = @ \ {i}, ![t].id = i, ![t].pc = pc]
    BY <1>6 DEF ProcessCheck
  <2>8. PICK c \in ProcCall, S \in SUBSET (1 .. MaxProcs) : c = pcall[t] /\ S = c.todo \ {i}
    BY <1>0 DEF ProcCall
  <2> DEFINE q == [c EXCEPT !.todo = S, !.id = i, !.pc = pc]
  <2>2. i \in 1 .. MaxProcs /\ i \in pcall[t].todo /\ pcall[t].pc = "check" /\ UNCHANGED bg
    BY <1>0, <1>6 DEF ProcessCheck
  <2>9. i # 0 /\ i \in 0 .. MaxProcs
    BY <1>0, <2>2
  <2>10. q.pc = pc /\ q.id = i /\ q.todo = S /\ q.listing = c.listing
    BY DEF ProcCall
  <2>11. q \in ProcCall
    BY <2>9 DEF ProcCall, ProcPc
  <2>5. /\ q.pc = pc /\ q.id = i /\ q.todo = pcall[t].todo \ {i} /\ q \in ProcCall
        /\ q.listing = pcall[t].listing /\ i # 0
    BY <2>8, <2>9, <2>10, <2>11
  <2>6. Reach(q) \subseteq Reach(pcall[t])
    BY <2>2, <2>5 DEF Reach
  <2>7. ~ pcall[t].listing => pcall[t].todo \subseteq {pcall[t].id}
    BY <1>0 DEF CallOk
  <2>3. CallOk(q, bg)
    BY <1>0, <2>5, <2>6, <2>7, <2>2 DEF CallOk
  <2>4. pcall' = [pcall EXCEPT ![t] = q]
    BY <2>1, <2>8
  <2> HIDE DEF q
  <2> QED
    BY <1>1, <2>2, <2>3, <2>4
<1>7. CASE ProcessWait(t)
  BY <1>2, <1>3, <1>7 DEF ProcessWait, ProcPc
<1>8. CASE ProcessAnswer(t)
  <2>1. Answer(t) /\ UNCHANGED bg /\ pcall[t].pc = "check"
    BY <1>8 DEF ProcessAnswer
  <2>2. ~ pcall[t].listing => pcall[t].id # 0
    BY <1>0, <2>1 DEF CallOk
  <2> QED
    BY <1>2, <2>1, <2>2
<1>9. CASE ProcessGet(t) /\ Session(t).future = "read"
  <2> DEFINE q == [pcall[t] EXCEPT !.pc = "mark"]
  <2>1. pcall' = [pcall EXCEPT ![t] = q] /\ UNCHANGED bg /\ pcall[t].pc = "get"
        /\ bg[pcall[t].id].future = "read"
    BY <1>9 DEF ProcessGet, ProcGoto, Session
  <2>2. CallOk(q, bg)
    BY <1>0, <2>1 DEF CallOk, ProcCall, ProcPc, Reach
  <2> HIDE DEF q
  <2> QED
    BY <1>1, <2>1, <2>2
<1>10. CASE ProcessDrop(t) /\ UNCHANGED bg
  BY <1>1, <1>N, <1>10 DEF ProcessDrop
<1> QED
  BY <1>4, <1>5, <1>6, <1>7, <1>8, <1>9, <1>10

(* The steps of list and poll that read the future, and kill and clear.    *)
LEMMA SessionsKeep ==
  ASSUME ProcInv, NEW t \in ToolThread,
         \/ ProcessGet(t) /\ Session(t).future # "read"
         \/ ProcessRelease(t) \/ ProcessAssign(t) \/ ProcessMark(t)
         \/ ProcessKill(t) \/ ProcessClear(t)
  PROVE  ProcInv'
<1>0. /\ DOMAIN bg = 1 .. MaxProcs /\ MaxProcs \in Nat
      /\ pcall[t] \in ProcCall /\ CallOk(pcall[t], bg)
      /\ pcall[t].pc \notin {"idle", "check"} =>
           /\ pcall[t].id \in 1 .. MaxProcs /\ bg[pcall[t].id] \in BgSession
           /\ bg[pcall[t].id].future \in Live /\ pcall[t].id \in Reach(pcall[t])
      /\ \A j \in 1 .. MaxProcs :
           SessionOk(bg[j], \E u \in ToolThread : Carries(pcall[u], j))
  BY ProcLooked
<1>1. pcall[t].pc \notin {"idle", "check"}
  BY DEF ProcessGet, ProcessRelease, ProcessAssign, ProcessMark, ProcessKill, ProcessClear
<1>2. PICK i \in 1 .. MaxProcs, c \in ProcCall, y \in BgSession :
        c = pcall[t] /\ i = c.id /\ y = bg[i]
  BY <1>0, <1>1
<1>3. /\ CallOk(c, bg) /\ y.future \in Live /\ i \in Reach(c)
      /\ SessionOk(y, \E u \in ToolThread : Carries(pcall[u], i))
  BY <1>0, <1>1, <1>2
<1>4. ASSUME NEW q, NEW x, bg' = [bg EXCEPT ![i] = x], pcall' = [pcall EXCEPT ![t] = q],
             q \in ProcCall, q.id = i, q.todo = c.todo, q.listing = c.listing,
             q.pc \in {"release", "assign", "mark"} => x.future \in {"moved", "read"},
             q.pc \in {"release", "assign"} => q.text \/ x.raced,
             q.pc \notin {"idle", "check"} \/ c.pc # "check",
             x \in BgSession, x.future \in Live, x.listed = y.listed,
             y.raced => x.raced,
             y.future \in {"moved", "read"} => x.future \in {"moved", "read"},
             x.exited /\ ~ x.killed => x.future # "valid",
             x.future \in {"moved", "read"} =>
               x.output \/ x.cleared \/ x.raced
                 \/ Carries(q, i) \/ \E u \in ToolThread \ {t} : Carries(pcall[u], i)
      PROVE  ProcInv'
  <2>1. CallOk(q, bg')
    <3>1. \A j \in Reach(q) : /\ j \in Reach(c) /\ j \in 1 .. MaxProcs
                              /\ bg'[j] = IF j = i THEN x ELSE bg[j]
      BY <1>2, <1>4 DEF Reach, ProcCall, ProcInv
    <3>2. bg'[i] = x
      BY <1>0, <1>2, <1>4
    <3>3. \A j \in Reach(q) : bg'[j].future \in Live
      BY <1>2, <1>3, <1>4, <3>1 DEF CallOk
    <3>4. q.listing => \A j \in Reach(q) : bg'[j].listed
      BY <1>2, <1>3, <1>4, <3>1 DEF CallOk
    <3> QED
      BY <1>2, <1>3, <1>4, <3>2, <3>3, <3>4 DEF CallOk
  <2>2. \A u \in ToolThread : pcall'[u] = IF u = t THEN q ELSE pcall[u]
    BY <1>4 DEF ProcInv
  <2>3. SessionOk(x, \E u \in ToolThread : Carries(pcall'[u], i))
    <3>1. Carries(q, i) \/ (\E u \in ToolThread \ {t} : Carries(pcall[u], i))
            => \E u \in ToolThread : Carries(pcall'[u], i)
      BY <2>2
    <3> HIDE DEF Carries
    <3> QED
      BY <1>4, <1>3, <1>2, <3>1 DEF SessionOk
  <2>4. \A j \in 1 .. MaxProcs : j # i => ~ Carries(pcall[t], j)
    BY <1>2 DEF Carries
  <2> QED
    BY <1>2, <1>4, <2>1, <2>3, <2>4, SessionGoesOn
<1>5. CASE ProcessGet(t) /\ Session(t).future # "read"
  <2>1. PICK text \in BOOLEAN :
          /\ y.future = "valid" => text
          /\ c.pc = "get" /\ y.future # "read"
          /\ bg' = [bg EXCEPT ![i].raced = @ \/ y.future = "moved", ![i].future = "moved"]
          /\ pcall' = [pcall EXCEPT ![t].pc = "release", ![t].text = text]
    BY <1>2, <1>5 DEF ProcessGet, Session
  <2>2. PICK raced \in BOOLEAN : raced = (y.raced \/ y.future = "moved")
    OBVIOUS
  <2> DEFINE x == [y EXCEPT !.raced = raced, !.future = "moved"]
             q == [c EXCEPT !.pc = "release", !.text = text]
  <2>3. bg' = [bg EXCEPT ![i] = x] /\ pcall' = [pcall EXCEPT ![t] = q]
    BY <1>2, <2>1, <2>2
  <2>4. /\ q \in ProcCall /\ q.id = i /\ q.todo = c.todo /\ q.listing = c.listing
        /\ q.pc = "release" /\ q.text = text
    BY <1>2 DEF ProcCall, ProcPc
  <2>5. /\ x \in BgSession /\ x.future = "moved" /\ x.listed = y.listed /\ x.raced = raced
        /\ x.exited = y.exited /\ x.killed = y.killed
    BY <1>2 DEF BgSession, Live
  <2>6. text \/ raced
    BY <1>3, <2>1, <2>2 DEF Live
  <2>7. text => Carries(q, i)
    BY <2>4 DEF Carries
  <2> HIDE DEF x, q, Carries
  <2> QED
    BY <1>3, <1>4, <2>1, <2>2, <2>3, <2>4, <2>5, <2>6, <2>7 DEF Live
<1>6. CASE ProcessRelease(t)
  <2> DEFINE x == [y EXCEPT !.future = "read"]
             q == [c EXCEPT !.pc = "assign"]
  <2>1. /\ bg' = [bg EXCEPT ![i] = x] /\ pcall' = [pcall EXCEPT ![t] = q]
        /\ c.pc = "release"
    BY <1>2, <1>6 DEF ProcessRelease, ProcGoto
  <2>2. /\ q \in ProcCall /\ q.id = i /\ q.todo = c.todo /\ q.listing = c.listing
        /\ q.pc = "assign" /\ q.text = c.text
    BY <1>2 DEF ProcCall, ProcPc
  <2>3. /\ x \in BgSession /\ x.future = "read" /\ x.listed = y.listed /\ x.raced = y.raced
        /\ x.exited = y.exited /\ x.killed = y.killed
    BY <1>2 DEF BgSession, Live
  <2>4. c.text \/ y.raced
    BY <1>2, <1>3, <2>1 DEF CallOk
  <2>5. c.text => Carries(q, i)
    BY <2>2 DEF Carries
  <2> HIDE DEF x, q, Carries
  <2> QED
    BY <1>4, <2>1, <2>2, <2>3, <2>4, <2>5 DEF Live
<1>7. CASE ProcessAssign(t)
  <2> DEFINE x == [y EXCEPT !.output = c.text]
             q == [c EXCEPT !.pc = "mark", !.text = FALSE]
  <2>1. /\ bg' = [bg EXCEPT ![i] = x] /\ pcall' = [pcall EXCEPT ![t] = q]
        /\ c.pc = "assign"
    BY <1>2, <1>7 DEF ProcessAssign
  <2>2. /\ q \in ProcCall /\ q.id = i /\ q.todo = c.todo /\ q.listing = c.listing
        /\ q.pc = "mark"
    BY <1>2 DEF ProcCall, ProcPc
  <2>3. /\ x \in BgSession /\ x.future = y.future /\ x.listed = y.listed /\ x.raced = y.raced
        /\ x.exited = y.exited /\ x.killed = y.killed /\ x.output = c.text
    BY <1>2 DEF BgSession, ProcCall
  <2>4. (c.text \/ y.raced) /\ y.future \in {"moved", "read"}
    BY <1>2, <1>3, <2>1 DEF CallOk
  <2> HIDE DEF x, q, Carries
  <2> QED
    BY <1>3, <1>4, <2>1, <2>2, <2>3, <2>4
<1>8. CASE ProcessMark(t)
  <2> DEFINE x == [y EXCEPT !.exited = TRUE]
             q == [c EXCEPT !.pc = "check"]
  <2>1. /\ bg' = [bg EXCEPT ![i] = x] /\ pcall' = [pcall EXCEPT ![t] = q]
        /\ c.pc = "mark"
    BY <1>2, <1>8 DEF ProcessMark, ProcGoto
  <2>2. /\ q \in ProcCall /\ q.id = i /\ q.todo = c.todo /\ q.listing = c.listing
        /\ q.pc = "check"
    BY <1>2 DEF ProcCall, ProcPc
  <2>3. /\ x \in BgSession /\ x.future = y.future /\ x.listed = y.listed /\ x.raced = y.raced
        /\ x.cleared = y.cleared /\ x.killed = y.killed /\ x.output = y.output
    BY <1>2 DEF BgSession
  <2>4. y.future \in {"moved", "read"}
    BY <1>2, <1>3, <2>1 DEF CallOk
  <2>5. \A u \in ToolThread : Carries(pcall[u], i) => u # t
    BY <1>2, <2>1 DEF Carries
  <2>6. y.output \/ y.cleared \/ y.raced \/ \E u \in ToolThread \ {t} : Carries(pcall[u], i)
    BY <1>3, <2>4, <2>5 DEF SessionOk
  <2> HIDE DEF x, q, Carries
  <2> QED
    BY <1>3, <1>4, <2>1, <2>2, <2>3, <2>4, <2>6
<1>9. CASE ProcessKill(t)
  <2> DEFINE x == [y EXCEPT !.exited = TRUE, !.killed = TRUE]
             q == [c EXCEPT !.pc = "drop"]
  <2>1. /\ bg' = [bg EXCEPT ![i] = x] /\ pcall' = [pcall EXCEPT ![t] = q]
        /\ c.pc = "kill"
    BY <1>2, <1>9 DEF ProcessKill, ProcGoto
  <2>2. /\ q \in ProcCall /\ q.id = i /\ q.todo = c.todo /\ q.listing = c.listing
        /\ q.pc = "drop"
    BY <1>2 DEF ProcCall, ProcPc
  <2>3. /\ x \in BgSession /\ x.future = y.future /\ x.listed = y.listed /\ x.raced = y.raced
        /\ x.cleared = y.cleared /\ x.killed /\ x.output = y.output
    BY <1>2 DEF BgSession
  <2>5. \A u \in ToolThread : Carries(pcall[u], i) => u # t
    BY <1>2, <2>1 DEF Carries
  <2>6. y.future \in {"moved", "read"} =>
          y.output \/ y.cleared \/ y.raced \/ \E u \in ToolThread \ {t} : Carries(pcall[u], i)
    BY <1>3, <2>5 DEF SessionOk
  <2> HIDE DEF x, q, Carries
  <2> QED
    BY <1>3, <1>4, <2>1, <2>2, <2>3, <2>6
<1>10. CASE ProcessClear(t)
  <2> DEFINE x == [y EXCEPT !.output = FALSE, !.cleared = TRUE]
             q == [c EXCEPT !.pc = "drop"]
  <2>1. /\ bg' = [bg EXCEPT ![i] = x] /\ pcall' = [pcall EXCEPT ![t] = q]
        /\ c.pc = "clear"
    BY <1>2, <1>10 DEF ProcessClear, ProcGoto
  <2>2. /\ q \in ProcCall /\ q.id = i /\ q.todo = c.todo /\ q.listing = c.listing
        /\ q.pc = "drop"
    BY <1>2 DEF ProcCall, ProcPc
  <2>3. /\ x \in BgSession /\ x.future = y.future /\ x.listed = y.listed /\ x.raced = y.raced
        /\ x.cleared /\ x.killed = y.killed /\ x.exited = y.exited
    BY <1>2 DEF BgSession
  <2>4. y.exited /\ ~ y.killed => y.future # "valid"
    BY <1>3 DEF SessionOk
  <2> HIDE DEF x, q, Carries
  <2> QED
    BY <1>3, <1>4, <2>1, <2>2, <2>3, <2>4
<1> QED
  BY <1>5, <1>6, <1>7, <1>8, <1>9, <1>10

(* A new session, which no call knows, and one that ends: its fields are    *)
(* looked at by nobody.                                                     *)
LEMMA SessionBegins ==
  ASSUME ProcInv, NEW t \in ToolThread, ProcessStart(t)
  PROVE  ProcInv'
<1>0. /\ bg \in [1 .. MaxProcs -> BgSession] /\ DOMAIN bg = 1 .. MaxProcs
      /\ \A u \in ToolThread : CallOk(pcall[u], bg)
  BY DEF ProcInv
<1> DEFINE x == [NoProc EXCEPT !.listed = TRUE, !.running = TRUE, !.future = "valid"]
<1>1. PICK i \in 1 .. MaxProcs : bg[i] = NoProc /\ bg' = [bg EXCEPT ![i] = x]
  BY <1>0 DEF ProcessStart
<1>2. x \in BgSession /\ x.future = "valid" /\ ~ x.exited
  BY DEF NoProc, BgSession, Live
<1> HIDE DEF x
<1>3. pcall' = pcall
  BY DEF ProcessStart
<1>4. ASSUME NEW u \in ToolThread PROVE CallOk(pcall'[u], bg')
  <2>1. PICK r \in ProcCall : r = pcall[u] /\ r = pcall'[u] /\ CallOk(r, bg)
    BY <1>0, <1>3 DEF CallOk
  <2>2. i \notin Reach(r)
    BY <1>1, <2>1 DEF CallOk, NoProc, Live
  <2>3. \A j \in Reach(r) : bg'[j] = bg[j]
    BY <1>0, <1>1, <2>1, <2>2 DEF Reach, ProcCall
  <2>4. r.pc \in {"release", "assign", "mark"} => r.id \in Reach(r)
    BY <2>1 DEF CallOk, Reach
  <2> QED
    BY <2>1, <2>3, <2>4 DEF CallOk
<1>5. ASSUME NEW j \in 1 .. MaxProcs
      PROVE  SessionOk(bg'[j], \E u \in ToolThread : Carries(pcall'[u], j))
  BY <1>0, <1>1, <1>2, <1>3 DEF ProcInv, SessionOk, Live
<1> QED
  BY <1>0, <1>1, <1>2, <1>3, <1>4, <1>5 DEF ProcInv

(* A session is erased from the map, while no list is in progress, or its   *)
(* command ends.                                                            *)
LEMMA SessionErased ==
  ASSUME ProcInv,
         (\E t \in ToolThread : ProcessRemove(t)) \/ (\E i \in DOMAIN bg : ProcessEnds(i))
  PROVE  ProcInv'
<1>0. /\ bg \in [1 .. MaxProcs -> BgSession] /\ DOMAIN bg = 1 .. MaxProcs
      /\ pcall \in [ToolThread -> ProcCall] /\ \A u \in ToolThread : CallOk(pcall[u], bg)
      /\ MaxProcs \in Nat
  BY ToolAssumption DEF ProcInv
<1>1. PICK i \in 1 .. MaxProcs, x \in BgSession :
        /\ bg' = [bg EXCEPT ![i] = x]
        /\ x.future = bg[i].future /\ x.exited = bg[i].exited /\ x.output = bg[i].output
        /\ x.killed = bg[i].killed /\ x.cleared = bg[i].cleared /\ x.raced = bg[i].raced
        /\ x.listed = bg[i].listed \/ (~ x.listed /\ ~ Locked)
  <2>1. CASE \E t \in ToolThread : ProcessRemove(t)
    <3>1. PICK t \in ToolThread : ProcessRemove(t)
      BY <2>1
    <3>2. PICK i \in 1 .. MaxProcs : i = pcall[t].id
      BY <3>1, ProcLooked DEF ProcessRemove
    <3> DEFINE x == [bg[i] EXCEPT !.listed = FALSE]
    <3>3. bg' = [bg EXCEPT ![i] = x] /\ ~ Locked
      BY <3>1, <3>2 DEF ProcessRemove
    <3>4. /\ x \in BgSession /\ ~ x.listed
          /\ x.future = bg[i].future /\ x.exited = bg[i].exited /\ x.output = bg[i].output
          /\ x.killed = bg[i].killed /\ x.cleared = bg[i].cleared /\ x.raced = bg[i].raced
      BY <1>0 DEF BgSession
    <3> HIDE DEF x
    <3> QED
      BY <3>3, <3>4
  <2>2. CASE \E i \in DOMAIN bg : ProcessEnds(i)
    <3>1. PICK i \in 1 .. MaxProcs : ProcessEnds(i)
      BY <1>0, <2>2
    <3> DEFINE x == [bg[i] EXCEPT !.running = FALSE]
    <3>3. bg' = [bg EXCEPT ![i] = x]
      BY <3>1 DEF ProcessEnds
    <3>4. /\ x \in BgSession /\ x.listed = bg[i].listed
          /\ x.future = bg[i].future /\ x.exited = bg[i].exited /\ x.output = bg[i].output
          /\ x.killed = bg[i].killed /\ x.cleared = bg[i].cleared /\ x.raced = bg[i].raced
      BY <1>0 DEF BgSession
    <3> HIDE DEF x
    <3> QED
      BY <3>3, <3>4
  <2> QED
    BY <2>1, <2>2
<1> DEFINE Same ==
      /\ pcall' \in [ToolThread -> ProcCall]
      /\ \A u \in ToolThread :
           /\ pcall'[u].id = pcall[u].id /\ pcall'[u].todo = pcall[u].todo
           /\ pcall'[u].text = pcall[u].text /\ pcall'[u].listing = pcall[u].listing
           /\ pcall'[u].pc = pcall[u].pc \/ (pcall[u].pc = "remove" /\ pcall'[u].pc = "drop")
<1>2. Same
  <2>1. CASE pcall' = pcall
    BY <1>0, <2>1
  <2>2. ASSUME NEW t \in ToolThread, ProcessRemove(t)
        PROVE  pcall' = [pcall EXCEPT ![t].pc = "drop"] /\ pcall[t].pc = "remove"
    BY <2>2 DEF ProcessRemove, ProcGoto
  <2>3. \A j \in DOMAIN bg : ProcessEnds(j) => pcall' = pcall
    BY DEF ProcessEnds
  <2>4. ASSUME NEW t \in ToolThread, pcall' = [pcall EXCEPT ![t].pc = "drop"],
               pcall[t].pc = "remove"
        PROVE  Same
    BY <1>0, <2>4 DEF ProcCall, ProcPc
  <2> QED
    BY <2>1, <2>2, <2>3, <2>4
<1>3. \A j \in 1 .. MaxProcs :
        /\ bg'[j].future = bg[j].future /\ bg'[j].raced = bg[j].raced
        /\ bg'[j].listed = bg[j].listed \/ ~ Locked
        /\ bg'[j].listed => bg[j].listed
  BY <1>0, <1>1
<1>4. ASSUME NEW u \in ToolThread PROVE CallOk(pcall'[u], bg')
  <2>1. PICK r \in ProcCall, q \in ProcCall :
          /\ r = pcall[u] /\ q = pcall'[u] /\ CallOk(r, bg)
          /\ q.id = r.id /\ q.todo = r.todo /\ q.text = r.text /\ q.listing = r.listing
          /\ q.pc = r.pc \/ (r.pc = "remove" /\ q.pc = "drop")
    BY <1>0, <1>2
  <2>2. Reach(q) = Reach(r) /\ Reach(r) \subseteq 1 .. MaxProcs
    BY <2>1 DEF Reach, ProcCall
  <2>3. q.listing => Locked
    BY <2>1 DEF Locked
  <2>4. q.pc \in {"release", "assign", "mark"} => q.id \in Reach(r)
    BY <2>1 DEF CallOk, Reach
  <2> QED
    BY <1>3, <2>1, <2>2, <2>3, <2>4 DEF CallOk
<1>5. ASSUME NEW j \in 1 .. MaxProcs
      PROVE  SessionOk(bg'[j], \E u \in ToolThread : Carries(pcall'[u], j))
  <2>1. (\E u \in ToolThread : Carries(pcall[u], j))
          => \E u \in ToolThread : Carries(pcall'[u], j)
    BY <1>2 DEF Carries
  <2>2. SessionOk(bg[j], \E u \in ToolThread : Carries(pcall[u], j))
    BY DEF ProcInv
  <2>3. /\ bg'[j] \in BgSession /\ (bg'[j].listed => bg[j].listed)
        /\ bg'[j].future = bg[j].future /\ bg'[j].exited = bg[j].exited
        /\ bg'[j].output = bg[j].output /\ bg'[j].killed = bg[j].killed
        /\ bg'[j].cleared = bg[j].cleared /\ bg'[j].raced = bg[j].raced
    BY <1>0, <1>1, <1>3
  <2>4. /\ bg[j].listed => bg[j].future \in Live
        /\ bg[j].exited /\ ~ bg[j].killed => bg[j].future # "valid"
        /\ bg[j].future \in {"moved", "read"} =>
             \/ bg[j].output \/ bg[j].cleared \/ bg[j].raced
             \/ \E u \in ToolThread : Carries(pcall[u], j)
    BY <2>2 DEF SessionOk
  <2>5. /\ bg'[j] \in BgSession
        /\ bg'[j].listed => bg'[j].future \in Live
        /\ bg'[j].exited /\ ~ bg'[j].killed => bg'[j].future # "valid"
    BY <2>3, <2>4
  <2>6. bg'[j].future \in {"moved", "read"} =>
          \/ bg'[j].output \/ bg'[j].cleared \/ bg'[j].raced
          \/ \E u \in ToolThread : Carries(pcall'[u], j)
    BY <2>1, <2>3, <2>4
  <2> QED
    BY <2>5, <2>6 DEF SessionOk
<1> QED
  BY <1>0, <1>1, <1>2, <1>4, <1>5 DEF ProcInv

(* Nobody else knows a session that is destroyed.                          *)
LEMMA SessionDestroyed ==
  ASSUME ProcInv, NEW t \in ToolThread, ProcessDrop(t), ~ UNCHANGED bg
  PROVE  ProcInv'
<1>0. /\ bg \in [1 .. MaxProcs -> BgSession] /\ DOMAIN bg = 1 .. MaxProcs
      /\ pcall \in [ToolThread -> ProcCall] /\ \A u \in ToolThread : CallOk(pcall[u], bg)
      /\ MaxProcs \in Nat
  BY ToolAssumption DEF ProcInv
<1>1. PICK i \in 1 .. MaxProcs :
        /\ i = pcall[t].id /\ ~ bg[i].listed /\ bg' = [bg EXCEPT ![i] = Destroyed]
        /\ \A u \in ToolThread \ {t} : pcall[u].id # i
  BY ProcLooked DEF ProcessDrop, Session
<1>2. Destroyed \in BgSession /\ Destroyed.future = "destroyed" /\ ~ Destroyed.exited
        /\ ~ Destroyed.listed
  BY DEF Destroyed, NoProc, BgSession, Live
<1>3. /\ NoProcCall \in ProcCall /\ NoProcCall.pc = "idle" /\ ~ NoProcCall.listing
      /\ Reach(NoProcCall) = {} /\ NoProcCall.todo = {}
  BY <1>0 DEF NoProcCall, ProcCall, ProcPc, Reach
<1>4. /\ pcall' \in [ToolThread -> ProcCall]
      /\ \A u \in ToolThread : pcall'[u] = IF u = t THEN NoProcCall ELSE pcall[u]
  BY <1>0, <1>3 DEF ProcessDrop
<1>5. ASSUME NEW u \in ToolThread PROVE CallOk(pcall'[u], bg')
  <2>1. CASE u = t
    BY <1>3, <1>4, <2>1 DEF CallOk
  <2>2. CASE u # t
    <3>1. PICK r \in ProcCall : r = pcall[u] /\ r = pcall'[u] /\ CallOk(r, bg)
      BY <1>0, <1>4, <2>2
    <3>2. i \notin Reach(r)
      <4>1. i # r.id
        BY <1>1, <2>2, <3>1
      <4> QED
        BY <1>1, <3>1, <4>1 DEF CallOk, Reach
    <3>3. \A j \in Reach(r) : bg'[j] = bg[j]
      BY <1>0, <1>1, <3>1, <3>2 DEF Reach, ProcCall
    <3>4. r.pc \in {"release", "assign", "mark"} => r.id \in Reach(r)
      BY <3>1 DEF CallOk, Reach
    <3> QED
      BY <3>1, <3>3, <3>4 DEF CallOk
  <2> QED
    BY <2>1, <2>2
<1>6. ASSUME NEW j \in 1 .. MaxProcs
      PROVE  SessionOk(bg'[j], \E u \in ToolThread : Carries(pcall'[u], j))
  <2>1. CASE j = i
    BY <1>0, <1>1, <1>2, <2>1 DEF SessionOk
  <2>2. CASE j # i
    <3>1. (\E u \in ToolThread : Carries(pcall[u], j))
            => \E u \in ToolThread : Carries(pcall'[u], j)
      BY <1>1, <1>4, <2>2 DEF Carries
    <3>2. SessionOk(bg[j], \E u \in ToolThread : Carries(pcall[u], j)) /\ bg'[j] = bg[j]
      BY <1>0, <1>1, <2>2 DEF ProcInv
    <3> HIDE DEF Carries
    <3> QED
      BY <3>1, <3>2 DEF SessionOk
  <2> QED
    BY <2>1, <2>2
<1> QED
  BY <1>0, <1>1, <1>2, <1>4, <1>5, <1>6 DEF ProcInv

(* Every step of the process tool.                                         *)
LEMMA ProcNextInv == ProcInv /\ [ProcNext]_procVars => ProcInv'
<1> SUFFICES ASSUME ProcInv, [ProcNext]_procVars PROVE ProcInv'
  OBVIOUS
<1>1. CASE UNCHANGED procVars
  BY <1>1 DEF procVars, ProcInv
<1>2. ASSUME NEW t \in ToolThread, ProcessGet(t) PROVE ProcInv'
  BY <1>2, CallsKeep, SessionsKeep
<1>3. ASSUME NEW t \in ToolThread, ProcessDrop(t) PROVE ProcInv'
  BY <1>3, CallsKeep, SessionDestroyed
<1> QED
  BY <1>1, <1>2, <1>3, CallsKeep, SessionsKeep, SessionBegins, SessionErased DEF ProcNext

(* No background command when the registry is constructed.                 *)
LEMMA ProcInitInv == ProcInit => ProcInv
<1> SUFFICES ASSUME ProcInit PROVE ProcInv
  OBVIOUS
<1>1. NoProc \in BgSession /\ ~ NoProc.listed /\ NoProc.future = "none" /\ ~ NoProc.exited
  BY DEF NoProc, BgSession
<1>2. CallOk(NoProcCall, bg) /\ NoProcCall \in ProcCall
  BY ToolAssumption DEF CallOk, NoProcCall, ProcCall, ProcPc, Reach
<1> QED
  BY <1>1, <1>2 DEF ProcInit, ProcInv, SessionOk

(* However calls, operators, the expiry, reloads and background commands   *)
(* interleave: a command that runs unasked was allowed by configurations   *)
(* its call has seen, every request is recorded once and its caller acts   *)
(* on the record, and the output of a background command is lost only to   *)
(* clear and to two calls that are in future.get() at once                 *)
(* (exec_approval.cpp, RequestApproval and Configure; tool_registry.cpp,   *)
(* the process tool).                                                      *)
THEOREM ToolsAlwaysSafe == ExecSpec /\ ProcSpec => []ToolsSafe
<1>1. ExecInv => RunsByConfig /\ RecordedOnce
  BY DEF ExecInv, ConfigInv, LetThrough, RunsByConfig, RecordInv
<1>2. ProcInv => OutputKept
  BY DEF ProcInv, SessionOk, Carries, OutputKept
<1>3. ExecInv /\ ProcInv => ToolsSafe
  BY <1>1, <1>2 DEF ToolsSafe
<1>4. ExecSpec => []ExecInv
  BY ExecInitInv, ExecNextInv, PTL DEF ExecSpec
<1>5. ProcSpec => []ProcInv
  BY ProcInitInv, ProcNextInv, PTL DEF ProcSpec
<1> QED
  BY <1>3, <1>4, <1>5, PTL

-----------------------------------------------------------------------------
(***************************************************************************)
(* GatewayProcess.                                                         *)
(***************************************************************************)
(* The gateway process on its own: what happens to the file, the reloads   *)
(* and the life of the process in one behaviour, whatever the first file   *)
(* says.                                                                   *)
GpFiles(V) ==
  {f \in [state : {"none", "torn", "good"}, root : [Sections -> V]] :
     f.state # "good" => f.root = Empty}

GpSpec ==
  /\ \E V : \E file \in GpFiles(V) : GpInit(file)
  /\ [][ConfigNext \/ LifeNext]_gpVars

(* Types of the file, the threads and the process.                         *)
GpConfig(V) == [agent : V, allow : V, exec : V]

GpPc == {"idle", "read", "opened", "load", "assign", "agent", "allow", "exec", "record"}

GpTypes(V) ==
  /\ gpFile \in [state : {"none", "torn", "good"}, root : [Sections -> V],
                 mtime : Nat, bak : {"none", "torn", "good"}]
  /\ gpThread \in [Reloader \cup Writer -> [pc : GpPc, value : [Sections -> V]]]
  /\ gpRunning \in [config : GpConfig(V), agent : V, allow : V, exec : V]
  /\ gpProc \in [state : {"off", "wiring", "serving", "up"}, loaded : Nat, mtime : Nat,
                 current : Nat, missed : BOOLEAN, raced : BOOLEAN]

(* The threads that reload exist while the gateway does, the watcher only  *)
(* once it was started, and whatever time is remembered the file had.      *)
GpTimes ==
  /\ gpProc.state = "off" => \A t \in Reloader : gpThread[t] = IdleThread
  /\ gpProc.state # "up" => gpThread["watcher"] = IdleThread
  /\ gpThread["watcher"].pc \in
       {"idle", "load", "assign", "agent", "allow", "exec", "record"}
  /\ gpProc.loaded <= gpFile.mtime
  /\ gpProc.mtime <= gpFile.mtime /\ gpProc.current <= gpFile.mtime
  /\ gpFile.state = "none" => gpFile.mtime = 0

(* The gateway knows the file: it booted with it, the watcher recorded its *)
(* time, or will when the reload under way is done.                        *)
KnowsFile ==
  /\ Readable /\ ~gpProc.raced
  /\ \/ gpProc.state \in {"wiring", "serving"} /\ gpProc.loaded = gpFile.mtime
     \/ /\ gpProc.state = "up" /\ ~gpProc.missed
        /\ \/ gpProc.mtime = gpFile.mtime
           \/ /\ gpProc.current = gpFile.mtime
              /\ gpThread["watcher"].pc \in {"assign", "agent", "allow", "exec", "record"}

(* A part has its share of the file, or a reload that has read the file    *)
(* has yet to bring it.                                                    *)
Brings(pcs) == \E t \in Reloader : gpThread[t].pc \in pcs

OnTheWay ==
  LET file == FromJson(gpFile.root)
  IN  /\ \A t \in Reloader : InReload(t) => gpThread[t].value = gpFile.root
      /\ gpRunning.config = file \/ Brings({"assign"})
      /\ gpRunning.agent = file.agent \/ Brings({"assign", "agent"})
      /\ gpRunning.allow = file.allow \/ Brings({"assign", "agent", "allow"})
      /\ \/ file.exec = "none" \/ gpRunning.exec = file.exec
         \/ Brings({"assign", "agent", "allow", "exec"})

(* The texts that the program itself puts into a configuration.            *)
Texts(V) == {"none", "default", "b"} \subseteq V

GpInv == (\E V : Texts(V) /\ GpTypes(V)) /\ GpTimes /\ (KnowsFile => OnTheWay)

(* What a file says is a configuration.                                    *)
LEMMA ConfigTyped ==
  ASSUME NEW V, Texts(V)
  PROVE  /\ Empty \in [Sections -> V]
         /\ \A root \in [Sections -> V] : FromJson(root) \in GpConfig(V)
         /\ DefaultConfig \in GpConfig(V)
<1>1. Empty \in [Sections -> V]
  BY DEF Empty, Texts
<1>2. ASSUME NEW root \in [Sections -> V]
      PROVE  FromJson(root) \in GpConfig(V)
  BY DEF FromJson, Sections, Texts, GpConfig
<1> QED
  BY <1>1, <1>2 DEF DefaultConfig

(* The end of the process keeps the types.                                 *)
LEMMA DeadTyped ==
  ASSUME NEW V, Texts(V), GpTypes(V), Dead
  PROVE  GpTypes(V)'
<1>1. IdleThread \in [pc : GpPc, value : [Sections -> V]]
  BY ConfigTyped DEF GpPc, IdleThread
<1>2. gpThread' \in [Reloader \cup Writer -> [pc : GpPc, value : [Sections -> V]]]
  BY <1>1 DEF Dead, GpTypes
<1> QED
  BY <1>2, ConfigTyped DEF GpPc, GpConfig, Texts, Dead, GpTypes, ProcOff, NothingRuns

(* Each action keeps the types.                                            *)
LEMMA GpTyped ==
  ASSUME NEW V, Texts(V), GpTypes(V), ConfigNext \/ LifeNext
  PROVE  GpTypes(V)'
<1> USE DEF GpTypes, GpConfig, GpPc, Texts
<1>0. /\ gpFile.mtime + 1 \in Nat /\ gpFile.root \in [Sections -> V]
      /\ \A t \in Reloader \cup Writer : gpThread[t].value \in [Sections -> V]
      /\ gpRunning.config \in GpConfig(V)
  OBVIOUS
<1>1. CASE Boot
  <2>1. FromJson(gpFile.root) \in GpConfig(V)
    BY <1>0, ConfigTyped
  <2>2. gpRunning' \in [config : GpConfig(V), agent : V, allow : V, exec : V]
    BY <1>1, <2>1, ConfigTyped DEF GpPc, Boot
  <2> QED
    BY <1>1, <2>2 DEF Boot
<1>2. CASE StartWatcher
  BY <1>2 DEF StartWatcher
<1>3. CASE \E ok \in BOOLEAN : StartServer(ok)
  BY <1>3, DeadTyped DEF StartServer
<1>4. CASE Killed \/ Exit
  BY <1>4, DeadTyped DEF Killed, Exit
<1>5. CASE \E t \in Writer, p \in Paths, v \in {"b", "none"} : ReadForWrite(t, p, v)
  <2>1. PICK t \in Writer, p \in Paths, v \in {"b", "none"} : ReadForWrite(t, p, v)
    BY <1>5
  <2>2. [gpFile.root EXCEPT ![p] = v] \in [Sections -> V]
    BY <1>0
  <2> QED
    BY <2>1, <2>2 DEF ReadForWrite
<1>6. CASE \E t \in Writer : Truncate(t)
  BY <1>6, <1>0, ConfigTyped DEF GpPc, Truncate, Goes
<1>7. CASE \E t \in Writer : Write(t)
  BY <1>7, <1>0 DEF Write, Goes, Writer
<1>8. CASE CliKilled
  BY <1>8, ConfigTyped DEF GpPc, CliKilled, IdleThread, Writer
<1>9. CASE \E t \in Reloader : StartReload(t)
  BY <1>9 DEF StartReload, Goes
<1>10. CASE Watch \/ RecordTime
  <2>1. CASE Watch
    BY <2>1, <1>0 DEF Watch, Goes, Reloader
  <2>2. CASE RecordTime
    <3>1. gpProc' \in [state : {"off", "wiring", "serving", "up"}, loaded : Nat, mtime : Nat,
                        current : Nat, missed : BOOLEAN, raced : BOOLEAN]
      BY <2>2 DEF RecordTime
    <3> QED
      BY <2>2, <3>1 DEF RecordTime, Goes, Reloader
  <2> QED
    BY <1>10, <2>1, <2>2
<1>11. CASE \E t \in Reloader : LoadConfig(t)
  <2>1. PICK t \in Reloader : LoadConfig(t)
    BY <1>11
  <2>2. CASE Readable
    <3> DEFINE others == {u \in Reloader \ {t} : InReload(u)}
               races  == \E u \in others : gpThread[u].value # gpFile.root
               now    == others # {} /\ (gpProc.raced \/ races)
    <3>1. now \in BOOLEAN
      OBVIOUS
    <3>2. /\ gpThread' = [gpThread EXCEPT ![t] = [pc |-> "assign", value |-> gpFile.root]]
          /\ gpProc' = [gpProc EXCEPT !.raced = now, !.missed = FALSE]
          /\ UNCHANGED <<gpFile, gpRunning>>
      BY <2>1, <2>2 DEF LoadConfig
    <3> HIDE DEF now
    <3> QED
      BY <3>1, <3>2, <1>0
  <2>3. CASE ~Readable
    BY <2>1, <2>3 DEF LoadConfig, Goes, After
  <2> QED
    BY <2>2, <2>3
<1>12. CASE \E t \in Reloader : Apply(t)
  <2>1. PICK t \in Reloader : Apply(t)
    BY <1>12
  <2>2. FromJson(gpThread[t].value) \in GpConfig(V)
    BY <1>0, ConfigTyped
  <2>3. gpThread' \in [Reloader \cup Writer -> [pc : GpPc, value : [Sections -> V]]]
    BY <2>1, ConfigTyped DEF GpPc, Apply, Goes, After
  <2>4. gpRunning' \in [config : GpConfig(V), agent : V, allow : V, exec : V]
    BY SMTT(40), <2>1, <2>2, <1>0 DEF Apply
  <2> QED
    BY <2>1, <2>3, <2>4 DEF Apply
<1>13. CASE \/ \E on \in {"main", "watcher", "other"} : Terminate(on)
            \/ ServiceStop
  BY <1>13, DeadTyped DEF Terminate, ServiceStop
<1>14. CASE \/ \E ok \in BOOLEAN : Install(ok)
            \/ StopInCallback \/ JoinWatcher \/ StopInMain \/ Uninstall
  BY <1>14 DEF Install, StopInCallback, JoinWatcher, StopInMain, Uninstall
<1> QED
  BY <1>1, <1>2, <1>3, <1>4, <1>5, <1>6, <1>7, <1>8, <1>9, <1>10, <1>11, <1>12, <1>13,
     <1>14 DEF ConfigNext, LifeNext, ServiceStart, Reloader

(* A reload that has just read the file brings it, unless another one      *)
(* brings something else.                                                  *)
LEMMA LoadBrings ==
  ASSUME NEW V, Texts(V), GpTypes(V), NEW t \in Reloader, LoadConfig(t), Readable, ~gpProc'.raced
  PROVE  OnTheWay'
<1>1. /\ gpThread' = [gpThread EXCEPT ![t] = [pc |-> "assign", value |-> gpFile.root]]
      /\ gpFile' = gpFile
      /\ \A u \in Reloader \ {t} : InReload(u) => gpThread[u].value = gpFile.root
  BY DEF LoadConfig, GpTypes
<1>2. gpThread'[t] = [pc |-> "assign", value |-> gpFile.root]
  BY <1>1 DEF GpTypes
<1>3. \A u \in Reloader \ {t} : gpThread'[u] = gpThread[u]
  BY <1>1 DEF GpTypes
<1>4. \A u \in Reloader : InReload(u)' => gpThread'[u].value = gpFile'.root
  BY <1>1, <1>2, <1>3 DEF InReload
<1> QED
  BY <1>2, <1>4 DEF OnTheWay, Brings

(* One step of a reload brings what it carries, and what another reload    *)
(* would still bring it may overwrite.                                     *)
LEMMA ApplyBrings ==
  ASSUME NEW V, Texts(V), GpTypes(V), NEW t \in Reloader, Apply(t), OnTheWay
  PROVE  OnTheWay'
<1> DEFINE file == FromJson(gpFile.root)
<1>0. gpFile' = gpFile /\ gpThread[t].pc \in {"assign", "agent", "allow", "exec"}
  BY DEF Apply
<1>1. gpThread[t].value = gpFile.root
  BY <1>0 DEF OnTheWay, InReload
<1>2. \A u \in Reloader \ {t} : gpThread'[u] = gpThread[u]
  BY DEF Apply, Goes, GpTypes
<1>3. \/ gpThread'[t].pc \in {"idle", "record"}
      \/ /\ gpThread'[t].value = gpThread[t].value
         /\ gpThread'[t].pc \in {"agent", "allow", "exec"}
  BY DEF Apply, Goes, GpTypes, After
<1>4. \A u \in Reloader : InReload(u)' => gpThread'[u].value = gpFile'.root
  BY <1>0, <1>1, <1>2, <1>3 DEF OnTheWay, InReload
<1>5. \A pcs : (\E u \in Reloader \ {t} : gpThread[u].pc \in pcs) => Brings(pcs)'
  BY <1>2 DEF Brings
<1>6. gpRunning'.config = file \/ Brings({"assign"})'
  <2>1. CASE gpThread[t].pc = "assign"
    BY <2>1, <1>1 DEF Apply, GpTypes
  <2>2. CASE gpThread[t].pc # "assign"
    <3>1. gpRunning'.config = gpRunning.config
      BY <2>2 DEF Apply, GpTypes
    <3> QED
      BY <2>2, <3>1, <1>5 DEF OnTheWay, Brings
  <2> QED
    BY <2>1, <2>2
<1>7. gpRunning'.agent = file.agent \/ Brings({"assign", "agent"})'
  <2>1. CASE gpThread[t].pc = "assign"
    BY <2>1 DEF Apply, Goes, GpTypes, Brings
  <2>2. CASE gpThread[t].pc = "agent"
    <3>1. gpRunning'.agent = gpRunning.config.agent
      BY <2>2 DEF Apply, GpTypes
    <3> QED
      BY <2>2, <3>1, <1>2 DEF OnTheWay, Brings
  <2>3. CASE gpThread[t].pc \notin {"assign", "agent"}
    <3>1. gpRunning'.agent = gpRunning.agent
      BY <2>3 DEF Apply, GpTypes
    <3> QED
      BY <2>3, <3>1, <1>5 DEF OnTheWay, Brings
  <2> QED
    BY <2>1, <2>2, <2>3
<1>8. gpRunning'.allow = file.allow \/ Brings({"assign", "agent", "allow"})'
  <2>1. CASE gpThread[t].pc \in {"assign", "agent"}
    BY <2>1 DEF Apply, Goes, GpTypes, Brings
  <2>2. CASE gpThread[t].pc = "allow"
    <3>1. gpRunning'.allow = gpRunning.config.allow
      BY <2>2 DEF Apply, GpTypes
    <3> QED
      BY <2>2, <3>1, <1>2 DEF OnTheWay, Brings
  <2>3. CASE gpThread[t].pc = "exec"
    <3>1. gpRunning'.allow = gpRunning.allow
      BY <2>3 DEF Apply, GpTypes
    <3> QED
      BY <2>3, <3>1, <1>5 DEF OnTheWay, Brings
  <2> QED
    BY <1>0, <2>1, <2>2, <2>3
<1>9. \/ file.exec = "none" \/ gpRunning'.exec = file.exec
      \/ Brings({"assign", "agent", "allow", "exec"})'
  <2>1. CASE gpThread[t].pc # "exec"
    BY <1>0, <2>1 DEF Apply, Goes, GpTypes, Brings
  <2>2. CASE gpThread[t].pc = "exec"
    <3>1. gpRunning'.exec = IF gpRunning.config.exec = "none" THEN gpRunning.exec
                            ELSE gpRunning.config.exec
      BY <2>2 DEF Apply, GpTypes
    <3>2. CASE gpRunning.config = file
      BY <3>1, <3>2
    <3>3. CASE gpRunning.config # file
      BY <2>2, <3>3, <1>2 DEF OnTheWay, Brings
    <3> QED
      BY <3>2, <3>3
  <2> QED
    BY <2>1, <2>2
<1> QED
  BY <1>0, <1>4, <1>6, <1>7, <1>8, <1>9 DEF OnTheWay

(* When nothing that concerns the reloads changes, nothing is lost.        *)
LEMMA WayKept ==
  ASSUME OnTheWay, gpFile' = gpFile, gpRunning' = gpRunning,
         \A t \in Reloader :
           \/ gpThread'[t] = gpThread[t]
           \/ ~InReload(t) /\ ~InReload(t)'
  PROVE  OnTheWay'
<1>1. \A pcs \in SUBSET {"assign", "agent", "allow", "exec"} : Brings(pcs) => Brings(pcs)'
  BY DEF Brings, InReload
<1>2. \A u \in Reloader : InReload(u)' => gpThread'[u].value = gpFile'.root
  BY DEF OnTheWay, InReload
<1> QED
  BY <1>1, <1>2 DEF OnTheWay

(* The first file: the process is not there yet.                           *)
LEMMA GpStart ==
  ASSUME NEW W, NEW file \in GpFiles(W), GpInit(file)
  PROVE  GpInv
<1> DEFINE V == W \cup {"none", "default", "b"}
<1>1. Texts(V)
  BY DEF Texts
<1>2. file.root \in [Sections -> V] /\ file.state \in {"none", "torn", "good"}
  BY DEF GpFiles
<1> HIDE DEF V
<1>3. GpTypes(V)
  BY <1>1, <1>2, ConfigTyped
     DEF GpInit, GpTypes, GpPc, IdleThread, NothingRuns, ProcOff, Texts, GpConfig
<1>4. GpTimes
  BY DEF GpInit, GpTimes, IdleThread, ProcOff, Reloader
<1>5. ~KnowsFile
  BY DEF GpInit, KnowsFile, ProcOff
<1> QED
  BY <1>1, <1>3, <1>4, <1>5 DEF GpInv

(* Times are those of the file, and no reload outlives the process.        *)
LEMMA GpTimesKept ==
  ASSUME NEW V, Texts(V), GpTypes(V), GpTimes, ConfigNext \/ LifeNext
  PROVE  GpTimes'
<1> USE DEF GpTypes, GpTimes
<1>0. "watcher" \in Reloader /\ "signal" \in Reloader /\ "watcher" \notin Writer
  BY ReloaderAssumption DEF Reloader, Writer
<1>a. ASSUME Dead PROVE GpTimes'
  <2>1. \A t \in Reloader : gpThread'[t] = IdleThread
    BY <1>a, ReloaderAssumption DEF Dead, Reloader
  <2> QED
    BY <1>a, <1>0, <2>1 DEF Dead, ProcOff, IdleThread
<1>1. CASE Boot
  BY <1>1, <1>0 DEF Boot
<1>2. CASE StartWatcher
  BY <1>2 DEF StartWatcher
<1>3. CASE \E ok \in BOOLEAN : StartServer(ok)
  BY <1>3, <1>a DEF StartServer
<1>4. CASE Killed \/ Exit
  BY <1>4, <1>a DEF Killed, Exit
<1>5. CASE \E t \in Writer, p \in Paths, v \in {"b", "none"} : ReadForWrite(t, p, v)
  <2>1. PICK t \in Writer, p \in Paths, v \in {"b", "none"} : ReadForWrite(t, p, v)
    BY <1>5
  <2>2. t \in Reloader => t \in RpcThread
    BY ReloaderAssumption DEF Reloader, Writer
  <2> QED
    BY <2>1, <2>2, <1>0 DEF ReadForWrite
<1>6. CASE \E t \in Writer : Truncate(t) \/ Write(t)
  <2>1. PICK t \in Writer : Truncate(t) \/ Write(t)
    BY <1>6
  <2>2. t \in Reloader /\ gpProc.state = "off" => gpThread[t].pc = "idle"
    BY DEF IdleThread
  <2>3. gpThread'["watcher"] = gpThread["watcher"]
    BY <2>1, <1>0 DEF Truncate, Write, Goes
  <2>4. \A u \in Reloader \ {t} : gpThread'[u] = gpThread[u]
    BY <2>1 DEF Truncate, Write, Goes
  <2>5. /\ gpFile'.mtime = gpFile.mtime + 1 /\ gpFile'.state # "none"
        /\ gpThread[t].pc # "idle" /\ gpProc' = gpProc
    BY <2>1 DEF Truncate, Write
  <2>6. gpFile.mtime \in Nat /\ gpProc.loaded \in Nat /\ gpProc.mtime \in Nat /\ gpProc.current \in Nat
    OBVIOUS
  <2> QED
    BY <2>2, <2>3, <2>4, <2>5, <2>6
<1>7. CASE CliKilled
  <2>1. \A u \in Reloader : gpThread'[u] = gpThread[u]
    BY <1>7, ReloaderAssumption DEF CliKilled, Reloader, Writer
  <2> QED
    BY <1>7, <2>1, <1>0 DEF CliKilled
<1>8. CASE \E t \in Reloader : StartReload(t)
  BY <1>8, <1>0 DEF StartReload, Goes
<1>9. CASE Watch
  BY <1>9, <1>0 DEF Watch, Goes
<1>10. CASE RecordTime
  <2>1. gpProc.state = "up"
    BY <1>10, <1>0 DEF RecordTime, IdleThread
  <2>2. gpProc'.mtime = gpProc.current /\ gpProc'.current = 0 /\ gpProc'.state = "up"
        /\ gpProc'.loaded = gpProc.loaded /\ gpFile' = gpFile
    BY <1>10, <2>1 DEF RecordTime
  <2>3. gpThread'["watcher"].pc = "idle"
    BY <1>10, <1>0 DEF RecordTime, Goes
  <2>4. gpFile.mtime \in Nat
    OBVIOUS
  <2> QED
    BY <2>1, <2>2, <2>3, <2>4
<1>11. CASE \E t \in Reloader : LoadConfig(t)
  <2>1. PICK t \in Reloader : LoadConfig(t)
    BY <1>11
  <2>2. gpThread[t].pc = "load" /\ gpProc.state # "off"
    BY <2>1 DEF LoadConfig, IdleThread
  <2>3. \A u \in Reloader \ {t} : gpThread'[u] = gpThread[u]
    BY <2>1 DEF LoadConfig, Goes
  <2>4. gpThread'[t].pc = "assign" \/ gpThread'[t].pc = After(t)
    BY <2>1 DEF LoadConfig, Goes
  <2>5. /\ gpFile' = gpFile /\ gpProc'.state = gpProc.state /\ gpProc'.loaded = gpProc.loaded
        /\ gpProc'.mtime = gpProc.mtime /\ gpProc'.current = gpProc.current
    BY <2>1 DEF LoadConfig
  <2>6. t = "watcher" => gpProc.state = "up"
    BY <2>2 DEF IdleThread
  <2> QED
    BY <2>2, <2>3, <2>4, <2>5, <2>6, <1>0 DEF After
<1>12. CASE \E t \in Reloader : Apply(t)
  <2>1. PICK t \in Reloader : Apply(t)
    BY <1>12
  <2>2. gpThread[t].pc # "idle"
    BY <2>1 DEF Apply
  <2>3. \A u \in Reloader \ {t} : gpThread'[u] = gpThread[u]
    BY <2>1 DEF Apply, Goes
  <2>4. gpThread'[t].pc \in {"agent", "allow", "exec"} \/ gpThread'[t].pc = After(t)
    BY <2>1 DEF Apply, Goes
  <2>5. gpFile' = gpFile /\ gpProc' = gpProc
    BY <2>1 DEF Apply
  <2> QED
    BY <2>2, <2>3, <2>4, <2>5, <1>0 DEF After, IdleThread
<1>13. CASE \/ \E on \in {"main", "watcher", "other"} : Terminate(on)
            \/ ServiceStop
  BY <1>13, <1>a DEF Terminate, ServiceStop
<1>14. CASE \/ \E ok \in BOOLEAN : Install(ok)
            \/ StopInCallback \/ JoinWatcher \/ StopInMain \/ Uninstall
  BY <1>14 DEF Install, StopInCallback, JoinWatcher, StopInMain, Uninstall
<1> QED
  BY <1>1, <1>2, <1>3, <1>4, <1>5, <1>6, <1>7, <1>8, <1>9, <1>10, <1>11, <1>12, <1>13,
     <1>14 DEF ConfigNext, LifeNext, ServiceStart, Reloader

(* Whoever knows the file has its content, or has it on the way.           *)
LEMMA GpWayKept ==
  ASSUME NEW V, Texts(V), GpTypes(V), GpTimes, KnowsFile => OnTheWay,
         ConfigNext \/ LifeNext, KnowsFile'
  PROVE  OnTheWay'
<1>0. /\ "watcher" \in Reloader /\ "watcher" \notin Writer
      /\ gpFile.mtime \in Nat /\ gpProc.loaded \in Nat /\ gpProc.mtime \in Nat
      /\ gpProc.current \in Nat
  BY ReloaderAssumption DEF Reloader, Writer, GpTypes
<1>a. ~Dead
  BY DEF Dead, KnowsFile, ProcOff
<1>1. CASE Boot
  <2>1. Readable /\ gpProc.state = "off"
    BY <1>1 DEF Boot, KnowsFile, Readable
  <2>2. gpRunning'.config = FromJson(gpFile.root) /\ gpRunning'.agent = FromJson(gpFile.root).agent
      /\ gpRunning'.allow = FromJson(gpFile.root).allow
      /\ gpRunning'.exec = FromJson(gpFile.root).exec
      /\ gpFile' = gpFile /\ gpThread' = gpThread
    BY <1>1, <2>1 DEF Boot
  <2>3. \A t \in Reloader : ~InReload(t)'
    BY <2>1, <2>2 DEF GpTimes, IdleThread, InReload
  <2> QED
    BY <2>2, <2>3 DEF OnTheWay
<1>2. CASE StartWatcher
  <2>1. KnowsFile
    BY <1>2 DEF StartWatcher, KnowsFile, Readable, GpTypes
  <2> QED
    BY <1>2, <2>1, WayKept DEF StartWatcher
<1>3. CASE \E ok \in BOOLEAN : StartServer(ok)
  <2>1. KnowsFile
    BY <1>3, <1>a DEF StartServer, KnowsFile, Readable, GpTypes
  <2> QED
    BY <1>3, <1>a, <2>1, WayKept DEF StartServer
<1>5. CASE \E t \in Writer, p \in Paths, v \in {"b", "none"} : ReadForWrite(t, p, v)
  <2>1. PICK t \in Writer, p \in Paths, v \in {"b", "none"} : ReadForWrite(t, p, v)
    BY <1>5
  <2>2. gpThread'["watcher"] = gpThread["watcher"]
    BY <2>1, <1>0 DEF ReadForWrite
  <2>3. KnowsFile
    BY <2>1, <2>2 DEF ReadForWrite, KnowsFile, Readable
  <2>4. \A u \in Reloader : gpThread'[u] = gpThread[u] \/ (~InReload(u) /\ ~InReload(u)')
    BY <2>1 DEF ReadForWrite, InReload, GpTypes
  <2> QED
    BY <2>1, <2>3, <2>4, WayKept DEF ReadForWrite
<1>6. ~ \E t \in Writer : Truncate(t) \/ Write(t)
  <2>1. SUFFICES ASSUME NEW t \in Writer, Truncate(t) \/ Write(t)
                 PROVE  FALSE
    OBVIOUS
  <2>2. gpFile'.mtime = gpFile.mtime + 1 /\ gpProc' = gpProc
    BY <2>1 DEF Truncate, Write
  <2> QED
    BY <2>2, <1>0 DEF GpTimes, KnowsFile
<1>7. CASE CliKilled
  <2>1. \A u \in Reloader : gpThread'[u] = gpThread[u]
    BY <1>7, ReloaderAssumption DEF CliKilled, Reloader, Writer, GpTypes
  <2>2. KnowsFile
    BY <1>7, <2>1, <1>0 DEF CliKilled, KnowsFile, Readable
  <2> QED
    BY <1>7, <2>1, <2>2, WayKept DEF CliKilled
<1>8. CASE \E t \in Reloader : StartReload(t)
  <2>1. PICK t \in Reloader : StartReload(t)
    BY <1>8
  <2>2. gpThread'["watcher"] = gpThread["watcher"]
    BY <2>1, <1>0 DEF StartReload, Goes, GpTypes
  <2>3. KnowsFile
    BY <2>1, <2>2 DEF StartReload, KnowsFile, Readable
  <2>4. \A u \in Reloader : gpThread'[u] = gpThread[u] \/ (~InReload(u) /\ ~InReload(u)')
    BY <2>1 DEF StartReload, Goes, InReload, GpTypes
  <2> QED
    BY <2>1, <2>3, <2>4, WayKept DEF StartReload
<1>9. CASE Watch
  BY <1>9, <1>0 DEF Watch, Goes, KnowsFile, GpTypes
<1>10. CASE RecordTime
  <2>1. gpProc.state = "up"
    BY <1>10, <1>0 DEF RecordTime, GpTimes, IdleThread
  <2>2. KnowsFile
    BY <1>10, <2>1, <1>0 DEF RecordTime, KnowsFile, Readable, Goes, GpTypes
  <2>3. \A u \in Reloader : gpThread'[u] = gpThread[u] \/ (~InReload(u) /\ ~InReload(u)')
    BY <1>10 DEF RecordTime, Goes, InReload, GpTypes
  <2> QED
    BY <1>10, <2>2, <2>3, WayKept DEF RecordTime
<1>11. CASE \E t \in Reloader : LoadConfig(t)
  <2>1. PICK t \in Reloader : LoadConfig(t)
    BY <1>11
  <2>2. Readable /\ ~gpProc'.raced
    BY <2>1 DEF LoadConfig, KnowsFile, Readable
  <2> QED
    BY <2>1, <2>2, LoadBrings
<1>12. CASE \E t \in Reloader : Apply(t)
  <2>1. PICK t \in Reloader : Apply(t)
    BY <1>12
  <2>2. \/ gpThread'["watcher"] = gpThread["watcher"]
        \/ gpThread["watcher"].pc \in {"assign", "agent", "allow", "exec"}
    BY <2>1, <1>0 DEF Apply, Goes, GpTypes
  <2>3. KnowsFile
    BY <2>1, <2>2 DEF Apply, KnowsFile, Readable
  <2> QED
    BY <2>1, <2>3, ApplyBrings
<1>13. CASE \/ \E on \in {"main", "watcher", "other"} : Terminate(on)
            \/ ServiceStop
  <2>1. UNCHANGED <<gpFile, gpThread, gpRunning, gpProc>>
    BY <1>13, <1>a DEF Terminate, ServiceStop
  <2> QED
    BY <2>1, WayKept DEF KnowsFile, Readable
<1>14. CASE \/ \E ok \in BOOLEAN : Install(ok)
            \/ StopInCallback \/ JoinWatcher \/ StopInMain \/ Uninstall
  <2>1. UNCHANGED <<gpFile, gpThread, gpRunning, gpProc>>
    BY <1>14 DEF Install, StopInCallback, JoinWatcher, StopInMain, Uninstall
  <2> QED
    BY <2>1, WayKept DEF KnowsFile, Readable
<1> QED
  BY <1>a, <1>1, <1>2, <1>3, <1>5, <1>6, <1>7, <1>8, <1>9, <1>10, <1>11, <1>12, <1>13,
     <1>14 DEF ConfigNext, LifeNext, ServiceStart, Reloader, Killed, Exit

(* The parts run with what the file says once the watcher knows the file   *)
(* and no reload is under way, whichever of the reloads by RPC, watcher    *)
(* and signal, the writers and the starts of the process came in between   *)
(* (gateway_commands.cpp, reload_fn).                                      *)
THEOREM ConfigCatchesUp == GpSpec => []ConfigCaughtUp
<1>1. (\E V : \E file \in GpFiles(V) : GpInit(file)) => GpInv
  BY GpStart
<1>2. GpInv /\ [ConfigNext \/ LifeNext]_gpVars => GpInv'
  <2>1. SUFFICES ASSUME GpInv, [ConfigNext \/ LifeNext]_gpVars
                 PROVE  GpInv'
    OBVIOUS
  <2>2. PICK V : Texts(V) /\ GpTypes(V)
    BY <2>1 DEF GpInv
  <2>3. CASE UNCHANGED gpVars
    BY <2>1, <2>3 DEF gpVars, GpInv, GpTypes, GpTimes, KnowsFile, OnTheWay, Readable, Brings, InReload
  <2>4. CASE ConfigNext \/ LifeNext
    <3>1. GpTypes(V)' /\ GpTimes'
      BY <2>1, <2>2, <2>4, GpTyped, GpTimesKept DEF GpInv
    <3>2. KnowsFile' => OnTheWay'
      BY <2>1, <2>2, <2>4, GpWayKept DEF GpInv
    <3> QED
      BY <2>2, <3>1, <3>2 DEF GpInv
  <2> QED
    BY <2>1, <2>3, <2>4
<1>3. GpInv => ConfigCaughtUp
  BY DEF GpInv, ConfigCaughtUp, KnowsFile, OnTheWay, Brings
<1> QED
  BY <1>1, <1>2, <1>3, PTL DEF GpSpec

-----------------------------------------------------------------------------
(***************************************************************************)
(* Auth.                                                                   *)
(***************************************************************************)
(* Credentials on their own.                                               *)
AuthSpec ==
  /\ \E p \in {"codex", "copilot"} : AuthInit(p)
  /\ [][AuthNext]_authVars

(* Types of the files, the actors, the login and the history.              *)
AuthRecord == [token : Nat, refresh : Nat, until : Nat]

AuthPc == {"idle", "post", "wait", "join", "exchange", "poll", "swap", "open", "write", "rename"}

FileState == [main : Inode \cup {0}, tmp : Inode \cup {0}, data : [Inode -> AuthRecord]]

ActorState == [pc : AuthPc, file : AuthFiles, rec : AuthRecord, fd : Inode \cup {0}]

PastState ==
  [overlap : SUBSET AuthFiles, lost : SUBSET AuthFiles, in : SUBSET AuthFiles, fails : Nat]

AuthTypes ==
  /\ auFile \in [AuthFiles -> FileState]
  /\ auThread \in [AuthActor -> ActorState]
  /\ auLogin \in [done : BOOLEAN, ok : BOOLEAN, code : {"none", "ours", "other", "pasted"}]
  /\ auMemory \in AuthRecord
  /\ auServer \in [next : Nat, valid : SUBSET Nat]
  /\ auNow \in Nat
  /\ auPast \in PastState

(* An actor is busy with a file between its first step and its last; only  *)
(* the threads of the gateway, one at a time, use the cache.               *)
Busy(a, f) == auThread[a].pc # "idle" /\ auThread[a].file = f

OneAtATime ==
  /\ \A f \in AuthFiles \ auPast.overlap :
       \A a, b \in AuthActor : Busy(a, f) /\ Busy(b, f) => a = b
  /\ \A a \in AuthActor :
       /\ auThread[a].file = "cache" => a # Cli /\ auThread[a].pc # "idle"
       /\ auThread[a].pc \in {"post", "wait", "join", "exchange"} => auThread[a].file = "codex"
       /\ auThread[a].pc = "poll" => auThread[a].file = "copilot"
       /\ auThread[a].pc = "swap" => auThread[a].file = "cache"

(* The path of a file and its temporary path never name one inode.         *)
PathsApart == \A f \in AuthFiles : auFile[f].tmp # 0 => auFile[f].tmp # auFile[f].main

(* Whoever writes a file alone has the temporary inode open, and writes a  *)
(* token.                                                                  *)
OwnsInode(a) ==
  LET f == auThread[a].file
      i == auThread[a].fd
  IN  /\ Saving(a) => auThread[a].rec.token # 0
      /\ f \notin auPast.overlap =>
           /\ auThread[a].pc \in {"write", "rename"} => i # 0 /\ auFile[f].tmp = i
           /\ auThread[a].pc = "write" => auFile[f].data[i] = Torn
           /\ auThread[a].pc = "rename" => auFile[f].data[i] = auThread[a].rec

OwnInode == \A a \in AuthActor : OwnsInode(a)

(* The refresh token of the record, or of the one being saved, is valid.   *)
SavesCodex(a) == Saving(a) /\ auThread[a].file = "codex"

RefreshValid ==
  "codex" \notin auPast.overlap =>
    /\ \A a \in AuthActor : SavesCodex(a) => auThread[a].rec.refresh \in auServer.valid
    /\ "codex" \in auPast.in \ auPast.lost /\ (\A a \in AuthActor : ~SavesCodex(a))
       => Load("codex").refresh \in auServer.valid

Stored == \A f \in AuthFiles \ auPast.overlap : (Load(f) # NoRecord) <=> (f \in auPast.in)

LoginOurs ==
  /\ auLogin.ok => auLogin.code \in {"ours", "pasted"}
  /\ auThread[Cli].pc = "exchange" => auLogin.ok

AuthInv == AuthTypes /\ OneAtATime /\ PathsApart /\ OwnInode /\ RefreshValid /\ Stored /\ LoginOurs

(* The records and actors that the code starts from.                       *)
LEMMA AuthConstants ==
  /\ NoRecord \in AuthRecord /\ Torn = NoRecord
  /\ IdleActor \in ActorState
  /\ IdleActor.pc = "idle" /\ IdleActor.file = "codex"
  /\ Cli \in AuthActor /\ 1 \in Inode /\ 0 \notin Inode /\ Inode \subseteq Nat
<1>1. IsFiniteSet(AuthActor) /\ Cardinality(AuthActor) \in Nat
  <2>1. IsFiniteSet(AuthActor)
    BY AuthAssumption, FS_AddElement DEF AuthActor
  <2> QED
    BY <2>1, FS_CardinalityType
<1>2. 1 \in Inode /\ 0 \notin Inode /\ Inode \subseteq Nat
  BY <1>1 DEF Inode
<1> QED
  BY <1>2 DEF NoRecord, Torn, AuthRecord, IdleActor, ActorState, AuthPc, AuthFiles, AuthActor

(* There is always an inode that no path and no open file names.           *)
LEMMA FreshInode ==
  ASSUME AuthTypes, NEW f \in AuthFiles, auFile[f].tmp = 0
  PROVE  LET used == {auFile[f].main, auFile[f].tmp} \cup {auThread[b].fd : b \in AuthActor}
         IN  (CHOOSE n \in Inode : n \notin used) \in Inode \ used
<1> DEFINE used == {auFile[f].main, auFile[f].tmp} \cup {auThread[b].fd : b \in AuthActor}
           fds  == {auThread[b].fd : b \in AuthActor}
           N    == Cardinality(AuthActor)
<1>1. IsFiniteSet(AuthActor) /\ N \in Nat
  <2>1. IsFiniteSet(AuthActor)
    BY AuthAssumption, FS_AddElement DEF AuthActor
  <2> QED
    BY <2>1, FS_CardinalityType
<1>2. IsFiniteSet(fds) /\ Cardinality(fds) <= N
  <2> DEFINE g == [b \in AuthActor |-> auThread[b].fd]
  <2>1. g \in Surjection(AuthActor, fds)
    BY DEF Surjection
  <2> QED
    BY <1>1, <2>1, FS_Surjection
<1>3. IsFiniteSet(used) /\ Cardinality(used) <= N + 2
  <2> DEFINE one == fds \cup {auFile[f].main}
  <2>0. ASSUME NEW S, NEW x, IsFiniteSet(S), NEW n \in Nat, Cardinality(S) <= n
        PROVE  IsFiniteSet(S \cup {x}) /\ Cardinality(S \cup {x}) <= n + 1
    <3>1. Cardinality(S) \in Nat
      BY <2>0, FS_CardinalityType
    <3>2. /\ IsFiniteSet(S \cup {x})
          /\ Cardinality(S \cup {x}) = IF x \in S THEN Cardinality(S) ELSE Cardinality(S) + 1
      BY <2>0, FS_AddElement
    <3> QED
      BY <2>0, <3>1, <3>2
  <2> HIDE DEF fds, N
  <2>1. IsFiniteSet(one) /\ Cardinality(one) <= N + 1
    BY <1>1, <1>2, <2>0
  <2> HIDE DEF one
  <2>2. N + 1 \in Nat
    BY <1>1
  <2>4. IsFiniteSet(one \cup {auFile[f].tmp}) /\ Cardinality(one \cup {auFile[f].tmp}) <= N + 1 + 1
    BY <2>1, <2>2, <2>0
  <2>3. one \cup {auFile[f].tmp} = used
    BY DEF fds, one
  <2>5. N + 1 + 1 = N + 2
    BY <1>1
  <2> HIDE DEF used
  <2> QED
    BY <2>3, <2>4, <2>5
<1>4. \E n \in Inode : n \notin used
  <2>1. SUFFICES ASSUME Inode \subseteq used PROVE FALSE
    OBVIOUS
  <2>2. 0 .. N + 2 \subseteq used
    BY <1>1, <2>1 DEF Inode
  <2>3. IsFiniteSet(0 .. N + 2) /\ Cardinality(0 .. N + 2) = N + 3
    BY <1>1, FS_Interval
  <2>4. Cardinality(0 .. N + 2) <= Cardinality(used)
    BY <1>3, <2>2, FS_Subset
  <2>5. Cardinality(used) \in Nat
    BY <1>3, FS_CardinalityType
  <2> HIDE DEF N, used
  <2> QED
    BY <1>1, <1>3, <2>3, <2>4, <2>5
<1> QED
  BY <1>4

(* What is open for a save.                                                *)
LEMMA OpenInode ==
  ASSUME AuthTypes, PathsApart, NEW a \in AuthActor, SaveOpen(a)
  PROVE  \E i \in Inode :
           LET f == auThread[a].file
           IN  /\ i # auFile[f].main
               /\ auFile' = [auFile EXCEPT ![f].tmp = i, ![f].data[i] = Torn]
               /\ auThread' = [auThread EXCEPT ![a].pc = "write", ![a].fd = i]
<1> DEFINE f    == auThread[a].file
           used == {auFile[f].main, auFile[f].tmp} \cup {auThread[b].fd : b \in AuthActor}
           i    == IF auFile[f].tmp # 0 THEN auFile[f].tmp ELSE CHOOSE n \in Inode : n \notin used
<1>1. f \in AuthFiles
  BY DEF AuthTypes, ActorState
<1>2. i \in Inode /\ i # auFile[f].main
  <2>1. CASE auFile[f].tmp # 0
    BY <1>1, <2>1 DEF AuthTypes, FileState, PathsApart
  <2>2. CASE auFile[f].tmp = 0
    BY <1>1, <2>2, FreshInode
  <2> QED
    BY <2>1, <2>2
<1>3. /\ auFile' = [auFile EXCEPT ![f].tmp = i, ![f].data[i] = Torn]
      /\ auThread' = [auThread EXCEPT ![a].pc = "write", ![a].fd = i]
  BY DEF SaveOpen
<1> QED
  BY <1>2, <1>3

(* The types of what the actions look at.                                  *)
LEMMA AuthLooked ==
  ASSUME AuthTypes
  PROVE  /\ \A a \in AuthActor :
              /\ auThread[a] \in ActorState /\ auThread[a].file \in AuthFiles
              /\ auThread[a].pc \in AuthPc /\ auThread[a].fd \in Inode \cup {0}
              /\ auThread[a].rec \in AuthRecord /\ auThread[a].rec.refresh \in Nat
         /\ \A f \in AuthFiles :
              /\ auFile[f] \in FileState /\ Load(f) \in AuthRecord
              /\ auFile[f].main \in Inode \cup {0} /\ auFile[f].tmp \in Inode \cup {0}
              /\ auFile[f].data \in [Inode -> AuthRecord]
         /\ Grant \in Nat /\ Grant # 0 /\ auNow + TokenLife \in Nat /\ auNow \in Nat
         /\ [NoRecord EXCEPT !.token = MaxGrants + 1] \in AuthRecord
         /\ [NoRecord EXCEPT !.token = Grant] \in AuthRecord
         /\ \A r \in Nat, u \in Nat : [token |-> Grant, refresh |-> r, until |-> u] \in AuthRecord
         /\ AuthThread \subseteq AuthActor
<1>1. \A a \in AuthActor :
        /\ auThread[a] \in ActorState /\ auThread[a].file \in AuthFiles
        /\ auThread[a].pc \in AuthPc /\ auThread[a].fd \in Inode \cup {0}
        /\ auThread[a].rec \in AuthRecord /\ auThread[a].rec.refresh \in Nat
  BY DEF AuthTypes, ActorState, AuthRecord
<1>2. \A f \in AuthFiles :
        /\ auFile[f] \in FileState
        /\ auFile[f].main \in Inode \cup {0} /\ auFile[f].tmp \in Inode \cup {0}
        /\ auFile[f].data \in [Inode -> AuthRecord]
  BY DEF AuthTypes, FileState
<1>3. \A f \in AuthFiles : Load(f) \in AuthRecord
  BY <1>2, AuthConstants DEF Load
<1>4. Grant \in Nat /\ Grant # 0 /\ auNow + TokenLife \in Nat /\ auNow \in Nat /\ MaxGrants + 1 \in Nat
  BY AuthAssumption DEF AuthTypes, Grant
<1>5. /\ [NoRecord EXCEPT !.token = MaxGrants + 1] \in AuthRecord
      /\ [NoRecord EXCEPT !.token = Grant] \in AuthRecord
      /\ \A r \in Nat, u \in Nat : [token |-> Grant, refresh |-> r, until |-> u] \in AuthRecord
  BY <1>4 DEF NoRecord, AuthRecord
<1> QED
  BY <1>1, <1>2, <1>3, <1>4, <1>5 DEF AuthActor

(* Updates of an actor and of the history.                                 *)
LEMMA ActorUpdates ==
  ASSUME AuthTypes, NEW a \in AuthActor
  PROVE  /\ \A r \in ActorState : [auThread EXCEPT ![a] = r] \in [AuthActor -> ActorState]
         /\ \A pc \in AuthPc : [auThread EXCEPT ![a].pc = pc] \in [AuthActor -> ActorState]
         /\ \A pc \in AuthPc, i \in Inode :
              [auThread EXCEPT ![a].pc = pc, ![a].fd = i] \in [AuthActor -> ActorState]
         /\ \A pc \in AuthPc, r \in AuthRecord :
              [auThread EXCEPT ![a].pc = pc, ![a].rec = r] \in [AuthActor -> ActorState]
         /\ \A pc \in AuthPc, f \in AuthFiles, r \in AuthRecord :
              Act(a, pc, f, r) => auThread' \in [AuthActor -> ActorState]
         /\ GiveUp(a) => auThread' \in [AuthActor -> ActorState]
         /\ \A f \in AuthFiles : Overlaps(a, f) \in PastState
<1>1. auThread \in [AuthActor -> ActorState]
  BY DEF AuthTypes
<1>2. \A r \in ActorState : [auThread EXCEPT ![a] = r] \in [AuthActor -> ActorState]
  BY <1>1
<1>3. \A pc \in AuthPc : [auThread EXCEPT ![a].pc = pc] \in [AuthActor -> ActorState]
  BY <1>1 DEF ActorState
<1>4. \A pc \in AuthPc, i \in Inode :
        [auThread EXCEPT ![a].pc = pc, ![a].fd = i] \in [AuthActor -> ActorState]
  BY <1>1 DEF ActorState
<1>5. \A pc \in AuthPc, r \in AuthRecord :
        [auThread EXCEPT ![a].pc = pc, ![a].rec = r] \in [AuthActor -> ActorState]
  BY <1>1 DEF ActorState
<1>6. \A pc \in AuthPc, f \in AuthFiles, r \in AuthRecord :
        [IdleActor EXCEPT !.pc = pc, !.file = f, !.rec = r] \in ActorState
  BY AuthConstants DEF ActorState
<1>7. \A f \in AuthFiles : [auPast EXCEPT !.overlap = @ \cup {f}] \in PastState /\ auPast \in PastState
  BY DEF AuthTypes, PastState
<1>8. \A f \in AuthFiles : Overlaps(a, f) \in PastState
  BY <1>7 DEF Overlaps
<1>9. GiveUp(a) => auThread' \in [AuthActor -> ActorState]
  BY <1>2, AuthConstants DEF GiveUp
<1>10. \A pc \in AuthPc, f \in AuthFiles, r \in AuthRecord :
         Act(a, pc, f, r) => auThread' \in [AuthActor -> ActorState]
  BY <1>2, <1>6 DEF Act
<1> QED
  BY <1>2, <1>3, <1>4, <1>5, <1>8, <1>9, <1>10

(* A failure is counted, with the files it leaves unsaved.                 *)
LEMMA PastUpdates ==
  ASSUME AuthTypes
  PROVE  \A F \in SUBSET AuthFiles :
           [auPast EXCEPT !.fails = @ + 1, !.lost = @ \cup F] \in PastState
<1>1. /\ auPast \in PastState /\ auPast.fails + 1 \in Nat
      /\ \A F \in SUBSET AuthFiles : auPast.lost \cup F \in SUBSET AuthFiles
  BY DEF AuthTypes, PastState
<1>2. SUFFICES ASSUME NEW F \in SUBSET AuthFiles
               PROVE  [auPast EXCEPT !.fails = auPast.fails + 1, !.lost = auPast.lost \cup F] \in PastState
  OBVIOUS
<1>3. auPast.lost \cup F \in SUBSET AuthFiles
  BY <1>1
<1> QED
  BY <1>1, <1>3 DEF PastState

(* The steps of a save keep the types.                                     *)
LEMMA SavesTyped ==
  ASSUME AuthTypes, PathsApart, NEW a \in AuthActor,
         SaveOpen(a) \/ SaveWrite(a) \/ SaveRename(a) \/ SaveFails(a)
  PROVE  AuthTypes'
<1> DEFINE f == auThread[a].file
<1>0. f \in AuthFiles /\ auFile \in [AuthFiles -> FileState]
  BY AuthLooked DEF AuthTypes
<1>1. CASE SaveOpen(a)
  <2>1. PICK i \in Inode :
          /\ i # auFile[f].main
          /\ auFile' = [auFile EXCEPT ![f].tmp = i, ![f].data[i] = Torn]
          /\ auThread' = [auThread EXCEPT ![a].pc = "write", ![a].fd = i]
    BY <1>1, OpenInode
  <2>2. auThread' \in [AuthActor -> ActorState]
    BY <2>1, ActorUpdates DEF AuthPc
  <2>3. auFile' \in [AuthFiles -> FileState]
    BY SMTT(40), <1>0, <2>1, AuthConstants DEF FileState
  <2> QED
    BY <1>1, <2>2, <2>3 DEF SaveOpen, AuthTypes
<1>2. CASE SaveWrite(a)
  <2>1. PICK text \in AuthRecord : auFile' = [auFile EXCEPT ![f].data[auThread[a].fd] = text]
    <3>1. auThread[a].rec \in AuthRecord /\ Torn \in AuthRecord
      BY AuthLooked, AuthConstants
    <3> QED
      BY <1>2, <3>1 DEF SaveWrite
  <2>2. auThread' \in [AuthActor -> ActorState]
    BY <1>2, ActorUpdates DEF AuthPc, SaveWrite
  <2>3. auFile' \in [AuthFiles -> FileState]
    BY <1>0, <2>1 DEF FileState
  <2> QED
    BY <1>2, <2>2, <2>3 DEF SaveWrite, AuthTypes
<1>3. CASE SaveRename(a)
  <2> DEFINE d == [i \in Inode |-> IF i = auFile[f].tmp \/ \E b \in AuthActor : auThread[b].fd = i
                                   THEN auFile[f].data[i] ELSE Torn]
  <2>1. d \in [Inode -> AuthRecord]
    BY <1>0, AuthLooked, AuthConstants
  <2>2. auFile' = auFile \/ auFile' = [auFile EXCEPT ![f].main = auFile[f].tmp, ![f].tmp = 0, ![f].data = d]
    BY <1>3, <1>0 DEF SaveRename
  <2> HIDE DEF d
  <2>3. auFile' \in [AuthFiles -> FileState]
    BY <1>0, <2>1, <2>2, AuthLooked DEF FileState
  <2>4. auPast' \in PastState
    BY SMTT(40), <1>3, <1>0 DEF SaveRename, AuthTypes, PastState
  <2>5. auThread' \in [AuthActor -> ActorState] /\ auMemory' \in AuthRecord
    <3>1. GiveUp(a) /\ auMemory' \in {auMemory, auThread[a].rec}
      BY <1>3 DEF SaveRename
    <3>2. auMemory' \in AuthRecord
      BY <3>1, AuthLooked DEF AuthTypes
    <3> QED
      BY <3>1, <3>2, ActorUpdates
  <2> QED
    BY <1>3, <2>3, <2>4, <2>5 DEF SaveRename, AuthTypes
<1>4. CASE SaveFails(a)
  <2>1. auThread' \in [AuthActor -> ActorState]
    BY <1>4, ActorUpdates DEF SaveFails
  <2>2. auFile' \in [AuthFiles -> FileState]
    BY <1>4, <1>0 DEF SaveFails, FileState
  <2>3. auPast' \in PastState
    BY <1>4, <1>0, PastUpdates DEF SaveFails
  <2> QED
    BY <1>4, <2>1, <2>2, <2>3 DEF SaveFails, AuthTypes
<1> QED
  BY <1>1, <1>2, <1>3, <1>4

(* Each action keeps the types.                                            *)
LEMMA AuthTyped ==
  ASSUME AuthTypes, PathsApart, AuthNext
  PROVE  AuthTypes'
<1>0. AuthThread \subseteq AuthActor /\ Cli \in AuthActor /\ "codex" \in AuthFiles /\ "copilot" \in AuthFiles
      /\ "cache" \in AuthFiles /\ NoRecord \in AuthRecord
  BY AuthConstants DEF AuthActor, AuthFiles
<1>1. ASSUME NEW a \in AuthActor, SaveOpen(a) \/ SaveWrite(a) \/ SaveRename(a) \/ SaveFails(a)
      PROVE  AuthTypes'
  BY <1>1, SavesTyped
<1>4. ASSUME NEW a \in AuthActor, PostFails(a) PROVE AuthTypes'
  BY <1>4, ActorUpdates DEF PostFails, AuthTypes
<1>5. ASSUME NEW a \in AuthThread, ResolveAccessToken(a) PROVE AuthTypes'
  <2>1. auThread' \in [AuthActor -> ActorState] /\ auPast' \in PastState
    BY <1>5, <1>0, ActorUpdates, AuthLooked DEF ResolveAccessToken, AuthPc
  <2> QED
    BY <1>5, <2>1 DEF ResolveAccessToken, AuthTypes
<1>6. ASSUME NEW a \in AuthThread, RefreshWithToken(a) PROVE AuthTypes'
  <2>1. a \in AuthActor /\ auThread[a].rec.refresh \in Nat
    BY <1>0, AuthLooked
  <2>2. PICK rotated \in BOOLEAN, until \in {auNow, auNow + TokenLife} :
          /\ auServer' = [next  |-> Grant,
                          valid |-> IF rotated THEN (auServer.valid \ {auThread[a].rec.refresh}) \cup {Grant}
                                    ELSE auServer.valid]
          /\ auThread' = [auThread EXCEPT ![a].pc = "open",
               ![a].rec = [token |-> Grant, refresh |-> IF rotated THEN Grant ELSE auThread[a].rec.refresh,
                           until |-> until]]
    BY <1>6 DEF RefreshWithToken
  <2>3. until \in Nat /\ Grant \in Nat
    BY AuthLooked
  <2>4. auServer' \in [next : Nat, valid : SUBSET Nat]
    BY <2>2, <2>3 DEF AuthTypes
  <2>5. auThread' \in [AuthActor -> ActorState]
    <3>1. (IF rotated THEN Grant ELSE auThread[a].rec.refresh) \in Nat
      BY <2>1, <2>3
    <3> QED
      BY ZenonT(60), <2>1, <2>2, <2>3, <3>1, ActorUpdates, AuthLooked DEF AuthPc
  <2> QED
    BY <1>6, <2>4, <2>5 DEF RefreshWithToken, AuthTypes
<1>7. ASSUME NEW a \in AuthThread, ExchangeForApiToken(a) PROVE AuthTypes'
  <2>1. auThread' \in [AuthActor -> ActorState]
    BY ZenonT(60), <1>7, <1>0, ActorUpdates, AuthLooked DEF ExchangeForApiToken, AuthPc
  <2>2. auServer' \in [next : Nat, valid : SUBSET Nat]
    BY <1>7, AuthLooked DEF ExchangeForApiToken, AuthTypes
  <2> QED
    BY <1>7, <2>1, <2>2 DEF ExchangeForApiToken, AuthTypes
<1>8. ASSUME NEW a \in AuthThread, NEW env \in BOOLEAN, ResolveRuntimeCredential(a, env) PROVE AuthTypes'
  <2>1. auThread' \in [AuthActor -> ActorState] /\ auMemory' \in AuthRecord
    <3>1. CASE ~ env /\ IsUsable(Load("cache"))
      BY <1>8, <3>1, <1>0, AuthLooked DEF ResolveRuntimeCredential, AuthTypes
    <3>2. CASE ~ (~ env /\ IsUsable(Load("cache")))
      <4> DEFINE r == IF env THEN [NoRecord EXCEPT !.token = MaxGrants + 1] ELSE Load("copilot")
      <4>1. r \in AuthRecord
        BY <1>0, AuthLooked
      <4>2. Act(a, "swap", "cache", r) /\ auMemory' = auMemory
        BY <1>8, <3>2 DEF ResolveRuntimeCredential
      <4> HIDE DEF r
      <4> QED
        BY <4>1, <4>2, <1>0, ActorUpdates DEF AuthPc, AuthTypes
    <3> QED
      BY <3>1, <3>2
  <2> QED
    BY <1>8, <2>1 DEF ResolveRuntimeCredential, AuthTypes
<1>9. ASSUME NEW f \in {"codex", "copilot"}, Clear(f) PROVE AuthTypes'
  <2>1. f \in AuthFiles /\ Overlaps(Cli, f) \in PastState
    BY <1>0, ActorUpdates
  <2>2. auPast' \in PastState
    BY <1>9, <2>1 DEF Clear, PastState
  <2>3. auFile' \in [AuthFiles -> FileState]
    BY <1>9, <2>1 DEF Clear, AuthTypes, FileState
  <2> QED
    BY <1>9, <2>2, <2>3 DEF Clear, AuthTypes
<1>10. CASE LoginInteractive
  <2>1. Act(Cli, "wait", "codex", NoRecord) /\ auPast' = Overlaps(Cli, "codex")
    BY <1>10 DEF LoginInteractive
  <2>2. auThread' \in [AuthActor -> ActorState] /\ auPast' \in PastState
    BY <2>1, <1>0, ActorUpdates DEF AuthPc
  <2> QED
    BY <1>10, <2>2 DEF LoginInteractive, AuthTypes
<1>13. CASE RequestDeviceCode
  <2>1. Act(Cli, "poll", "copilot", NoRecord) /\ auPast' = Overlaps(Cli, "copilot")
    BY <1>13 DEF RequestDeviceCode
  <2>2. auThread' \in [AuthActor -> ActorState] /\ auPast' \in PastState
    BY <2>1, <1>0, ActorUpdates DEF AuthPc
  <2> QED
    BY <1>13, <2>2 DEF RequestDeviceCode, AuthTypes
<1>11. CASE LoginJoins
  <2>1. auThread' \in [AuthActor -> ActorState]
    <3>1. CASE auLogin.ok
      <4>1. auThread' = [auThread EXCEPT ![Cli].pc = "exchange"]
        BY <1>11, <3>1 DEF LoginJoins
      <4> QED
        BY <4>1, <1>0, ActorUpdates DEF AuthPc
    <3>2. CASE ~auLogin.ok
      BY <1>11, <3>2, <1>0, ActorUpdates DEF LoginJoins
    <3> QED
      BY <3>1, <3>2
  <2> QED
    BY <1>11, <2>1 DEF LoginJoins, AuthTypes
<1>12. CASE ExchangeCode \/ PollForAccessToken
  <2>1. auThread' \in [AuthActor -> ActorState]
    <3>1. \A r \in AuthRecord :
            [auThread EXCEPT ![Cli].pc = "open", ![Cli].rec = r] \in [AuthActor -> ActorState]
      BY <1>0, ActorUpdates DEF AuthPc
    <3>2. CASE ExchangeCode
      BY <3>1, <3>2, AuthLooked DEF ExchangeCode
    <3>3. CASE PollForAccessToken
      BY <3>1, <3>3, AuthLooked DEF PollForAccessToken
    <3> QED
      BY <1>12, <3>2, <3>3
  <2>2. auServer' \in [next : Nat, valid : SUBSET Nat]
    BY <1>12, AuthLooked DEF ExchangeCode, PollForAccessToken, AuthTypes
  <2> QED
    BY <1>12, <2>1, <2>2 DEF ExchangeCode, PollForAccessToken, AuthTypes
<1>14. ASSUME NEW s \in {"ours", "other"}, NEW x \in {"code", "error", "missing"}, Callback(s, x)
       PROVE  AuthTypes'
  <2>1. auLogin' \in [done : BOOLEAN, ok : BOOLEAN, code : {"none", "ours", "other", "pasted"}]
    BY <1>14 DEF Callback, AuthTypes
  <2> QED
    BY <1>14, <2>1 DEF Callback, AuthTypes
<1>15. ASSUME NEW q \in {"none", "pasted"}, LoginWakes(q) PROVE AuthTypes'
  <2>1. auThread' \in [AuthActor -> ActorState]
    BY <1>15, <1>0, ActorUpdates DEF LoginWakes, AuthPc
  <2>2. auLogin' \in [done : BOOLEAN, ok : BOOLEAN, code : {"none", "ours", "other", "pasted"}]
    <3>1. CASE auLogin.done
      BY <1>15, <3>1 DEF LoginWakes, AuthTypes
    <3>2. CASE ~auLogin.done
      <4>1. PICK yes \in BOOLEAN : auLogin' = [done |-> TRUE, ok |-> yes, code |-> q]
        BY <1>15, <3>2 DEF LoginWakes
      <4> QED
        BY <4>1
    <3> QED
      BY <3>1, <3>2
  <2> QED
    BY <1>15, <2>1, <2>2 DEF LoginWakes, AuthTypes
<1>16. ASSUME NEW who \in {AuthThread, {Cli}}, Dies(who) PROVE AuthTypes'
  <2>1. {auThread[a].file : a \in {b \in who : Saving(b)}} \in SUBSET AuthFiles
    BY <1>0, AuthLooked
  <2>2. auThread' \in [AuthActor -> ActorState]
    BY <1>16, AuthConstants DEF Dies, AuthTypes
  <2>3. auPast' \in PastState
    BY <1>16, <2>1, PastUpdates DEF Dies
  <2>4. auMemory' \in AuthRecord
    BY <1>16, <1>0 DEF Dies, AuthTypes
  <2> QED
    BY <1>16, <2>2, <2>3, <2>4 DEF Dies, AuthTypes
<1>17. CASE AuthTick
  BY <1>17 DEF AuthTick, AuthTypes
<1> QED
  BY <1>1, <1>4, <1>5, <1>6, <1>7, <1>8, <1>9, <1>10, <1>11, <1>12, <1>13, <1>14, <1>15, <1>16, <1>17
     DEF AuthNext

(* What an actor may become without taking up another file.                *)
Onward(a) ==
  \/ auThread'[a] = auThread[a] \/ auThread'[a] = IdleActor
  \/ /\ auThread[a].pc # "idle" /\ auThread'[a].file = auThread[a].file
     /\ \/ auThread'[a].pc \in {"open", "write", "rename"}
        \/ auThread'[a].pc \in {"join", "exchange"} /\ auThread[a].pc \in {"wait", "join"}

(* No two saves overlap that did not before.                               *)
LEMMA StillAlone ==
  ASSUME AuthTypes, OneAtATime, auPast.overlap \subseteq auPast'.overlap,
         \A a \in AuthActor : Onward(a)
  PROVE  OneAtATime'
<1>1. \A a \in AuthActor, f \in AuthFiles : Busy(a, f)' => Busy(a, f)
  BY AuthConstants DEF Onward, Busy
<1>2. ASSUME NEW a \in AuthActor
      PROVE  /\ auThread'[a].file = "cache" => a # Cli /\ auThread'[a].pc # "idle"
             /\ auThread'[a].pc \in {"post", "wait", "join", "exchange"} => auThread'[a].file = "codex"
             /\ auThread'[a].pc = "poll" => auThread'[a].file = "copilot"
             /\ auThread'[a].pc = "swap" => auThread'[a].file = "cache"
  <2>1. CASE auThread'[a] = auThread[a]
    BY <2>1 DEF OneAtATime
  <2>2. CASE auThread'[a] = IdleActor
    BY <2>2, AuthConstants
  <2>3. CASE auThread'[a] # auThread[a] /\ auThread'[a] # IdleActor
    BY <2>3 DEF Onward, OneAtATime
  <2> QED
    BY <2>1, <2>2, <2>3
<1> QED
  BY <1>1, <1>2 DEF OneAtATime

(* An actor that takes up a file records whom it meets there.              *)
LEMMA StartAlone ==
  ASSUME AuthTypes, OneAtATime, NEW a \in AuthActor, NEW pc, NEW f \in AuthFiles \ {"cache"}, NEW r,
         Act(a, pc, f, r), auPast' = Overlaps(a, f),
         (pc \in {"post", "wait"} /\ f = "codex") \/ (pc = "poll" /\ f = "copilot")
  PROVE  OneAtATime'
<1>1. auThread'[a].pc = pc /\ auThread'[a].file = f
  BY DEF Act, AuthTypes, IdleActor
<1>2. \A b \in AuthActor \ {a} : auThread'[b] = auThread[b]
  BY DEF Act, AuthTypes
<1>3. /\ auPast'.overlap = auPast.overlap \/ auPast'.overlap = auPast.overlap \cup {f}
      /\ f \notin auPast'.overlap => \A b \in AuthActor \ {a} : ~Busy(b, f)
  BY DEF Overlaps, Busy, AuthTypes, PastState
<1>4. ASSUME NEW g \in AuthFiles \ auPast'.overlap, NEW b \in AuthActor, NEW c \in AuthActor,
             Busy(b, g)', Busy(c, g)'
      PROVE  b = c
  <2>1. g \in AuthFiles \ auPast.overlap
    BY <1>3
  <2>2. CASE g = f
    BY <1>2, <1>3, <1>4, <2>2 DEF Busy
  <2>3. CASE g # f
    <3>1. b # a /\ c # a
      BY <1>1, <1>4, <2>3 DEF Busy
    <3> QED
      BY <1>2, <1>4, <2>1, <3>1 DEF Busy, OneAtATime
  <2> QED
    BY <2>2, <2>3
<1>5. ASSUME NEW b \in AuthActor
      PROVE  /\ auThread'[b].file = "cache" => b # Cli /\ auThread'[b].pc # "idle"
             /\ auThread'[b].pc \in {"post", "wait", "join", "exchange"} => auThread'[b].file = "codex"
             /\ auThread'[b].pc = "poll" => auThread'[b].file = "copilot"
             /\ auThread'[b].pc = "swap" => auThread'[b].file = "cache"
  BY <1>1, <1>2 DEF OneAtATime
<1> QED
  BY <1>4, <1>5 DEF OneAtATime

(* Two are busy with a file only where that is recorded.                   *)
LEMMA OneKept ==
  ASSUME AuthTypes, PathsApart, OneAtATime, AuthNext
  PROVE  OneAtATime'
<1>0. AuthThread \subseteq AuthActor /\ Cli \in AuthActor /\ "codex" \in AuthFiles /\ "copilot" \in AuthFiles
      /\ "cache" \in AuthFiles /\ NoRecord \in AuthRecord
  BY AuthConstants DEF AuthActor, AuthFiles
<1>a. auThread \in [AuthActor -> ActorState] /\ \A a \in AuthActor : auThread[a] \in ActorState
  BY DEF AuthTypes
<1>b. auPast \in PastState
  BY DEF AuthTypes
<1>c. ASSUME UNCHANGED <<auThread, auPast>> PROVE OneAtATime'
  BY <1>c, StillAlone DEF Onward
<1>1. ASSUME NEW a \in AuthActor, SaveOpen(a) PROVE OneAtATime'
  <2>1. PICK i \in Inode : auThread' = [auThread EXCEPT ![a].pc = "write", ![a].fd = i]
    BY <1>1, OpenInode
  <2>2. \A b \in AuthActor : Onward(b)
    BY SMTT(40), <1>1, <2>1, <1>a DEF Onward, SaveOpen, ActorState
  <2> QED
    BY <1>1, <2>2, StillAlone DEF SaveOpen
<1>2. ASSUME NEW a \in AuthActor, SaveWrite(a) PROVE OneAtATime'
  <2>2. \A b \in AuthActor : Onward(b)
    BY <1>2, <1>a DEF Onward, SaveWrite, ActorState
  <2> QED
    BY <1>2, <2>2, StillAlone DEF SaveWrite
<1>3. ASSUME NEW a \in AuthActor, SaveRename(a) \/ SaveFails(a) \/ PostFails(a) PROVE OneAtATime'
  <2>1. GiveUp(a)
    BY <1>3 DEF SaveRename, SaveFails, PostFails
  <2>2. \A b \in AuthActor : Onward(b)
    BY <2>1, <1>a DEF Onward, GiveUp
  <2>3. auPast'.overlap = auPast.overlap
    BY <1>3, <1>b DEF SaveRename, SaveFails, PostFails, PastState
  <2> QED
    BY <2>2, <2>3, StillAlone
<1>5. ASSUME NEW a \in AuthThread, ResolveAccessToken(a) PROVE OneAtATime'
  <2>1. PICK r : Act(a, "post", "codex", r) /\ auPast' = Overlaps(a, "codex")
    BY <1>5 DEF ResolveAccessToken
  <2> QED
    BY <2>1, <1>0, StartAlone
<1>6. ASSUME NEW a \in AuthActor, auPast' = auPast, auThread[a].pc # "idle",
             NEW r, auThread' = [auThread EXCEPT ![a].pc = "open", ![a].rec = r]
      PROVE  OneAtATime'
  <2>2. \A b \in AuthActor : Onward(b)
    BY <1>6, <1>a DEF Onward, ActorState
  <2> QED
    BY <1>6, <2>2, StillAlone
<1>7. ASSUME NEW a \in AuthThread, RefreshWithToken(a) \/ ExchangeForApiToken(a) PROVE OneAtATime'
  <2>1. /\ a \in AuthActor /\ auPast' = auPast /\ auThread[a].pc # "idle"
        /\ \E r : auThread' = [auThread EXCEPT ![a].pc = "open", ![a].rec = r]
    BY <1>7, <1>0 DEF RefreshWithToken, ExchangeForApiToken
  <2> QED
    BY <2>1, <1>6
<1>8. ASSUME NEW a \in AuthThread, NEW env \in BOOLEAN, ResolveRuntimeCredential(a, env) PROVE OneAtATime'
  <2>1. CASE auThread' = auThread
    BY <1>8, <2>1, <1>c DEF ResolveRuntimeCredential
  <2>2. CASE auThread' # auThread
    <3>1. PICK r : Act(a, "swap", "cache", r)
      BY <1>8, <2>2 DEF ResolveRuntimeCredential
    <3>2. /\ auThread'[a].pc = "swap" /\ auThread'[a].file = "cache" /\ a \in AuthActor /\ a # Cli
      BY <3>1, <1>0, <1>a, AuthAssumption DEF Act, IdleActor
    <3>3. \A b \in AuthActor \ {a} : auThread'[b] = auThread[b] /\ auThread[b].file # "cache"
      BY <1>8, <3>1, <1>a DEF Act, ResolveRuntimeCredential, OneAtATime, AuthActor
    <3>4. auPast' = auPast
      BY <1>8 DEF ResolveRuntimeCredential
    <3>5. ASSUME NEW g \in AuthFiles \ auPast.overlap, NEW b \in AuthActor, NEW c \in AuthActor,
                 Busy(b, g)', Busy(c, g)'
          PROVE  b = c
      BY <3>2, <3>3, <3>5 DEF Busy, OneAtATime
    <3>6. ASSUME NEW b \in AuthActor
          PROVE  /\ auThread'[b].file = "cache" => b # Cli /\ auThread'[b].pc # "idle"
                 /\ auThread'[b].pc \in {"post", "wait", "join", "exchange"} => auThread'[b].file = "codex"
                 /\ auThread'[b].pc = "poll" => auThread'[b].file = "copilot"
                 /\ auThread'[b].pc = "swap" => auThread'[b].file = "cache"
      BY <3>2, <3>3 DEF OneAtATime
    <3> QED
      BY <3>4, <3>5, <3>6 DEF OneAtATime
  <2> QED
    BY <2>1, <2>2
<1>9. ASSUME NEW f \in {"codex", "copilot"}, Clear(f) PROVE OneAtATime'
  <2>1. auPast.overlap \subseteq auPast'.overlap
    BY <1>9, <1>b DEF Clear, Overlaps, PastState
  <2> QED
    BY <1>9, <2>1, StillAlone DEF Clear, Onward
<1>10. CASE LoginInteractive
  <2>1. Act(Cli, "wait", "codex", NoRecord) /\ auPast' = Overlaps(Cli, "codex")
    BY <1>10 DEF LoginInteractive
  <2> QED
    BY <2>1, <1>0, StartAlone
<1>13. CASE RequestDeviceCode
  <2>1. Act(Cli, "poll", "copilot", NoRecord) /\ auPast' = Overlaps(Cli, "copilot")
    BY <1>13 DEF RequestDeviceCode
  <2>2. "copilot" \in AuthFiles \ {"cache"}
    BY <1>0
  <2> QED
    BY <2>1, <2>2, <1>0, StartAlone
<1>11. CASE LoginJoins
  <2>1. GiveUp(Cli) \/ auThread' = [auThread EXCEPT ![Cli].pc = "exchange"]
    BY <1>11 DEF LoginJoins
  <2>2. \A b \in AuthActor : Onward(b)
    <3>1. CASE GiveUp(Cli)
      BY <3>1, <1>0, <1>a DEF Onward, GiveUp
    <3>2. CASE auThread' = [auThread EXCEPT ![Cli].pc = "exchange"]
      BY <1>11, <3>2, <1>0, <1>a DEF Onward, LoginJoins, ActorState
    <3> QED
      BY <2>1, <3>1, <3>2
  <2> QED
    BY <1>11, <2>2, StillAlone DEF LoginJoins
<1>12. CASE ExchangeCode \/ PollForAccessToken
  <2>1. /\ auPast' = auPast /\ auThread[Cli].pc # "idle"
        /\ \E r : auThread' = [auThread EXCEPT ![Cli].pc = "open", ![Cli].rec = r]
    BY <1>12 DEF ExchangeCode, PollForAccessToken
  <2> QED
    BY <2>1, <1>0, <1>6
<1>14. ASSUME NEW q \in {"none", "pasted"}, LoginWakes(q) PROVE OneAtATime'
  <2>2. \A b \in AuthActor : Onward(b)
    BY <1>14, <1>0, <1>a DEF Onward, LoginWakes, ActorState
  <2> QED
    BY <1>14, <2>2, StillAlone DEF LoginWakes
<1>15. ASSUME NEW who \in {AuthThread, {Cli}}, Dies(who) PROVE OneAtATime'
  <2>2. \A b \in AuthActor : Onward(b)
    BY <1>15 DEF Onward, Dies
  <2>3. auPast'.overlap = auPast.overlap
    BY <1>15, <1>b DEF Dies, PastState
  <2> QED
    BY <2>2, <2>3, StillAlone
<1>16. ASSUME NEW s \in {"ours", "other"}, NEW x \in {"code", "error", "missing"}, Callback(s, x)
       PROVE  OneAtATime'
  BY <1>16, <1>c DEF Callback
<1>17. CASE AuthTick
  BY <1>17, <1>c DEF AuthTick
<1> QED
  BY <1>1, <1>2, <1>3, <1>5, <1>7, <1>8, <1>9, <1>10, <1>11, <1>12, <1>13, <1>14, <1>15, <1>16, <1>17
     DEF AuthNext

(* A path and its temporary path stay apart.                               *)
LEMMA PathsKept ==
  ASSUME AuthTypes, PathsApart, AuthNext
  PROVE  PathsApart'
<1>0. auFile \in [AuthFiles -> FileState] /\ \A f \in AuthFiles : auFile[f] \in FileState
  BY DEF AuthTypes
<1>1. ASSUME NEW a \in AuthActor, SaveOpen(a) PROVE PathsApart'
  <2>1. PICK i \in Inode :
          LET f == auThread[a].file
          IN  /\ i # auFile[f].main
              /\ auFile' = [auFile EXCEPT ![f].tmp = i, ![f].data[i] = Torn]
    BY <1>1, OpenInode
  <2> QED
    BY <1>0, <2>1 DEF PathsApart, FileState
<1>2. ASSUME NEW a \in AuthActor, SaveWrite(a) PROVE PathsApart'
  <2>1. PICK text : auFile' = [auFile EXCEPT ![auThread[a].file].data[auThread[a].fd] = text]
    BY <1>2 DEF SaveWrite
  <2> QED
    BY <1>0, <2>1 DEF PathsApart, FileState
<1>3. ASSUME NEW a \in AuthActor, SaveRename(a) PROVE PathsApart'
  <2>1. \A f \in AuthFiles : auFile'[f] = auFile[f] \/ auFile'[f].tmp = 0
    BY SMTT(40), <1>0, <1>3 DEF SaveRename, FileState
  <2> QED
    BY <2>1 DEF PathsApart
<1>4. ASSUME NEW a \in AuthActor, SaveFails(a) PROVE PathsApart'
  BY <1>0, <1>4 DEF SaveFails, PathsApart, FileState
<1>5. ASSUME NEW f \in {"codex", "copilot"}, Clear(f) PROVE PathsApart'
  BY <1>0, <1>5 DEF Clear, PathsApart, FileState
<1>6. auFile' = auFile => PathsApart'
  BY DEF PathsApart
<1> QED
  BY <1>1, <1>2, <1>3, <1>4, <1>5, <1>6
     DEF AuthNext, PostFails, ResolveAccessToken, RefreshWithToken, ExchangeForApiToken,
         ResolveRuntimeCredential, LoginInteractive, LoginJoins, ExchangeCode, RequestDeviceCode,
         PollForAccessToken, Callback, LoginWakes, Dies, AuthTick

(* Another actor's step leaves alone what an actor has open by itself.     *)
LEMMA OwnStill ==
  ASSUME AuthTypes, OneAtATime, OwnInode, NEW a \in AuthActor,
         auPast.overlap \subseteq auPast'.overlap,
         \A b \in AuthActor \ {a} : auThread'[b] = auThread[b],
         \A f \in AuthFiles : auFile'[f] = auFile[f] \/ Busy(a, f),
         OwnsInode(a)'
  PROVE  OwnInode'
<1>1. ASSUME NEW b \in AuthActor \ {a} PROVE OwnsInode(b)'
  <2> DEFINE f == auThread[b].file
  <2>1. auThread'[b] = auThread[b] /\ f \in AuthFiles /\ OwnsInode(b)
    BY AuthLooked DEF OwnInode
  <2>2. CASE auFile'[f] = auFile[f]
    BY <2>1, <2>2 DEF OwnsInode, Saving
  <2>3. CASE Busy(a, f)
    <3>1. f \notin auPast.overlap => auThread[b].pc = "idle"
      BY <2>1, <2>3 DEF OneAtATime, Busy
    <3> QED
      BY <2>1, <3>1 DEF OwnsInode, Saving
  <2> QED
    BY <2>1, <2>2, <2>3
<1> QED
  BY <1>1 DEF OwnInode

(* The inode an actor has open is its own until it is done.                *)
LEMMA OwnKept ==
  ASSUME AuthTypes, PathsApart, OneAtATime, OwnInode, AuthNext
  PROVE  OwnInode'
<1>0. AuthThread \subseteq AuthActor /\ Cli \in AuthActor /\ "codex" \in AuthFiles /\ "copilot" \in AuthFiles
      /\ "cache" \in AuthFiles
  BY AuthConstants DEF AuthActor, AuthFiles
<1>a. auThread \in [AuthActor -> ActorState] /\ \A a \in AuthActor : auThread[a] \in ActorState
  BY DEF AuthTypes
<1>b. auPast \in PastState /\ auFile \in [AuthFiles -> FileState]
      /\ \A f \in AuthFiles : auFile[f] \in FileState
  BY DEF AuthTypes
<1>c. Grant # 0
  BY AuthLooked
<1>d. ASSUME NEW a \in AuthActor, auFile' = auFile, auPast.overlap \subseteq auPast'.overlap,
             NEW r, auThread' = [auThread EXCEPT ![a] = r],
             r.pc \notin {"write", "rename"}, r.pc = "open" => r.rec.token # 0
      PROVE  OwnInode'
  <2>1. OwnsInode(a)'
    BY <1>d, <1>a DEF OwnsInode, Saving
  <2> QED
    BY <1>d, <1>a, <2>1, OwnStill
<1>1. ASSUME NEW a \in AuthActor, SaveOpen(a) PROVE OwnInode'
  <2>1. PICK i \in Inode :
          LET f == auThread[a].file
          IN  /\ i # auFile[f].main
              /\ auFile' = [auFile EXCEPT ![f].tmp = i, ![f].data[i] = Torn]
              /\ auThread' = [auThread EXCEPT ![a].pc = "write", ![a].fd = i]
    BY <1>1, OpenInode
  <2>2. OwnsInode(a) /\ Saving(a) /\ i # 0 /\ auThread[a].file \in AuthFiles /\ i \in Inode
    BY <1>1, AuthConstants, AuthLooked DEF OwnInode, SaveOpen, Saving
  <2>3. auThread'[a].pc = "write" /\ auThread'[a].fd = i /\ auThread'[a].file = auThread[a].file
      /\ auThread'[a].rec = auThread[a].rec
    BY <2>1, <1>a DEF ActorState
  <2>4. auFile'[auThread[a].file].tmp = i /\ auFile'[auThread[a].file].data[i] = Torn
    BY <2>1, <2>2, <1>b DEF FileState
  <2>5. OwnsInode(a)'
    BY <2>2, <2>3, <2>4 DEF OwnsInode, Saving
  <2>6. \A f \in AuthFiles : auFile'[f] = auFile[f] \/ Busy(a, f)
    BY <1>1, <2>1, <1>b DEF SaveOpen, Busy
  <2> QED
    BY <1>1, <2>1, <2>5, <2>6, <1>a, OwnStill DEF SaveOpen
<1>2. ASSUME NEW a \in AuthActor, SaveWrite(a) PROVE OwnInode'
  <2> DEFINE f == auThread[a].file
             i == auThread[a].fd
  <2>1. PICK text \in {auThread[a].rec} \cup (IF auFile[f].data[i] = Torn THEN {} ELSE {Torn}) :
          auFile' = [auFile EXCEPT ![f].data[i] = text]
    BY <1>2 DEF SaveWrite
  <2>2. /\ OwnsInode(a) /\ Saving(a) /\ f \in AuthFiles /\ auThread[a].pc = "write" /\ i \in Inode \cup {0}
    BY <1>2, AuthLooked DEF OwnInode, SaveWrite, Saving
  <2>3. /\ auThread'[a].pc = "rename" /\ auThread'[a].fd = i /\ auThread'[a].file = f
        /\ auThread'[a].rec = auThread[a].rec /\ auPast' = auPast
    BY <1>2, <1>a DEF ActorState, SaveWrite
  <2>4. f \notin auPast.overlap =>
          /\ auFile'[f].tmp = i /\ i # 0
          /\ auFile'[f].data[i] = auThread[a].rec
    <3>1. SUFFICES ASSUME f \notin auPast.overlap
                   PROVE  auFile'[f].tmp = i /\ i # 0 /\ auFile'[f].data[i] = auThread[a].rec
      OBVIOUS
    <3>2. i # 0 /\ auFile[f].tmp = i /\ auFile[f].data[i] = Torn /\ i \in Inode
      BY <2>2, <3>1 DEF OwnsInode
    <3>3. text = auThread[a].rec
      BY <2>1, <3>2
    <3> QED
      BY <2>1, <2>2, <3>2, <3>3, <1>b DEF FileState
  <2>5. OwnsInode(a)'
    BY <2>2, <2>3, <2>4 DEF OwnsInode, Saving
  <2>6. \A g \in AuthFiles : auFile'[g] = auFile[g] \/ Busy(a, g)
    BY <2>2, <2>1, <1>b DEF Busy
  <2>7. \A b \in AuthActor \ {a} : auThread'[b] = auThread[b]
    BY <1>2, <1>a DEF SaveWrite
  <2> QED
    BY <2>3, <2>5, <2>6, <2>7, OwnStill
<1>3. ASSUME NEW a \in AuthActor, SaveRename(a) \/ SaveFails(a) PROVE OwnInode'
  <2>1. /\ GiveUp(a) /\ auThread[a].pc # "idle"
    BY <1>3 DEF SaveRename, SaveFails
  <2>2. OwnsInode(a)'
    BY <2>1, <1>a, AuthConstants DEF GiveUp, OwnsInode, Saving
  <2>3. auPast'.overlap = auPast.overlap
    BY <1>3, <1>b DEF SaveRename, SaveFails, PastState
  <2>4. \A f \in AuthFiles : auFile'[f] = auFile[f] \/ Busy(a, f)
    BY <1>3, <2>1, <1>b DEF SaveRename, SaveFails, Busy
  <2> QED
    BY <2>1, <2>2, <2>3, <2>4, <1>a, OwnStill DEF GiveUp
<1>4. ASSUME NEW a \in AuthActor, PostFails(a) PROVE OwnInode'
  BY <1>4, <1>d, AuthConstants DEF PostFails, GiveUp
<1>e. ASSUME NEW a \in AuthActor, NEW pc, NEW f, NEW r, Act(a, pc, f, r), auFile' = auFile,
             auPast' = auPast \/ auPast' = Overlaps(a, f), pc \notin {"open", "write", "rename"}
      PROVE  OwnInode'
  <2>1. auThread' = [auThread EXCEPT ![a] = [IdleActor EXCEPT !.pc = pc, !.file = f, !.rec = r]]
    BY <1>e DEF Act
  <2>2. [IdleActor EXCEPT !.pc = pc, !.file = f, !.rec = r].pc = pc
    BY DEF IdleActor
  <2>3. auPast.overlap \subseteq auPast'.overlap
    BY <1>e, <1>b DEF Overlaps, PastState
  <2> QED
    BY <1>d, <1>e, <2>1, <2>2, <2>3
<1>f. ASSUME NEW a \in AuthActor, NEW r, r.token # 0, auFile' = auFile, auPast' = auPast,
             auThread' = [auThread EXCEPT ![a].pc = "open", ![a].rec = r]
      PROVE  OwnInode'
  <2>1. auThread' = [auThread EXCEPT ![a] = [auThread[a] EXCEPT !.pc = "open", !.rec = r]]
    BY <1>f, <1>a
  <2>2. /\ [auThread[a] EXCEPT !.pc = "open", !.rec = r].pc = "open"
        /\ [auThread[a] EXCEPT !.pc = "open", !.rec = r].rec = r
    BY <1>a, <1>f DEF ActorState
  <2>3. PICK q : q = [auThread[a] EXCEPT !.pc = "open", !.rec = r]
    OBVIOUS
  <2> QED
    BY <1>d, <1>f, <2>1, <2>2, <2>3
<1>g. ASSUME NEW a \in AuthActor, NEW pc \in {"join", "exchange"}, auFile' = auFile, auPast' = auPast,
             auThread' = [auThread EXCEPT ![a].pc = pc]
      PROVE  OwnInode'
  <2>1. auThread' = [auThread EXCEPT ![a] = [auThread[a] EXCEPT !.pc = pc]]
    BY <1>g, <1>a
  <2>2. [auThread[a] EXCEPT !.pc = pc].pc = pc
    BY <1>a, <1>g DEF ActorState
  <2>3. PICK q : q = [auThread[a] EXCEPT !.pc = pc]
    OBVIOUS
  <2> QED
    BY <1>d, <1>g, <2>1, <2>2, <2>3
<1>h. ASSUME auThread' = auThread, \A f \in AuthFiles : auFile'[f].tmp = auFile[f].tmp /\ auFile'[f].data = auFile[f].data,
             auPast.overlap \subseteq auPast'.overlap
      PROVE  OwnInode'
  BY <1>h, AuthLooked DEF OwnInode, OwnsInode, Saving
<1>5. ASSUME NEW a \in AuthThread, ResolveAccessToken(a) PROVE OwnInode'
  <2>1. PICK r : Act(a, "post", "codex", r) /\ auPast' = Overlaps(a, "codex") /\ auFile' = auFile
    BY <1>5 DEF ResolveAccessToken
  <2> QED
    BY <2>1, <1>0, <1>e
<1>6. ASSUME NEW a \in AuthThread, RefreshWithToken(a) \/ ExchangeForApiToken(a) PROVE OwnInode'
  <2>1. PICK r : /\ r.token # 0 /\ auFile' = auFile /\ auPast' = auPast
                 /\ auThread' = [auThread EXCEPT ![a].pc = "open", ![a].rec = r]
    BY <1>6, <1>c DEF RefreshWithToken, ExchangeForApiToken
  <2> QED
    BY <2>1, <1>0, <1>f
<1>7. ASSUME NEW a \in AuthThread, NEW env \in BOOLEAN, ResolveRuntimeCredential(a, env) PROVE OwnInode'
  <2>1. auFile' = auFile /\ auPast' = auPast
    BY <1>7 DEF ResolveRuntimeCredential
  <2>2. CASE auThread' = auThread
    BY <2>1, <2>2, <1>h
  <2>3. CASE auThread' # auThread
    <3>1. PICK r : Act(a, "swap", "cache", r)
      BY <1>7, <2>3 DEF ResolveRuntimeCredential
    <3> QED
      BY <2>1, <3>1, <1>0, <1>e
  <2> QED
    BY <2>2, <2>3
<1>8. ASSUME NEW f \in {"codex", "copilot"}, Clear(f) PROVE OwnInode'
  <2>1. auPast.overlap \subseteq auPast'.overlap
    BY <1>8, <1>b DEF Clear, Overlaps, PastState
  <2>2. \A g \in AuthFiles : auFile'[g].tmp = auFile[g].tmp /\ auFile'[g].data = auFile[g].data
    BY <1>8, <1>b DEF Clear, FileState
  <2> QED
    BY <1>8, <2>1, <2>2, <1>h DEF Clear
<1>9. CASE LoginInteractive
  <2>1. Act(Cli, "wait", "codex", NoRecord) /\ auPast' = Overlaps(Cli, "codex") /\ auFile' = auFile
    BY <1>9 DEF LoginInteractive
  <2> QED
    BY <2>1, <1>0, <1>e
<1>10. CASE RequestDeviceCode
  <2>1. Act(Cli, "poll", "copilot", NoRecord) /\ auPast' = Overlaps(Cli, "copilot") /\ auFile' = auFile
    BY <1>10 DEF RequestDeviceCode
  <2> QED
    BY <2>1, <1>0, <1>e
<1>11. CASE LoginJoins
  <2>1. auFile' = auFile /\ auPast' = auPast
        /\ (GiveUp(Cli) \/ auThread' = [auThread EXCEPT ![Cli].pc = "exchange"])
    BY <1>11 DEF LoginJoins
  <2> QED
    BY <2>1, <1>0, <1>d, <1>g, AuthConstants DEF GiveUp
<1>12. CASE ExchangeCode \/ PollForAccessToken
  <2>1. PICK r : /\ r.token # 0 /\ auFile' = auFile /\ auPast' = auPast
                 /\ auThread' = [auThread EXCEPT ![Cli].pc = "open", ![Cli].rec = r]
    BY <1>12, <1>c DEF ExchangeCode, PollForAccessToken, NoRecord
  <2> QED
    BY <2>1, <1>0, <1>f
<1>13. ASSUME NEW q \in {"none", "pasted"}, LoginWakes(q) PROVE OwnInode'
  <2>1. auFile' = auFile /\ auPast' = auPast /\ auThread' = [auThread EXCEPT ![Cli].pc = "join"]
    BY <1>13 DEF LoginWakes
  <2> QED
    BY <2>1, <1>0, <1>g
<1>14. ASSUME NEW who \in {AuthThread, {Cli}}, Dies(who) PROVE OwnInode'
  <2>1. \A b \in AuthActor : auThread'[b] = auThread[b] \/ auThread'[b] = IdleActor
    BY <1>14 DEF Dies
  <2>2. auPast'.overlap = auPast.overlap /\ auFile' = auFile
    BY <1>14, <1>b DEF Dies, PastState
  <2> QED
    BY <2>1, <2>2, AuthConstants DEF OwnInode, OwnsInode, Saving
<1>15. CASE AuthTick \/ \E s \in {"ours", "other"}, x \in {"code", "error", "missing"} : Callback(s, x)
  <2>1. auFile' = auFile /\ auPast' = auPast /\ auThread' = auThread
    BY <1>15 DEF AuthTick, Callback
  <2> QED
    BY <2>1, <1>h
<1> QED
  BY <1>1, <1>2, <1>3, <1>4, <1>5, <1>6, <1>7, <1>8, <1>9, <1>10, <1>11, <1>12, <1>13, <1>14, <1>15
     DEF AuthNext

(* Only the record of a save that is done replaces what a file held, where *)
(* nobody else is busy with it.                                            *)
LEMMA SaveLoads ==
  ASSUME AuthTypes, PathsApart, OneAtATime, OwnInode, NEW a \in AuthActor,
         SaveOpen(a) \/ SaveWrite(a) \/ SaveRename(a) \/ SaveFails(a),
         NEW f \in AuthFiles \ auPast.overlap
  PROVE  /\ auPast'.overlap = auPast.overlap
         /\ IF SaveRename(a) /\ f = auThread[a].file
              THEN Load(f)' = auThread[a].rec /\ auPast'.in = auPast.in \cup {f}
              ELSE Load(f)' = Load(f) /\ (f \in auPast'.in <=> f \in auPast.in)
<1> DEFINE g == auThread[a].file
           i == auThread[a].fd
<1>0. /\ auFile \in [AuthFiles -> FileState] /\ g \in AuthFiles /\ auPast \in PastState
      /\ \A h \in AuthFiles : auFile[h] \in FileState
      /\ OwnsInode(a) /\ i \in Inode \cup {0}
  BY AuthLooked DEF AuthTypes, OwnInode
<1>a. \A h \in AuthFiles : auFile'[h] = auFile[h] => Load(h)' = Load(h)
  BY DEF Load
<1>1. CASE SaveOpen(a)
  <2>1. PICK n \in Inode :
          /\ n # auFile[g].main
          /\ auFile' = [auFile EXCEPT ![g].tmp = n, ![g].data[n] = Torn]
    BY <1>1, OpenInode
  <2>2. /\ auFile'[f].main = auFile[f].main
        /\ auFile[f].main # 0 => auFile'[f].data[auFile[f].main] = auFile[f].data[auFile[f].main]
    BY <1>0, <2>1 DEF FileState
  <2>3. Load(f)' = Load(f)
    BY <2>2 DEF Load
  <2>4. ~SaveRename(a) /\ auPast' = auPast
    BY <1>1 DEF SaveOpen, SaveRename
  <2> QED
    BY <2>3, <2>4
<1>2. CASE SaveWrite(a)
  <2>1. PICK text : auFile' = [auFile EXCEPT ![g].data[i] = text]
    BY <1>2 DEF SaveWrite
  <2>2. f = g => i # 0 /\ i # auFile[f].main
    BY <1>0, <1>2 DEF OwnsInode, SaveWrite, PathsApart
  <2>3. /\ auFile'[f].main = auFile[f].main
        /\ auFile[f].main # 0 => auFile'[f].data[auFile[f].main] = auFile[f].data[auFile[f].main]
    BY <1>0, <2>1, <2>2 DEF FileState
  <2>4. Load(f)' = Load(f)
    BY <2>3 DEF Load
  <2>5. ~SaveRename(a) /\ auPast' = auPast
    BY <1>2 DEF SaveWrite, SaveRename
  <2> QED
    BY <2>4, <2>5
<1>3. CASE SaveRename(a)
  <2>1. CASE f # g
    <3>1. auFile'[f] = auFile[f]
      BY <1>0, <1>3, <2>1 DEF SaveRename
    <3>2. auPast'.overlap = auPast.overlap /\ (f \in auPast'.in <=> f \in auPast.in)
      <4>1. auPast' = auPast \/ auPast' = [auPast EXCEPT !.in = @ \cup {g}]
        BY <1>3 DEF SaveRename
      <4> QED
        BY <1>0, <2>1, <4>1 DEF PastState
    <3> QED
      BY <1>a, <2>1, <3>1, <3>2
  <2>2. CASE f = g
    <3>1. i # 0 /\ auFile[f].tmp = i /\ auFile[f].data[i] = auThread[a].rec /\ i \in Inode
      BY <1>0, <1>3, <2>2 DEF OwnsInode, SaveRename
    <3> DEFINE d == [n \in Inode |-> IF n = auFile[f].tmp \/ \E b \in AuthActor : auThread[b].fd = n
                                     THEN auFile[f].data[n] ELSE Torn]
    <3>2. auFile' = [auFile EXCEPT ![f].main = auFile[f].tmp, ![f].tmp = 0, ![f].data = d]
      <4>1. auFile[g].tmp # 0
        BY <2>2, <3>1
      <4>2. auFile' = [auFile EXCEPT ![g].main = auFile[g].tmp, ![g].tmp = 0,
                         ![g].data = [n \in Inode |->
                            IF n = auFile[g].tmp \/ \E b \in AuthActor : auThread[b].fd = n
                            THEN @[n] ELSE Torn]]
        BY <1>3, <4>1 DEF SaveRename
      <4> QED
        BY SMTT(40), <1>0, <2>2, <4>2
    <3>3. d[i] = auThread[a].rec
      BY <3>1
    <3> HIDE DEF d
    <3>4. auFile'[f].main = i /\ auFile'[f].data = d
      BY <1>0, <3>1, <3>2 DEF FileState
    <3>5. Load(f)' = auThread[a].rec
      BY <3>1, <3>3, <3>4 DEF Load
    <3>6. auPast' = [auPast EXCEPT !.in = @ \cup {f}]
      BY <1>3, <2>2, <3>1 DEF SaveRename
    <3> QED
      BY <1>0, <1>3, <2>2, <3>5, <3>6 DEF PastState
  <2> QED
    BY <2>1, <2>2
<1>4. CASE SaveFails(a)
  <2>1. /\ auFile'[f].main = auFile[f].main /\ auFile'[f].data = auFile[f].data
    BY <1>0, <1>4 DEF SaveFails, FileState
  <2>2. Load(f)' = Load(f)
    BY <2>1 DEF Load
  <2>3. ~SaveRename(a) /\ auPast'.overlap = auPast.overlap /\ auPast'.in = auPast.in
    BY <1>0, <1>4 DEF SaveFails, SaveRename, PastState
  <2> QED
    BY <2>2, <2>3
<1> QED
  BY <1>1, <1>2, <1>3, <1>4

(* The other actions touch no file, but for logout.                        *)
LEMMA OtherFiles ==
  ASSUME AuthTypes, AuthNext,
         ~ \E a \in AuthActor : SaveOpen(a) \/ SaveWrite(a) \/ SaveRename(a) \/ SaveFails(a)
  PROVE  /\ auPast.overlap \subseteq auPast'.overlap
         /\ \/ /\ \A f \in AuthFiles : Load(f)' = Load(f)
               /\ auPast'.in = auPast.in
            \/ \E f \in {"codex", "copilot"} :
                 /\ Clear(f) /\ Load(f)' = NoRecord /\ auPast'.in = auPast.in \ {f}
                 /\ \A g \in AuthFiles \ {f} : Load(g)' = Load(g)
<1>0. /\ auFile \in [AuthFiles -> FileState] /\ auPast \in PastState
      /\ \A h \in AuthFiles : auFile[h] \in FileState
  BY DEF AuthTypes
<1>a. \A h \in AuthFiles : auFile'[h] = auFile[h] => Load(h)' = Load(h)
  BY DEF Load
<1>1. ASSUME NEW f \in {"codex", "copilot"}, Clear(f)
      PROVE  /\ auPast.overlap \subseteq auPast'.overlap
             /\ Load(f)' = NoRecord /\ auPast'.in = auPast.in \ {f}
             /\ \A g \in AuthFiles \ {f} : Load(g)' = Load(g)
  <2>1. auFile'[f].main = 0 /\ \A g \in AuthFiles \ {f} : auFile'[g] = auFile[g]
    BY <1>0, <1>1 DEF Clear, FileState, AuthFiles
  <2>2. auPast.overlap \subseteq auPast'.overlap /\ auPast'.in = auPast.in \ {f}
    BY <1>0, <1>1 DEF Clear, Overlaps, PastState
  <2> QED
    BY <1>a, <2>1, <2>2 DEF Load
<1>2. ASSUME auFile' = auFile, \/ auPast' = auPast
                               \/ \E a, f : auPast' = Overlaps(a, f)
                               \/ \E who : Dies(who)
      PROVE  /\ auPast.overlap \subseteq auPast'.overlap /\ auPast'.in = auPast.in
             /\ \A f \in AuthFiles : Load(f)' = Load(f)
  BY <1>0, <1>2, <1>a DEF Overlaps, Dies, PastState
<1>3. \/ \E f \in {"codex", "copilot"} : Clear(f)
      \/ /\ auFile' = auFile
         /\ \/ auPast' = auPast
            \/ \E a, f : auPast' = Overlaps(a, f)
            \/ \E who : Dies(who)
  BY DEF AuthNext, PostFails, ResolveAccessToken, RefreshWithToken, ExchangeForApiToken,
         ResolveRuntimeCredential, LoginInteractive, LoginJoins, ExchangeCode, RequestDeviceCode,
         PollForAccessToken, Callback, LoginWakes, Dies, AuthTick
<1> QED
  BY <1>1, <1>2, <1>3

(* Outside the files that two wrote at a time, what is stored is what was  *)
(* logged in to.                                                           *)
LEMMA StoredKept ==
  ASSUME AuthTypes, PathsApart, OneAtATime, OwnInode, Stored, AuthNext
  PROVE  Stored'
<1>1. ASSUME NEW a \in AuthActor, SaveOpen(a) \/ SaveWrite(a) \/ SaveRename(a) \/ SaveFails(a)
      PROVE  Stored'
  <2>1. SUFFICES ASSUME NEW f \in AuthFiles \ auPast'.overlap
                 PROVE  (Load(f)' # NoRecord) <=> (f \in auPast'.in)
    BY DEF Stored
  <2>2. auPast'.overlap = auPast.overlap
    BY <1>1, AuthTypes DEF AuthTypes, PastState, SaveOpen, SaveWrite, SaveRename, SaveFails
  <2>3. f \in AuthFiles \ auPast.overlap
    BY <2>1, <2>2
  <2>4. SaveRename(a) => auThread[a].rec # NoRecord
    BY SMTT(40) DEF OwnInode, OwnsInode, SaveRename, Saving, NoRecord
  <2> QED
    BY <1>1, <2>3, <2>4, SaveLoads DEF Stored
<1>2. CASE ~ \E a \in AuthActor : SaveOpen(a) \/ SaveWrite(a) \/ SaveRename(a) \/ SaveFails(a)
  BY <1>2, OtherFiles DEF Stored
<1> QED
  BY <1>1, <1>2

(* A step that stores nothing new for Codex and takes no token back.       *)
LEMMA RefreshStill ==
  ASSUME RefreshValid, auPast.overlap \subseteq auPast'.overlap,
         auServer.valid \subseteq auServer'.valid,
         \A a \in AuthActor : SavesCodex(a)' =>
           auThread'[a].rec.refresh \in auServer'.valid \/ (SavesCodex(a) /\ auThread'[a].rec = auThread[a].rec),
         "codex" \notin auPast'.overlap /\ "codex" \in auPast'.in \ auPast'.lost
             /\ (\A a \in AuthActor : ~SavesCodex(a)') =>
           /\ "codex" \in auPast.in \ auPast.lost /\ \A a \in AuthActor : ~SavesCodex(a)
           /\ Load("codex")' = Load("codex")
  PROVE  RefreshValid'
<1>1. SUFFICES ASSUME "codex" \notin auPast'.overlap
               PROVE  /\ \A a \in AuthActor : SavesCodex(a)' => auThread'[a].rec.refresh \in auServer'.valid
                      /\ "codex" \in auPast'.in \ auPast'.lost /\ (\A a \in AuthActor : ~SavesCodex(a)')
                         => Load("codex")'.refresh \in auServer'.valid
  BY DEF RefreshValid
<1>2. "codex" \notin auPast.overlap
  BY <1>1
<1>3. \A a \in AuthActor : SavesCodex(a)' => auThread'[a].rec.refresh \in auServer'.valid
  BY <1>2 DEF RefreshValid
<1>4. "codex" \in auPast'.in \ auPast'.lost /\ (\A a \in AuthActor : ~SavesCodex(a)')
      => Load("codex")'.refresh \in auServer'.valid
  BY <1>1, <1>2 DEF RefreshValid
<1> QED
  BY <1>3, <1>4

(* The server keeps the refresh token of the record that is stored, or of  *)
(* the one that is about to be.                                            *)
LEMMA RefreshKept ==
  ASSUME AuthTypes, PathsApart, OneAtATime, OwnInode, RefreshValid, AuthNext
  PROVE  RefreshValid'
<1>0. AuthThread \subseteq AuthActor /\ Cli \in AuthActor /\ "codex" \in AuthFiles /\ "copilot" \in AuthFiles
      /\ "cache" \in AuthFiles
  BY AuthConstants DEF AuthActor, AuthFiles
<1>a. auThread \in [AuthActor -> ActorState] /\ \A a \in AuthActor : auThread[a] \in ActorState
  BY DEF AuthTypes
<1>b. auPast \in PastState
  BY DEF AuthTypes
<1>1. ASSUME NEW a \in AuthActor, SaveOpen(a) \/ SaveWrite(a) \/ SaveRename(a) \/ SaveFails(a)
      PROVE  RefreshValid'
  <2>1. /\ \A b \in AuthActor \ {a} : auThread'[b] = auThread[b]
        /\ auThread'[a].pc \in {"write", "rename", "idle"}
        /\ auThread'[a].pc # "idle" => auThread'[a].file = auThread[a].file /\ auThread'[a].rec = auThread[a].rec
        /\ Saving(a) /\ auServer' = auServer
        /\ auPast'.overlap = auPast.overlap
    <3>1. CASE SaveOpen(a)
      <4>1. PICK i \in Inode : auThread' = [auThread EXCEPT ![a].pc = "write", ![a].fd = i]
        BY <3>1, OpenInode
      <4> QED
        BY SMTT(40), <3>1, <4>1, <1>a DEF SaveOpen, Saving, ActorState
    <3>2. CASE SaveWrite(a)
      BY <3>2, <1>a DEF SaveWrite, Saving, ActorState
    <3>3. CASE SaveRename(a) \/ SaveFails(a)
      BY <3>3, <1>a, <1>b, AuthConstants DEF SaveRename, SaveFails, GiveUp, Saving, PastState
    <3> QED
      BY <1>1, <3>1, <3>2, <3>3
  <2>2. \A b \in AuthActor : SavesCodex(b)' => SavesCodex(b) /\ auThread'[b].rec = auThread[b].rec
    BY <2>1 DEF SavesCodex, Saving
  <2>3. CASE auThread[a].file # "codex"
    <3>1. \A b \in AuthActor : SavesCodex(b) => SavesCodex(b)'
      BY <2>1, <2>3 DEF SavesCodex, Saving
    <3>2. "codex" \notin auPast.overlap => Load("codex")' = Load("codex") /\ ("codex" \in auPast'.in <=> "codex" \in auPast.in)
      BY <1>0, <1>1, <2>3, SaveLoads
    <3>3. "codex" \notin auPast'.lost => "codex" \notin auPast.lost
      BY <1>1, <1>b DEF SaveOpen, SaveWrite, SaveRename, SaveFails, PastState
    <3> QED
      BY <2>1, <2>2, <3>1, <3>2, <3>3, RefreshStill
  <2>4. CASE auThread[a].file = "codex"
    <3>1. CASE SaveOpen(a) \/ SaveWrite(a)
      <4>1. SavesCodex(a)'
        <5>1. auThread'[a].pc # "idle"
          <6>1. CASE SaveOpen(a)
            <7>1. PICK i \in Inode : auThread' = [auThread EXCEPT ![a].pc = "write", ![a].fd = i]
              BY <6>1, OpenInode
            <7> QED
              BY <7>1, <1>a DEF ActorState
          <6>2. CASE SaveWrite(a)
            BY <6>2, <1>a DEF SaveWrite, ActorState
          <6> QED
            BY <3>1, <6>1, <6>2
        <5> QED
          BY <5>1, <2>1, <2>4 DEF SavesCodex, Saving
      <4> QED
        BY <2>1, <2>2, <4>1, RefreshStill
    <3>2. CASE SaveFails(a)
      <4>1. "codex" \in auPast'.lost
        BY <3>2, <2>4, <1>b DEF SaveFails, PastState
      <4> QED
        BY <2>1, <2>2, <4>1, RefreshStill
    <3>3. CASE SaveRename(a)
      <4>1. SavesCodex(a)
        BY <2>1, <2>4 DEF SavesCodex
      <4>2. "codex" \notin auPast.overlap =>
              Load("codex")' = auThread[a].rec /\ auThread[a].rec.refresh \in auServer.valid
        BY <1>0, <2>4, <3>3, <4>1, SaveLoads DEF RefreshValid
      <4> QED
        BY <2>1, <2>2, <4>2 DEF RefreshValid
    <3> QED
      BY <1>1, <3>1, <3>2, <3>3
  <2> QED
    BY <2>3, <2>4
<1>2. ASSUME ~ \E a \in AuthActor : SaveOpen(a) \/ SaveWrite(a) \/ SaveRename(a) \/ SaveFails(a)
      PROVE  RefreshValid'
  <2>0. /\ auPast.overlap \subseteq auPast'.overlap
        /\ "codex" \in auPast'.in => "codex" \in auPast.in /\ Load("codex")' = Load("codex")
    BY <1>0, <1>2, OtherFiles
  <2>a. ASSUME auServer' = auServer, auPast'.lost = auPast.lost,
               \A a \in AuthActor : \/ auThread'[a] = auThread[a]
                                    \/ ~Saving(a) /\ auThread'[a].pc \notin {"open", "write", "rename"}
        PROVE  RefreshValid'
    <3>1. \A a \in AuthActor : SavesCodex(a)' <=> SavesCodex(a)
      BY <2>a DEF SavesCodex, Saving
    <3>2. \A a \in AuthActor : SavesCodex(a)' => auThread'[a].rec = auThread[a].rec
      BY <2>a DEF SavesCodex, Saving
    <3> QED
      BY <2>0, <2>a, <3>1, <3>2, RefreshStill
  <2>b. ASSUME NEW a \in AuthActor, NEW r, auThread' = [auThread EXCEPT ![a].pc = "open", ![a].rec = r],
               ~Saving(a), auPast' = auPast, auServer.valid \subseteq auServer'.valid,
               auThread[a].file = "codex" => r.refresh \in auServer'.valid
        PROVE  RefreshValid'
    <3>1. /\ \A b \in AuthActor \ {a} : auThread'[b] = auThread[b]
          /\ auThread'[a].pc = "open" /\ auThread'[a].rec = r /\ auThread'[a].file = auThread[a].file
      BY <2>b, <1>a DEF ActorState
    <3>2. \A b \in AuthActor : SavesCodex(b)' =>
            auThread'[b].rec.refresh \in auServer'.valid \/ (SavesCodex(b) /\ auThread'[b].rec = auThread[b].rec)
      BY <2>b, <3>1 DEF SavesCodex, Saving
    <3>3. \A b \in AuthActor : SavesCodex(b) => SavesCodex(b)'
      BY <2>b, <3>1 DEF SavesCodex, Saving
    <3> QED
      BY <2>0, <2>b, <3>2, <3>3, RefreshStill
  <2>1. ASSUME NEW a \in AuthActor, PostFails(a) PROVE RefreshValid'
    BY <2>1, <2>a, <1>a, AuthConstants DEF PostFails, GiveUp, Saving
  <2>c. ASSUME NEW a \in AuthActor, NEW pc \in {"post", "wait", "poll", "swap"}, NEW f, NEW r, Act(a, pc, f, r),
               auThread[a].pc = "idle", auServer' = auServer, auPast' = auPast \/ auPast' = Overlaps(a, f)
        PROVE  RefreshValid'
    <3>1. /\ \A b \in AuthActor \ {a} : auThread'[b] = auThread[b]
          /\ auThread'[a].pc = pc
      BY <2>c, <1>a DEF Act, IdleActor
    <3>2. auPast'.lost = auPast.lost
      BY <2>c, <1>b DEF Overlaps, PastState
    <3> QED
      BY <2>a, <2>c, <3>1, <3>2 DEF Saving
  <2>2. ASSUME NEW a \in AuthThread, ResolveAccessToken(a) PROVE RefreshValid'
    <3>1. PICK r : Act(a, "post", "codex", r) /\ auPast' = Overlaps(a, "codex")
      BY <2>2 DEF ResolveAccessToken
    <3> QED
      BY <2>2, <3>1, <2>c, <1>0 DEF ResolveAccessToken
  <2>3. ASSUME NEW a \in AuthThread, RefreshWithToken(a) PROVE RefreshValid'
    <3>1. PICK rotated \in BOOLEAN, until \in {auNow, auNow + TokenLife} :
            /\ auServer' = [next  |-> Grant,
                            valid |-> IF rotated THEN (auServer.valid \ {auThread[a].rec.refresh}) \cup {Grant}
                                      ELSE auServer.valid]
            /\ auThread' = [auThread EXCEPT ![a].pc = "open",
                 ![a].rec = [token |-> Grant, refresh |-> IF rotated THEN Grant ELSE auThread[a].rec.refresh,
                             until |-> until]]
      BY <2>3 DEF RefreshWithToken
    <3>2. /\ auThread[a].pc = "post" /\ auThread[a].file = "codex" /\ a \in AuthActor /\ auPast' = auPast
          /\ auThread[a].rec.refresh \in auServer.valid
      BY <2>3, <1>0 DEF RefreshWithToken, OneAtATime
    <3>3. /\ \A b \in AuthActor \ {a} : auThread'[b] = auThread[b]
          /\ auThread'[a].pc = "open" /\ auThread'[a].file = "codex"
          /\ auThread'[a].rec.refresh = IF rotated THEN Grant ELSE auThread[a].rec.refresh
      BY <3>1, <3>2, <1>a DEF ActorState
    <3>4. auThread'[a].rec.refresh \in auServer'.valid
      BY <3>1, <3>2, <3>3
    <3>5. "codex" \notin auPast.overlap => \A b \in AuthActor \ {a} : ~SavesCodex(b)
      BY <3>2, <1>0 DEF OneAtATime, Busy, SavesCodex, Saving
    <3>6. SavesCodex(a)'
      BY <3>3 DEF SavesCodex, Saving
    <3>7. "codex" \notin auPast.overlap => \A b \in AuthActor \ {a} : ~SavesCodex(b)'
      BY <3>3, <3>5 DEF SavesCodex, Saving
    <3> QED
      BY <3>2, <3>4, <3>6, <3>7 DEF RefreshValid
  <2>4. ASSUME NEW a \in AuthThread, ExchangeForApiToken(a) PROVE RefreshValid'
    <3>1. PICK r : auThread' = [auThread EXCEPT ![a].pc = "open", ![a].rec = r]
      BY <2>4 DEF ExchangeForApiToken
    <3>2. auThread[a].file = "cache" /\ ~Saving(a) /\ auPast' = auPast
      BY <2>4, <1>0 DEF ExchangeForApiToken, OneAtATime, Saving
    <3>3. auServer'.valid = auServer.valid
      BY <2>4 DEF ExchangeForApiToken, AuthTypes
    <3> QED
      BY <3>1, <3>2, <3>3, <2>b, <1>0
  <2>5. ASSUME NEW a \in AuthThread, NEW env \in BOOLEAN, ResolveRuntimeCredential(a, env) PROVE RefreshValid'
    <3>1. auPast' = auPast /\ auServer' = auServer /\ auThread[a].pc = "idle"
      BY <2>5 DEF ResolveRuntimeCredential
    <3>2. CASE auThread' = auThread
      BY <3>1, <3>2, <2>a
    <3>3. CASE auThread' # auThread
      <4>1. PICK r : Act(a, "swap", "cache", r)
        BY <2>5, <3>3 DEF ResolveRuntimeCredential
      <4> QED
        BY <3>1, <4>1, <2>c, <1>0
    <3> QED
      BY <3>2, <3>3
  <2>6. ASSUME NEW f \in {"codex", "copilot"}, Clear(f) PROVE RefreshValid'
    <3>1. auPast'.lost = auPast.lost
      BY <2>6, <1>b DEF Clear, Overlaps, PastState
    <3> QED
      BY <2>6, <3>1, <2>a DEF Clear
  <2>7. CASE LoginInteractive
    <3>1. Act(Cli, "wait", "codex", NoRecord) /\ auPast' = Overlaps(Cli, "codex")
          /\ auServer' = auServer /\ auThread[Cli].pc = "idle"
      BY <2>7 DEF LoginInteractive
    <3> QED
      BY <3>1, <2>c, <1>0
  <2>8. CASE RequestDeviceCode
    <3>1. Act(Cli, "poll", "copilot", NoRecord) /\ auPast' = Overlaps(Cli, "copilot")
          /\ auServer' = auServer /\ auThread[Cli].pc = "idle"
      BY <2>8 DEF RequestDeviceCode
    <3> QED
      BY <3>1, <2>c, <1>0
  <2>9. CASE LoginJoins
    <3>1. GiveUp(Cli) \/ auThread' = [auThread EXCEPT ![Cli].pc = "exchange"]
      BY <2>9 DEF LoginJoins
    <3>2. auServer' = auServer /\ auPast' = auPast /\ ~Saving(Cli)
      BY <2>9 DEF LoginJoins, Saving
    <3>3. auThread'[Cli].pc \in {"idle", "exchange"} /\ \A b \in AuthActor \ {Cli} : auThread'[b] = auThread[b]
      BY <3>1, <1>0, <1>a, AuthConstants DEF GiveUp, ActorState
    <3> QED
      BY <3>2, <3>3, <2>a
  <2>10. CASE ExchangeCode
    <3>1. PICK r : r.refresh = Grant /\ auThread' = [auThread EXCEPT ![Cli].pc = "open", ![Cli].rec = r]
      BY <2>10 DEF ExchangeCode
    <3>2. ~Saving(Cli) /\ auPast' = auPast
      BY <2>10 DEF ExchangeCode, Saving
    <3>3. auServer.valid \subseteq auServer'.valid /\ Grant \in auServer'.valid
      BY <2>10 DEF ExchangeCode
    <3> QED
      BY <3>1, <3>2, <3>3, <2>b, <1>0
  <2>11. CASE PollForAccessToken
    <3>1. PICK r : auThread' = [auThread EXCEPT ![Cli].pc = "open", ![Cli].rec = r]
      BY <2>11 DEF PollForAccessToken
    <3>2. auThread[Cli].file = "copilot" /\ ~Saving(Cli) /\ auPast' = auPast
      BY <2>11, <1>0 DEF PollForAccessToken, OneAtATime, Saving
    <3>3. auServer'.valid = auServer.valid
      BY <2>11 DEF PollForAccessToken, AuthTypes
    <3> QED
      BY <3>1, <3>2, <3>3, <2>b, <1>0
  <2>12. ASSUME NEW q \in {"none", "pasted"}, LoginWakes(q) PROVE RefreshValid'
    <3>1. /\ auThread[Cli].pc = "wait" /\ auThread' = [auThread EXCEPT ![Cli].pc = "join"]
          /\ auServer' = auServer /\ auPast' = auPast
      BY <2>12 DEF LoginWakes
    <3>2. auThread'[Cli].pc = "join" /\ \A b \in AuthActor \ {Cli} : auThread'[b] = auThread[b]
      BY <3>1, <1>0, <1>a DEF ActorState
    <3> QED
      BY <3>1, <3>2, <2>a DEF Saving
  <2>13. ASSUME NEW who \in {AuthThread, {Cli}}, Dies(who) PROVE RefreshValid'
    <3>1. \A b \in AuthActor : auThread'[b] = IF b \in who THEN IdleActor ELSE auThread[b]
      BY <2>13 DEF Dies
    <3>2. /\ auServer' = auServer /\ auPast.lost \subseteq auPast'.lost
          /\ \A b \in who : Saving(b) => auThread[b].file \in auPast'.lost
      BY <2>13, <1>b DEF Dies, PastState
    <3>3. \A b \in AuthActor : SavesCodex(b)' => SavesCodex(b) /\ auThread'[b].rec = auThread[b].rec
      BY <3>1, AuthConstants DEF SavesCodex, Saving
    <3>4. "codex" \notin auPast'.lost => \A b \in AuthActor : SavesCodex(b) => SavesCodex(b)'
      BY <3>1, <3>2 DEF SavesCodex, Saving
    <3> QED
      BY <2>0, <3>2, <3>3, <3>4, RefreshStill
  <2>14. CASE AuthTick \/ \E s \in {"ours", "other"}, x \in {"code", "error", "missing"} : Callback(s, x)
    <3>1. auServer' = auServer /\ auPast' = auPast /\ auThread' = auThread
      BY <2>14 DEF AuthTick, Callback
    <3> QED
      BY <3>1, <2>a
  <2> QED
    BY <1>2, <2>1, <2>2, <2>3, <2>4, <2>5, <2>6, <2>7, <2>8, <2>9, <2>10, <2>11, <2>12, <2>13, <2>14
       DEF AuthNext
<1> QED
  BY <1>1, <1>2

(* The code that is exchanged came with this login or was pasted.          *)
LEMMA LoginKeptOurs ==
  ASSUME AuthTypes, PathsApart, LoginOurs, AuthNext
  PROVE  LoginOurs'
<1>0. Cli \in AuthActor /\ AuthThread \subseteq AuthActor /\ Cli \notin AuthThread
  BY AuthConstants, AuthAssumption DEF AuthActor
<1>a. auThread \in [AuthActor -> ActorState] /\ \A a \in AuthActor : auThread[a] \in ActorState
  BY DEF AuthTypes
<1>b. ASSUME auLogin' = auLogin, auThread'[Cli].pc = "exchange" => auLogin.ok PROVE LoginOurs'
  BY <1>b DEF LoginOurs
<1>1. ASSUME NEW a \in AuthActor, SaveOpen(a) \/ SaveWrite(a) \/ SaveRename(a) \/ SaveFails(a) \/ PostFails(a)
      PROVE  LoginOurs'
  <2>1. auLogin' = auLogin
    BY <1>1 DEF SaveOpen, SaveWrite, SaveRename, SaveFails, PostFails
  <2>2. auThread'[Cli] = auThread[Cli] \/ auThread'[Cli].pc \in {"write", "rename", "idle"}
    <3>1. CASE SaveOpen(a)
      <4>1. PICK i \in Inode : auThread' = [auThread EXCEPT ![a].pc = "write", ![a].fd = i]
        BY <3>1, OpenInode
      <4> QED
        BY <4>1, <1>0, <1>a DEF ActorState
    <3>2. CASE SaveWrite(a)
      BY <3>2, <1>0, <1>a DEF SaveWrite, ActorState
    <3>3. CASE SaveRename(a) \/ SaveFails(a) \/ PostFails(a)
      BY <3>3, <1>0, <1>a, AuthConstants DEF SaveRename, SaveFails, PostFails, GiveUp
    <3> QED
      BY <1>1, <3>1, <3>2, <3>3
  <2> QED
    BY <2>1, <2>2, <1>b DEF LoginOurs
<1>2. ASSUME NEW a \in AuthThread, \/ ResolveAccessToken(a) \/ RefreshWithToken(a) \/ ExchangeForApiToken(a)
                                   \/ \E env \in BOOLEAN : ResolveRuntimeCredential(a, env)
      PROVE  LoginOurs'
  <2>1. auLogin' = auLogin
    BY <1>2 DEF ResolveAccessToken, RefreshWithToken, ExchangeForApiToken, ResolveRuntimeCredential
  <2>2. auThread'[Cli] = auThread[Cli]
    BY <1>2, <1>0, <1>a
       DEF ResolveAccessToken, RefreshWithToken, ExchangeForApiToken, ResolveRuntimeCredential, Act
  <2> QED
    BY <2>1, <2>2, <1>b DEF LoginOurs
<1>3. CASE LoginInteractive
  BY <1>3, <1>0, <1>a DEF LoginInteractive, Act, LoginOurs, IdleActor
<1>4. CASE LoginJoins
  <2>1. CASE auLogin.ok
    BY <1>4, <2>1, <1>b DEF LoginJoins
  <2>2. CASE ~auLogin.ok
    BY <1>4, <2>2, <1>0, <1>a, <1>b, AuthConstants DEF LoginJoins, GiveUp
  <2> QED
    BY <2>1, <2>2
<1>5. CASE ExchangeCode \/ PollForAccessToken \/ RequestDeviceCode
  <2>1. auLogin' = auLogin
    BY <1>5 DEF ExchangeCode, PollForAccessToken, RequestDeviceCode
  <2>2. CASE ExchangeCode \/ PollForAccessToken
    <3>1. PICK r : auThread' = [auThread EXCEPT ![Cli].pc = "open", ![Cli].rec = r]
      BY <2>2 DEF ExchangeCode, PollForAccessToken
    <3> QED
      BY <2>1, <3>1, <1>0, <1>a, <1>b DEF ActorState
  <2>3. CASE RequestDeviceCode
    BY <2>1, <2>3, <1>0, <1>a, <1>b DEF RequestDeviceCode, Act, IdleActor
  <2> QED
    BY <1>5, <2>2, <2>3
<1>6. ASSUME NEW s \in {"ours", "other"}, NEW x \in {"code", "error", "missing"}, Callback(s, x)
      PROVE  LoginOurs'
  <2>1. auThread'[Cli].pc # "exchange"
    BY <1>6 DEF Callback
  <2>2. auLogin'.ok => auLogin'.code = "ours"
    BY <1>6 DEF Callback
  <2> QED
    BY <2>1, <2>2 DEF LoginOurs
<1>7. ASSUME NEW q \in {"none", "pasted"}, LoginWakes(q) PROVE LoginOurs'
  <2>1. auThread'[Cli].pc = "join"
    BY <1>7, <1>0, <1>a DEF LoginWakes, ActorState
  <2>2. auLogin'.ok => auLogin'.code \in {"ours", "pasted"}
    <3>1. CASE auLogin.done
      BY <1>7, <3>1 DEF LoginWakes, LoginOurs
    <3>2. CASE ~auLogin.done
      <4>1. auLogin'.ok = (q # "none") /\ auLogin'.code = q
        BY <1>7, <3>2 DEF LoginWakes
      <4> QED
        BY <4>1
    <3> QED
      BY <3>1, <3>2
  <2> QED
    BY <2>1, <2>2 DEF LoginOurs
<1>8. ASSUME NEW who \in {AuthThread, {Cli}}, Dies(who) PROVE LoginOurs'
  BY <1>8, <1>0, <1>b, AuthConstants DEF Dies, LoginOurs
<1>9. CASE AuthTick \/ \E f \in {"codex", "copilot"} : Clear(f)
  BY <1>9 DEF AuthTick, Clear, LoginOurs
<1> QED
  BY <1>1, <1>2, <1>3, <1>4, <1>5, <1>6, <1>7, <1>8, <1>9 DEF AuthNext

(* The first states.                                                       *)
LEMMA AuthStart ==
  ASSUME NEW p \in {"codex", "copilot"}, AuthInit(p)
  PROVE  AuthInv
<1>1. AuthTypes
  BY AuthConstants, AuthAssumption DEF AuthInit, AuthTypes, FileState, PastState
<1>2. \A a \in AuthActor : auThread[a] = IdleActor /\ IdleActor.pc = "idle" /\ IdleActor.file = "codex"
  BY AuthConstants DEF AuthInit
<1>3. OneAtATime
  BY <1>2 DEF OneAtATime, Busy
<1>4. PathsApart /\ \A f \in AuthFiles : Load(f) = NoRecord
  BY DEF AuthInit, PathsApart, Load
<1>5. OwnInode
  BY <1>2 DEF OwnInode, OwnsInode, Saving
<1>6. auPast.in = {}
  BY DEF AuthInit
<1>7. RefreshValid /\ Stored
  BY <1>2, <1>4, <1>6 DEF RefreshValid, Stored, SavesCodex, Saving
<1>8. LoginOurs
  BY <1>2, AuthConstants DEF AuthInit, LoginOurs
<1> QED
  BY <1>1, <1>3, <1>4, <1>5, <1>7, <1>8 DEF AuthInv

(* Whatever fails or dies between the steps of a save, and whichever of    *)
(* gateway and command line is at work, a login is there until logout and  *)
(* can be refreshed, unless two wrote its file at a time or an answer was  *)
(* never stored; and only this login's own code is exchanged               *)
(* (provider_auth.cpp, openai_codex_auth.cpp).                             *)
THEOREM AuthAlwaysSafe == AuthSpec => []AuthSafe
<1>1. (\E p \in {"codex", "copilot"} : AuthInit(p)) => AuthInv
  BY AuthStart
<1>2. AuthInv /\ [AuthNext]_authVars => AuthInv'
  <2>1. SUFFICES ASSUME AuthInv, [AuthNext]_authVars PROVE AuthInv'
    OBVIOUS
  <2>2. CASE AuthNext
    BY <2>1, <2>2, AuthTyped, OneKept, PathsKept, OwnKept, RefreshKept, StoredKept, LoginKeptOurs DEF AuthInv
  <2>3. CASE UNCHANGED authVars
    BY <2>1, <2>3
       DEF AuthInv, authVars, AuthTypes, OneAtATime, Busy, PathsApart, OwnInode, OwnsInode, Saving,
           RefreshValid, SavesCodex, Stored, Load, LoginOurs
  <2> QED
    BY <2>1, <2>2, <2>3
<1>3. AuthInv => AuthSafe
  <2>1. SUFFICES ASSUME AuthInv PROVE LoginKept /\ CodeIsOurs
    BY DEF AuthSafe
  <2>2. CodeIsOurs
    BY <2>1 DEF AuthInv, LoginOurs, CodeIsOurs
  <2>3. LoginKept
    BY <2>1 DEF AuthInv, Stored, RefreshValid, SavesCodex, LoginKept
  <2> QED
    BY <2>2, <2>3
<1> QED
  BY <1>1, <1>2, <1>3, PTL DEF AuthSpec

-----------------------------------------------------------------------------
(***************************************************************************)
(* Plugins.                                                                *)
(***************************************************************************)
(* The plugin system on its own.                                           *)
PluginsSpec ==
  /\ \E c \in PluginConfigs : PluginsInit(c)
  /\ [][PluginsNext]_pluginVars

(* The configuration and the sidecar are records.                          *)
PluginShapes ==
  /\ plConfig = [state |-> plConfig.state, config |-> plConfig.config]
  /\ plSidecar = [state |-> plSidecar.state, loaded |-> plSidecar.loaded]

(* Handlers, and each copy of them, have the highest priority first.       *)
Handlers(list) ==
  /\ list \in Seq(HookPlugins)
  /\ \A i, j \in DOMAIN list : i < j => HookPriority[list[i]] >= HookPriority[list[j]]

FireState ==
  [pc : {"idle", "run", "done"}, mode : {"void", "modifying"}, list : Seq(HookPlugins),
   left : SUBSET Nat, answered : SUBSET (HookPlugins \cup {"sidecar"}),
   result : HookPlugins \cup {"sidecar", "none"}]

(* While a modifying hook runs, its result is the answer of the lowest     *)
(* priority, and those still to run are not above it.                      *)
FireOK(f) ==
  /\ Handlers(f.list) /\ f.left \subseteq DOMAIN f.list
  /\ f.pc = "run" /\ f.mode # "void" =>
       /\ "sidecar" \notin f.answered
       /\ f.answered = {} => f.result = "none"
       /\ f.answered # {} =>
            /\ f.result \in f.answered
            /\ \A p \in f.answered : HookPriority[f.result] <= HookPriority[p]
            /\ \A i \in f.left : HookPriority[f.list[i]] <= HookPriority[f.result]

PluginsInv ==
  /\ PluginShapes /\ DeniedStaysOff /\ LastAnswerWins
  /\ Handlers(hkHandlers)
  /\ hkFire \in [PluginThread -> FireState]
  /\ \A t \in PluginThread : FireOK(hkFire[t])

(* What the registry enables is what the configuration allows, and what    *)
(* the sidecar adds is an id that no folder has, given by the module of a  *)
(* plugin that the configuration allows.                                   *)
LEMMA InitializeAllowed ==
  ASSUME NEW c, NEW script, NEW starts, NEW listed, plConfig.config = c,
         PluginShapes, DeniedStaysOff, Initialize(c, script, starts, listed)
  PROVE  PluginShapes' /\ DeniedStaysOff'
<1> DEFINE records == Discover(c)
           Named(id) == id \notin Found /\ \E p \in Found : MayLoad(p, c) /\ id \in PluginNames[p]
<1>1. /\ DOMAIN records = Found /\ EnabledPluginIds(records) \subseteq Found
      /\ \A id \in Found : DOMAIN records[id] = {"origin", "enabled", "tools"}
  BY DEF EnabledPluginIds, Discover
<1>2. \A id \in EnabledPluginIds(records) : MayLoad(id, c)
  BY DEF EnabledPluginIds, Discover, should_enable, MayLoad
<1>3. plConfig' = [state |-> "up", config |-> c] /\ plConfig'.config = c
  BY DEF Initialize
<1>4. CASE plRecords' = records /\ plSidecar' = plSidecar
  <2>1. plSidecar'.loaded \subseteq Found /\ \A id \in plSidecar'.loaded : MayLoad(id, c)
    BY <1>4 DEF DeniedStaysOff
  <2>2. \A id \in EnabledPluginIds(plRecords)' : MayLoad(id, c)
    BY <1>2, <1>4 DEF EnabledPluginIds
  <2> QED
    BY <1>3, <1>4, <2>1, <2>2 DEF PluginShapes, DeniedStaysOff
<1>5. ASSUME NEW name \in Loads(records),
             plSidecar' = [state |-> "running", loaded |-> DOMAIN name],
             \/ plRecords' = records
             \/ plRecords' = UpdateFromSidecar(records, {name[id] : id \in DOMAIN name})
      PROVE  PluginShapes' /\ DeniedStaysOff'
  <2> DEFINE reported == {name[id] : id \in DOMAIN name}
             updated == UpdateFromSidecar(records, reported)
  <2>1. /\ DOMAIN name \subseteq EnabledPluginIds(records)
        /\ \A id \in DOMAIN name : name[id] \in PluginNames[id]
    BY DEF Loads
  <2>2. /\ plSidecar'.loaded \subseteq Found
        /\ \A id \in plSidecar'.loaded : MayLoad(id, c)
    BY <1>1, <1>2, <1>5, <2>1
  <2>3. /\ DOMAIN updated = Found \cup reported
        /\ \A id \in Found : updated[id].enabled = records[id].enabled
    BY <1>1 DEF UpdateFromSidecar
  <2>4. \A id \in reported : \E p \in Found : MayLoad(p, c) /\ id \in PluginNames[p]
    BY <1>1, <1>2, <2>1
  <2>5. \A id \in EnabledPluginIds(updated) : MayLoad(id, c) \/ Named(id)
    BY <1>1, <1>2, <2>3, <2>4 DEF EnabledPluginIds
  <2>6. \A id \in EnabledPluginIds(plRecords)' : MayLoad(id, c) \/ Named(id)
    BY <1>2, <1>5, <2>5 DEF EnabledPluginIds
  <2> QED
    BY <1>3, <1>5, <2>2, <2>6 DEF PluginShapes, DeniedStaysOff
<1> QED
  BY <1>4, <1>5 DEF Initialize

(* Registering and unregistering keep the handlers in order.               *)
LEMMA HandlersOrdered ==
  ASSUME Handlers(hkHandlers), NEW p \in HookPlugins, RegisterHook(p) \/ UnregisterHook(p)
  PROVE  Handlers(hkHandlers)'
<1>0. Len(hkHandlers) \in Nat /\ DOMAIN hkHandlers = 1 .. Len(hkHandlers)
      /\ \A i \in DOMAIN hkHandlers : hkHandlers[i] \in HookPlugins
  BY DEF Handlers
<1>1. CASE RegisterHook(p)
  <2> DEFINE n == Len(hkHandlers) + 1
             all == Append(hkHandlers, p)
  <2>1. PICK s \in [1 .. n -> 1 .. n] :
          /\ \A i, j \in 1 .. n : i < j => HookPriority[all[s[i]]] >= HookPriority[all[s[j]]]
          /\ hkHandlers' = [i \in 1 .. n |-> all[s[i]]]
    BY <1>1 DEF RegisterHook
  <2>2. all \in Seq(HookPlugins) /\ Len(all) = n /\ n \in Nat
    BY <1>0 DEF Handlers
  <2>3. \A i \in 1 .. n : all[s[i]] \in HookPlugins
    BY <2>2
  <2> HIDE DEF all, n
  <2>4. hkHandlers' \in Seq(HookPlugins) /\ DOMAIN hkHandlers' = 1 .. n
    BY <2>1, <2>2, <2>3, IsASeq
  <2> QED
    BY <2>1, <2>4 DEF Handlers
<1>2. CASE UnregisterHook(p)
  <2> DEFINE rest == {i \in DOMAIN hkHandlers : hkHandlers[i] # p}
             n == Cardinality(rest)
  <2>1. PICK s \in [1 .. n -> rest] :
          /\ \A i, j \in 1 .. n : i < j => s[i] < s[j]
          /\ hkHandlers' = [i \in 1 .. n |-> hkHandlers[s[i]]]
    BY <1>2 DEF UnregisterHook
  <2>2. n \in Nat
    <3>1. IsFiniteSet(1 .. Len(hkHandlers))
      BY <1>0, FS_Interval
    <3>2. rest \in SUBSET (1 .. Len(hkHandlers))
      BY <1>0
    <3> HIDE DEF rest
    <3> QED
      BY <3>1, <3>2, FS_Subset, FS_CardinalityType
  <2> HIDE DEF n
  <2>3. \A i \in 1 .. n : s[i] \in DOMAIN hkHandlers /\ hkHandlers[s[i]] \in HookPlugins
    BY <1>0, <2>1
  <2>4. hkHandlers' \in Seq(HookPlugins) /\ DOMAIN hkHandlers' = 1 .. n
    BY <2>1, <2>2, <2>3, IsASeq
  <2>5. \A i, j \in 1 .. n : i < j => HookPriority[hkHandlers[s[i]]] >= HookPriority[hkHandlers[s[j]]]
    BY <2>1, <2>3 DEF Handlers
  <2> QED
    BY <2>1, <2>4, <2>5 DEF Handlers
<1> QED
  BY <1>1, <1>2

(* One handler answers or throws.                                          *)
LEMMA HandlerRuns ==
  ASSUME NEW t \in PluginThread, hkFire \in [PluginThread -> FireState], FireOK(hkFire[t]),
         NEW i, NEW throws \in BOOLEAN, RunHandler(t, i, throws)
  PROVE  /\ hkFire'[t] \in FireState /\ FireOK(hkFire'[t]) /\ hkFire'[t].pc = "run"
         /\ \A u \in PluginThread \ {t} : hkFire'[u] = hkFire[u]
         /\ DOMAIN hkFire' = PluginThread /\ hkFire' = [u \in PluginThread |-> hkFire'[u]]
<1> DEFINE f == hkFire[t]
           g == [f EXCEPT !.left = @ \ {i}, !.answered = IF throws THEN @ ELSE @ \cup {f.list[i]},
                          !.result = IF throws \/ f.mode = "void" THEN @ ELSE f.list[i]]
<1>1. /\ f \in FireState /\ f.pc = "run" /\ i \in f.left
      /\ f.mode # "void" => \A j \in f.left : i <= j
      /\ hkFire' = [hkFire EXCEPT ![t] = g]
  BY DEF RunHandler
<1>2. f.list \in Seq(HookPlugins) /\ i \in DOMAIN f.list /\ f.list[i] \in HookPlugins
  BY <1>1 DEF FireOK, Handlers
<1>3. /\ g \in FireState /\ g.pc = "run" /\ g.mode = f.mode /\ g.list = f.list /\ g.left = f.left \ {i}
      /\ g.answered = IF throws THEN f.answered ELSE f.answered \cup {f.list[i]}
      /\ g.result = IF throws \/ f.mode = "void" THEN f.result ELSE f.list[i]
  BY <1>1, <1>2 DEF FireState
<1>4. hkFire'[t] = g /\ \A u \in PluginThread \ {t} : hkFire'[u] = hkFire[u]
  BY <1>1
<1> HIDE DEF g
<1>5. FireOK(g)
  <2>1. Handlers(g.list) /\ g.left \subseteq DOMAIN g.list
    BY <1>3 DEF FireOK
  <2>2. CASE throws \/ f.mode = "void"
    BY <1>1, <1>3, <2>1, <2>2 DEF FireOK
  <2>3. CASE ~throws /\ f.mode # "void"
    <3>1. g.result = f.list[i] /\ g.answered = f.answered \cup {f.list[i]}
      BY <1>3, <2>3
    <3>2. "sidecar" \notin g.answered /\ g.answered # {} /\ g.result \in g.answered
      BY <1>1, <1>2, <2>3, <3>1, HookAssumption DEF FireOK
    <3>3. \A p \in HookPlugins : HookPriority[p] \in Int
      BY HookAssumption
    <3>4. \A j \in f.left : HookPriority[f.list[j]] <= HookPriority[f.list[i]]
      <4>1. SUFFICES ASSUME NEW j \in f.left PROVE HookPriority[f.list[j]] <= HookPriority[f.list[i]]
        OBVIOUS
      <4>2. j \in DOMAIN f.list /\ i \in DOMAIN f.list /\ i <= j /\ i \in Int /\ j \in Int
            /\ f.list[j] \in HookPlugins
        BY <1>1, <1>2, <2>3 DEF FireOK, FireState
      <4>3. CASE i = j
        BY <4>2, <4>3, <3>3
      <4>4. CASE i < j
        BY <4>2, <4>4, <1>2, <3>3 DEF FireOK, Handlers
      <4> QED
        BY <4>2, <4>3, <4>4
    <3>5. \A p \in f.answered : HookPriority[f.list[i]] <= HookPriority[p]
      <4>1. SUFFICES ASSUME NEW p \in f.answered PROVE HookPriority[f.list[i]] <= HookPriority[p]
        OBVIOUS
      <4>2. /\ f.result \in f.answered /\ HookPriority[f.result] <= HookPriority[p]
            /\ HookPriority[f.list[i]] <= HookPriority[f.result]
        BY <1>1, <2>3 DEF FireOK
      <4>3. f.result \in HookPlugins /\ p \in HookPlugins
        BY <1>1, <2>3, <4>2 DEF FireOK, FireState
      <4> QED
        BY <4>2, <4>3, <1>2, <3>3
    <3> QED
      BY SMTT(40), <1>2, <1>3, <2>1, <3>1, <3>2, <3>3, <3>4, <3>5 DEF FireOK
  <2> QED
    BY <2>2, <2>3
<1> QED
  BY <1>1, <1>3, <1>4, <1>5

(* The answers of one thread are as they should be.                        *)
WinsAt(f) ==
  f.pc = "done" /\ f.mode # "void" =>
    IF "sidecar" \in f.answered THEN f.result = "sidecar"
    ELSE IF f.answered = {} THEN f.result = "none"
    ELSE f.result \in f.answered /\ \A p \in f.answered : HookPriority[f.result] <= HookPriority[p]

(* Steps of the hooks.                                                     *)
LEMMA HooksStep ==
  ASSUME Handlers(hkHandlers), hkFire \in [PluginThread -> FireState],
         \A t \in PluginThread : FireOK(hkFire[t]) /\ WinsAt(hkFire[t]),
         NEW t \in PluginThread,
         \/ \E mode \in {"void", "modifying"} : Fire(t, mode)
         \/ FireReturns(t)
         \/ \E i \in 1 .. MaxHooks, throws \in BOOLEAN : RunHandler(t, i, throws)
         \/ \E ok \in BOOLEAN : ForwardToSidecar(t, ok)
  PROVE  /\ Handlers(hkHandlers)' /\ hkFire' \in [PluginThread -> FireState]
         /\ \A u \in PluginThread : FireOK(hkFire'[u]) /\ WinsAt(hkFire'[u])
         /\ UNCHANGED <<plConfig, plRecords, plSidecar>>
<1>0. /\ <<>> \in Seq(HookPlugins) /\ Handlers(<<>>) /\ DOMAIN <<>> = {}
      /\ NoFire \in FireState /\ FireOK(NoFire) /\ WinsAt(NoFire)
  BY DEF Handlers, NoFire, FireState, FireOK, WinsAt
<1>a. ASSUME NEW g \in FireState, FireOK(g), WinsAt(g), hkFire' = [hkFire EXCEPT ![t] = g]
      PROVE  /\ hkFire' \in [PluginThread -> FireState]
             /\ \A u \in PluginThread : FireOK(hkFire'[u]) /\ WinsAt(hkFire'[u])
  <2>1. hkFire'[t] = g /\ \A u \in PluginThread \ {t} : hkFire'[u] = hkFire[u]
    BY <1>a
  <2> QED
    BY <1>a, <2>1
<1>b. UNCHANGED <<plConfig, plRecords, plSidecar, hkHandlers>> /\ Handlers(hkHandlers)'
  BY DEF Fire, FireReturns, RunHandler, ForwardToSidecar, Handlers
<1>1. ASSUME NEW mode \in {"void", "modifying"}, Fire(t, mode)
      PROVE  /\ hkFire' \in [PluginThread -> FireState]
             /\ \A u \in PluginThread : FireOK(hkFire'[u]) /\ WinsAt(hkFire'[u])
  <2> DEFINE g == [NoFire EXCEPT !.pc = "run", !.mode = mode, !.list = hkHandlers, !.left = DOMAIN hkHandlers]
  <2>1. /\ g.pc = "run" /\ g.list = hkHandlers /\ g.left = DOMAIN hkHandlers /\ g.answered = {}
        /\ g.result = "none"
    BY DEF NoFire
  <2>2. g \in FireState
    <3>1. hkHandlers \in Seq(HookPlugins) /\ DOMAIN hkHandlers \in SUBSET Nat
      BY DEF Handlers
    <3> QED
      BY <3>1 DEF NoFire, FireState
  <2>3. hkFire' = [hkFire EXCEPT ![t] = g]
    BY <1>1 DEF Fire
  <2> HIDE DEF g
  <2> QED
    BY <1>a, <2>1, <2>2, <2>3 DEF FireOK, WinsAt
<1>2. CASE FireReturns(t)
  BY <1>0, <1>2, <1>a DEF FireReturns
<1>3. ASSUME NEW i, NEW throws \in BOOLEAN, RunHandler(t, i, throws)
      PROVE  /\ hkFire' \in [PluginThread -> FireState]
             /\ \A u \in PluginThread : FireOK(hkFire'[u]) /\ WinsAt(hkFire'[u])
  BY <1>3, HandlerRuns DEF WinsAt
<1>4. ASSUME NEW ok \in BOOLEAN, ForwardToSidecar(t, ok)
      PROVE  /\ hkFire' \in [PluginThread -> FireState]
             /\ \A u \in PluginThread : FireOK(hkFire'[u]) /\ WinsAt(hkFire'[u])
  <2> DEFINE f == hkFire[t]
             g == [f EXCEPT !.pc = "done", !.answered = IF ok THEN @ \cup {"sidecar"} ELSE @,
                            !.result = IF ok /\ f.mode # "void" THEN "sidecar" ELSE @]
  <2>1. f \in FireState /\ FireOK(f) /\ f.pc = "run"
    BY <1>4 DEF ForwardToSidecar
  <2>2. /\ g \in FireState /\ g.pc = "done" /\ g.mode = f.mode /\ g.list = f.list /\ g.left = f.left
        /\ g.answered = IF ok THEN f.answered \cup {"sidecar"} ELSE f.answered
        /\ g.result = IF ok /\ f.mode # "void" THEN "sidecar" ELSE f.result
    BY <2>1 DEF FireState
  <2>3. hkFire' = [hkFire EXCEPT ![t] = g]
    BY <1>4 DEF ForwardToSidecar
  <2> HIDE DEF g
  <2>4. FireOK(g)
    BY <2>1, <2>2 DEF FireOK
  <2>5. WinsAt(g)
    BY <2>1, <2>2 DEF FireOK, WinsAt
  <2> QED
    BY <1>a, <2>2, <2>3, <2>4, <2>5
<1> QED
  BY <1>b, <1>1, <1>2, <1>3, <1>4

(* Whatever ids the modules in the sidecar report, no plugin of a folder   *)
(* runs that the configuration forbids, an id that no folder has comes on  *)
(* only by the word of a module the configuration lets run, and a          *)
(* modifying hook ends with the right answer, although handlers come, go   *)
(* and throw while it runs (plugin_registry.cpp, plugin-loader.ts,         *)
(* hook_manager.cpp).                                                      *)
THEOREM PluginsAlwaysSound == PluginsSpec => []PluginsSound
<1>1. (\E c \in PluginConfigs : PluginsInit(c)) => PluginsInv
  <2>1. SUFFICES ASSUME NEW c \in PluginConfigs, PluginsInit(c) PROVE PluginsInv
    OBVIOUS
  <2>2. /\ <<>> \in Seq(HookPlugins) /\ Handlers(<<>>)
        /\ NoFire \in FireState /\ FireOK(NoFire) /\ NoFire.pc = "idle"
    BY DEF Handlers, NoFire, FireState, FireOK
  <2> QED
    BY <2>1, <2>2
       DEF PluginsInit, PluginsInv, PluginShapes, DeniedStaysOff, LastAnswerWins, NoSidecar, EnabledPluginIds
<1>2. PluginsInv /\ [PluginsNext]_pluginVars => PluginsInv'
  <2>1. SUFFICES ASSUME PluginsInv, [PluginsNext]_pluginVars PROVE PluginsInv'
    OBVIOUS
  <2>2. \A t \in PluginThread : FireOK(hkFire[t]) /\ WinsAt(hkFire[t])
    BY <2>1 DEF PluginsInv, LastAnswerWins, WinsAt
  <2>a. ASSUME UNCHANGED <<plConfig, plRecords, plSidecar>> PROVE PluginShapes' /\ DeniedStaysOff'
    BY <2>1, <2>a DEF PluginsInv, PluginShapes, DeniedStaysOff, EnabledPluginIds
  <2>b. ASSUME UNCHANGED <<hkHandlers, hkFire>>
        PROVE  /\ LastAnswerWins' /\ Handlers(hkHandlers)' /\ hkFire' \in [PluginThread -> FireState]
               /\ \A t \in PluginThread : FireOK(hkFire'[t])
    BY <2>1, <2>b DEF PluginsInv, LastAnswerWins
  <2>3. ASSUME NEW script \in BOOLEAN, NEW starts \in BOOLEAN, NEW listed \in BOOLEAN,
               Initialize(plConfig.config, script, starts, listed)
        PROVE  PluginsInv'
    <3>1. PICK c : c = plConfig.config
      OBVIOUS
    <3>2. PluginShapes' /\ DeniedStaysOff'
      BY <2>1, <2>3, <3>1, InitializeAllowed DEF PluginsInv
    <3>3. UNCHANGED <<hkHandlers, hkFire>>
      BY <2>3 DEF Initialize
    <3> QED
      BY <3>2, <3>3, <2>b DEF PluginsInv
  <2>4. CASE Shutdown \/ SidecarDies
    <3>1. PluginShapes' /\ DeniedStaysOff'
      BY <2>1, <2>4
         DEF PluginsInv, PluginShapes, DeniedStaysOff, EnabledPluginIds, Shutdown, SidecarDies, NoSidecar
    <3>2. UNCHANGED <<hkHandlers, hkFire>>
      BY <2>4 DEF Shutdown, SidecarDies
    <3> QED
      BY <3>1, <3>2, <2>b DEF PluginsInv
  <2>5. CASE \/ ClearHooks \/ \E p \in HookPlugins : RegisterHook(p) \/ UnregisterHook(p)
    <3>1. UNCHANGED <<plConfig, plRecords, plSidecar, hkFire>>
      BY <2>5 DEF ClearHooks, RegisterHook, UnregisterHook
    <3>2. Handlers(hkHandlers)'
      <4>1. Handlers(<<>>)
        BY DEF Handlers
      <4>2. CASE ClearHooks
        BY <4>1, <4>2 DEF ClearHooks
      <4>3. CASE \E p \in HookPlugins : RegisterHook(p) \/ UnregisterHook(p)
        BY <2>1, <4>3, HandlersOrdered DEF PluginsInv
      <4> QED
        BY <2>5, <4>2, <4>3
    <3>3. LastAnswerWins' /\ hkFire' \in [PluginThread -> FireState] /\ \A t \in PluginThread : FireOK(hkFire'[t])
      BY <2>1, <3>1 DEF PluginsInv, LastAnswerWins
    <3> QED
      BY <2>a, <3>1, <3>2, <3>3 DEF PluginsInv
  <2>6. ASSUME NEW t \in PluginThread, \/ CheckSidecar(t) \/ \E ok \in BOOLEAN : CallSidecar(t, ok)
        PROVE  PluginsInv'
    <3>1. UNCHANGED <<plConfig, plRecords, plSidecar, hkHandlers, hkFire>>
      BY <2>6 DEF CheckSidecar, CallSidecar
    <3> QED
      BY <3>1, <2>a, <2>b DEF PluginsInv
  <2>7. ASSUME NEW t \in PluginThread,
               \/ \E mode \in {"void", "modifying"} : Fire(t, mode)
               \/ FireReturns(t)
               \/ \E i \in 1 .. MaxHooks, throws \in BOOLEAN : RunHandler(t, i, throws)
               \/ \E ok \in BOOLEAN : ForwardToSidecar(t, ok)
        PROVE  PluginsInv'
    <3>1. /\ Handlers(hkHandlers)' /\ hkFire' \in [PluginThread -> FireState]
          /\ \A u \in PluginThread : FireOK(hkFire'[u]) /\ WinsAt(hkFire'[u])
          /\ UNCHANGED <<plConfig, plRecords, plSidecar>>
      BY <2>1, <2>2, <2>7, HooksStep DEF PluginsInv
    <3>2. LastAnswerWins'
      BY <3>1 DEF LastAnswerWins, WinsAt
    <3> QED
      BY <3>1, <3>2, <2>a DEF PluginsInv
  <2>8. CASE UNCHANGED pluginVars
    BY <2>8, <2>a, <2>b DEF pluginVars, PluginsInv
  <2> QED
    BY <2>1, <2>3, <2>4, <2>5, <2>6, <2>7, <2>8 DEF PluginsNext
<1>3. PluginsInv => PluginsSound
  BY DEF PluginsInv, PluginsSound
<1> QED
  BY <1>1, <1>2, <1>3, PTL DEF PluginsSpec

-----------------------------------------------------------------------------
(***************************************************************************)
(* Skills.                                                                 *)
(***************************************************************************)
(* Skills on their own: hot installation and the installation of           *)
(* dependencies in one behaviour.                                          *)
SkillsSpec ==
  /\ \E present \in SUBSET DOMAIN SkillFiles, bins \in SUBSET Binaries : SkillsInit(present, bins)
  /\ [][HotNext \/ InstallNext]_skillVars

SkillPath == DOMAIN SkillFiles

HotShape(h) ==
  /\ h = [watching |-> h.watching, paths |-> h.paths, mtimes |-> h.mtimes, names |-> h.names]
  /\ h.watching \in BOOLEAN

ScanShape(s) ==
  /\ s = [pc |-> s.pc, todo |-> s.todo, file |-> s.file, found |-> s.found]
  /\ s.pc \in {"idle", "dirs", "parse", "say", "late"}
  /\ s.todo \subseteq SkillPath /\ s.found \subseteq SkillPath
  /\ s.pc = "parse" => s.file \in SkillPath

WatchShape(w) ==
  /\ w = [pc |-> w.pc, todo |-> w.todo, file |-> w.file, mtime |-> w.mtime]
  /\ w.pc \in {"idle", "dirs", "add", "names", "say"}
  /\ w.todo \subseteq SkillPath
  /\ w.pc \in {"add", "names", "say"} => w.file \in SkillPath

(* What is there and what the threads hold are files of the instance.      *)
HotTypes ==
  /\ skDisk = [present |-> skDisk.present, mtime |-> skDisk.mtime]
  /\ skDisk.present \subseteq SkillPath
  /\ HotShape(skHot) /\ ScanShape(skScan) /\ WatchShape(skWatch)
  /\ skSaid \in [AllNames -> Nat]

(* Who is about to tell the callback of a name.                            *)
ScanBrings(n) == skScan.pc = "say" /\ \E p \in skScan.found : NameOf(p) = n
WatchBrings(n) == skWatch.pc = "say" /\ NameOf(skWatch.file) = n

(* Whoever made a name known is the only one to tell of it, and has not    *)
(* done so while it is about to.                                           *)
Announced ==
  /\ \A n \in AllNames :
       /\ ScanBrings(n) \/ WatchBrings(n) => n \in skHot.names /\ skSaid[n] = 0
       /\ ~ (ScanBrings(n) /\ WatchBrings(n))
       /\ n \notin skHot.names => skSaid[n] = 0
       /\ skSaid[n] <= 1
  /\ skScan.pc = "say" => \A p, q \in skScan.found : NameOf(p) = NameOf(q) => p = q
  /\ ~ skHot.watching => skWatch.pc = "idle"

(* The instructions an installation has passed without a failure have      *)
(* their binaries on the PATH or, the downloads, fetched.                  *)
InstallShape(i) ==
  /\ i = [pc |-> i.pc, file |-> i.file, next |-> i.next, ok |-> i.ok, fetched |-> i.fetched]
  /\ i.pc \in {"idle", "run", "done"} /\ i.next \in Nat /\ i.ok \in BOOLEAN
  /\ i.pc # "idle" => i.file \in SkillPath

Passed ==
  LET list == SkillFiles[skInstall.file].installs
  IN  skInstall.pc = "run" /\ skInstall.ok =>
        \A i \in DOMAIN list : i < skInstall.next /\ list[i].method \in Methods =>
          list[i].bin \in skBins \/ (list[i].method = "download" /\ list[i].bin \in skInstall.fetched)

InstallInv ==
  /\ skDisk = [present |-> skDisk.present, mtime |-> skDisk.mtime]
  /\ skDisk.present \subseteq SkillPath
  /\ skList = [complete |-> skList.complete, list |-> skList.list]
  /\ skList.list \in Seq(SkillPath)
  /\ skWatch.pc = "add" => skWatch.file \in SkillPath
  /\ InstallShape(skInstall) /\ Passed /\ InstallReport

SkillsInv == HotTypes /\ Announced /\ InstallInv

(* No name is told twice.                                                  *)
LEMMA ToldOnce ==
  ASSUME HotTypes, Announced
  PROVE  AnnouncedOnce
<1>1. \A n \in AllNames : skSaid[n] \in Nat
  BY DEF HotTypes
<1> QED
  BY <1>1 DEF Announced, AnnouncedOnce

(* The scan tells once of each name it added.                              *)
LEMMA ScanTells ==
  ASSUME HotTypes, Announced, ScanSays, NEW n \in AllNames
  PROVE  skSaid'[n] = IF ScanBrings(n) THEN skSaid[n] + 1 ELSE skSaid[n]
<1> DEFINE S == {p \in skScan.found : NameOf(p) = n}
<1>0. CASE skScan.pc = "late"
  BY <1>0 DEF ScanSays, ScanBrings
<1>n. ASSUME skScan.pc = "say"
      PROVE  skSaid'[n] = skSaid[n] + Cardinality(S)
  BY <1>n DEF ScanSays
<1>s. SUFFICES ASSUME skScan.pc = "say" PROVE skSaid'[n] = IF ScanBrings(n) THEN skSaid[n] + 1 ELSE skSaid[n]
  BY <1>0 DEF ScanSays
<1>1. skSaid'[n] = skSaid[n] + Cardinality(S)
  BY <1>s, <1>n
<1>2. skSaid[n] \in Nat
  BY DEF HotTypes
<1>3. CASE ScanBrings(n)
  <2>1. PICK p \in skScan.found : NameOf(p) = n
    BY <1>3 DEF ScanBrings
  <2>2. S = {p}
    BY <1>s, <2>1 DEF Announced
  <2>3. Cardinality(S) = 1
    BY <2>2, FS_Singleton
  <2> QED
    BY <1>1, <1>3, <2>3
<1>4. CASE ~ ScanBrings(n)
  <2>1. S = {}
    BY <1>s, <1>4 DEF ScanBrings
  <2>2. Cardinality(S) = 0
    BY <2>1, FS_EmptySet
  <2> QED
    BY <1>1, <1>2, <1>4, <2>2
<1> QED
  BY <1>3, <1>4

(* The steps that leave the threads and what is known alone.               *)
LEMMA HotKept ==
  ASSUME HotTypes, Announced, UNCHANGED hotVars, skDisk' = skDisk
  PROVE  HotTypes' /\ Announced'
BY DEF HotTypes, Announced, hotVars, ScanBrings, WatchBrings

(* Files appear and change.                                                *)
LEMMA FilesKeepHot ==
  ASSUME HotTypes, Announced, NEW p \in SkillPath, FileAppears(p) \/ FileChanges(p)
  PROVE  HotTypes' /\ Announced'
<1>1. UNCHANGED hotVars
  BY DEF FileAppears, FileChanges
<1>2. /\ skDisk' = [present |-> skDisk'.present, mtime |-> skDisk'.mtime]
      /\ skDisk'.present \subseteq SkillPath
  BY DEF FileAppears, FileChanges, HotTypes
<1> QED
  BY <1>1, <1>2 DEF HotTypes, Announced, hotVars, ScanBrings, WatchBrings

(* Starting and stopping.                                                  *)
LEMMA StartKeepsHot ==
  ASSUME HotTypes, Announced, StartWatching \/ StopWatching
  PROVE  HotTypes' /\ Announced'
<1>1. CASE StartWatching
  <2>1. /\ HotShape(skHot') /\ skHot'.watching
        /\ UNCHANGED <<skDisk, skWatch>>
        /\ skSaid' = [n \in AllNames |-> 0]
    BY <1>1 DEF StartWatching, Recorded, HotTypes, HotShape
  <2>2. ScanShape(skScan') /\ skScan'.pc # "say"
    BY <1>1 DEF StartWatching, HotTypes, ScanShape
  <2>3. HotTypes'
    BY <2>1, <2>2 DEF HotTypes
  <2>4. skWatch.pc = "idle"
    BY <1>1 DEF StartWatching, Announced
  <2> QED
    BY <2>1, <2>2, <2>3, <2>4 DEF Announced, ScanBrings, WatchBrings
<1>2. CASE StopWatching
  <2>1. /\ HotShape(skHot') /\ skHot'.names = skHot.names
        /\ skWatch'.pc = "idle"
        /\ UNCHANGED <<skDisk, skScan, skWatch, skSaid>>
    BY <1>2 DEF StopWatching, HotTypes, HotShape
  <2> QED
    BY <2>1 DEF HotTypes, Announced, ScanBrings, WatchBrings
<1> QED
  BY <1>1, <1>2

(* The scan.                                                               *)
LEMMA ScanKeepsHot ==
  ASSUME HotTypes, Announced,
         ScanForNewSkills \/ ScanParsed \/ ScanMerge \/ ScanSays \/ \E p \in SkillPath : ScanFile(p)
  PROVE  HotTypes' /\ Announced'
<1>1. CASE ScanForNewSkills \/ ScanParsed \/ \E p \in SkillPath : ScanFile(p)
  <2>1. UNCHANGED <<skDisk, skWatch, skSaid>> /\ skScan.pc # "say" /\ skScan'.pc \in {"dirs", "parse"}
    BY <1>1 DEF ScanForNewSkills, ScanParsed, ScanFile, IdleScan, HotTypes, ScanShape
  <2>2. HotShape(skHot') /\ skHot'.names = skHot.names /\ skHot'.watching = skHot.watching
    BY <1>1 DEF ScanForNewSkills, ScanParsed, ScanFile, Recorded, HotTypes, HotShape
  <2>3. ScanShape(skScan')
    <3>1. CASE ScanForNewSkills
      BY <3>1 DEF ScanForNewSkills, IdleScan, ScanShape, SkillPath
    <3>2. CASE ScanParsed
      BY <3>2 DEF ScanParsed, HotTypes, ScanShape
    <3>3. CASE \E p \in SkillPath : ScanFile(p)
      BY <3>3 DEF ScanFile, HotTypes, ScanShape
    <3> QED
      BY <1>1, <3>1, <3>2, <3>3
  <2>4. HotTypes'
    BY <2>1, <2>2, <2>3 DEF HotTypes
  <2> QED
    BY <2>1, <2>2, <2>4 DEF Announced, ScanBrings, WatchBrings
<1>2. CASE ScanMerge
  <2>1. PICK added \in SUBSET {p \in skScan.found : NameOf(p) \notin skHot.names \cup skOff.running} :
           /\ \A p, q \in added : NameOf(p) = NameOf(q) => p = q
           /\ skHot' = [skHot EXCEPT !.names = @ \cup {NameOf(p) : p \in added}]
           /\ skScan' = [skScan EXCEPT !.pc = "say", !.found = added]
    BY <1>2 DEF ScanMerge
  <2>2. UNCHANGED <<skDisk, skWatch, skSaid>> /\ skScan.pc = "dirs"
    BY <1>2 DEF ScanMerge
  <2>3. /\ HotShape(skHot') /\ skHot'.names = skHot.names \cup {NameOf(p) : p \in added}
        /\ skHot'.watching = skHot.watching
    BY <2>1 DEF HotTypes, HotShape
  <2>4. ScanShape(skScan') /\ skScan'.pc = "say" /\ skScan'.found = added
    BY <2>1 DEF HotTypes, ScanShape
  <2>5. HotTypes'
    BY <2>2, <2>3, <2>4 DEF HotTypes
  <2>6. ASSUME NEW n \in AllNames
        PROVE  /\ ScanBrings(n)' => n \notin skHot.names /\ n \in skHot'.names
               /\ WatchBrings(n)' <=> WatchBrings(n)
    BY <2>1, <2>2, <2>3, <2>4 DEF ScanBrings, WatchBrings
  <2>8. \A n \in AllNames : skSaid'[n] = skSaid[n]
    BY <2>2
  <2>9. \A n \in AllNames :
          /\ ScanBrings(n)' \/ WatchBrings(n)' => n \in skHot'.names /\ skSaid'[n] = 0
          /\ ~ (ScanBrings(n)' /\ WatchBrings(n)')
          /\ n \notin skHot'.names => skSaid'[n] = 0
          /\ skSaid'[n] <= 1
    BY <2>3, <2>6, <2>8 DEF Announced
  <2> QED
    BY <2>1, <2>2, <2>3, <2>4, <2>5, <2>9 DEF Announced
<1>3. CASE ScanSays
  <2>1. UNCHANGED <<skDisk, skHot, skWatch>> /\ skScan' = IdleScan /\ skScan.pc \in {"say", "late"}
          /\ skSaid' \in [AllNames -> Nat]
    <3>1. \A n \in AllNames : skSaid'[n] \in Nat
      BY <1>3, ScanTells DEF HotTypes
    <3>2. skSaid' = [n \in AllNames |-> skSaid'[n]]
      <4>1. skSaid = [n \in AllNames |-> skSaid[n]]
        BY DEF HotTypes
      <4> QED
        BY <1>3, <4>1 DEF ScanSays
    <3>3. skSaid' \in [AllNames -> Nat]
      BY <3>1, <3>2
    <3> QED
      BY <1>3, <3>3 DEF ScanSays
  <2>2. HotTypes' /\ skScan'.pc = "idle"
    BY <2>1 DEF HotTypes, IdleScan, ScanShape
  <2>3. \A n \in AllNames : ~ ScanBrings(n)' /\ (WatchBrings(n)' <=> WatchBrings(n))
    BY <2>1, <2>2 DEF ScanBrings, WatchBrings
  <2>4. \A n \in AllNames : skSaid'[n] = IF ScanBrings(n) THEN skSaid[n] + 1 ELSE skSaid[n]
    BY <1>3, ScanTells
  <2>5. \A n \in AllNames :
          /\ WatchBrings(n)' => n \in skHot'.names /\ skSaid'[n] = 0
          /\ n \notin skHot'.names => skSaid'[n] = 0
          /\ skSaid'[n] <= 1
    BY <2>1, <2>3, <2>4 DEF Announced
  <2> QED
    BY <2>1, <2>2, <2>3, <2>5 DEF Announced
<1> QED
  BY <1>1, <1>2, <1>3

(* The watcher.                                                            *)
LEMMA WatchKeepsHot ==
  ASSUME HotTypes, Announced,
         \/ WatchPoll \/ WatchAdds \/ WatchKnows \/ WatchSays \/ WatchEnds
         \/ \E p \in SkillPath : WatchFile(p) \/ WatchKnownFile(p)
  PROVE  HotTypes' /\ Announced'
<1>1. CASE \/ WatchPoll \/ WatchAdds \/ WatchEnds
           \/ \E p \in SkillPath : WatchFile(p) \/ WatchKnownFile(p)
  <2>1. UNCHANGED <<skDisk, skScan, skSaid>> /\ skWatch.pc # "say"
        /\ (skWatch.pc = "idle" => skHot.watching)
    BY <1>1 DEF WatchPoll, WatchAdds, WatchEnds, WatchFile, WatchKnownFile
  <2>2. HotShape(skHot') /\ skHot'.names = skHot.names /\ skHot'.watching = skHot.watching
    BY <1>1 DEF WatchPoll, WatchAdds, WatchEnds, WatchFile, WatchKnownFile, HotTypes, HotShape
  <2>3. WatchShape(skWatch') /\ skWatch'.pc # "say"
    <3>1. WatchShape(skWatch) /\ skDisk.present \subseteq SkillPath
      BY DEF HotTypes
    <3>2. CASE WatchPoll \/ WatchEnds
      <4>1. \/ skWatch' = [pc |-> "dirs", todo |-> skDisk.present, file |-> "none", mtime |-> 0]
            \/ skWatch' = [pc |-> "idle", todo |-> {}, file |-> "none", mtime |-> 0]
        BY <3>2 DEF WatchPoll, WatchEnds, IdleWatch
      <4> QED
        BY <3>1, <4>1 DEF WatchShape
    <3>3. CASE WatchAdds
      <4>1. skWatch.pc = "add"
            /\ \/ skWatch' = [skWatch EXCEPT !.pc = "dirs", !.file = "none", !.mtime = 0]
               \/ skWatch' = [skWatch EXCEPT !.pc = "names"]
        BY <3>3 DEF WatchAdds
      <4> QED
        BY <3>1, <4>1 DEF WatchShape
    <3>4. ASSUME NEW p \in SkillPath, WatchFile(p) \/ WatchKnownFile(p)
          PROVE  WatchShape(skWatch') /\ skWatch'.pc # "say"
      BY <3>1, <3>4 DEF WatchFile, WatchKnownFile, WatchShape
    <3> QED
      BY <1>1, <3>2, <3>3, <3>4
  <2>4. HotTypes'
    BY <2>1, <2>2, <2>3 DEF HotTypes
  <2>5. \A n \in AllNames : ~ WatchBrings(n)' /\ (ScanBrings(n)' <=> ScanBrings(n))
    BY <2>1, <2>3 DEF ScanBrings, WatchBrings
  <2>6. skHot.watching \/ skWatch.pc # "idle"
    BY <2>1
  <2> QED
    BY <2>1, <2>2, <2>4, <2>5, <2>6 DEF Announced
<1>2. CASE WatchKnows
  <2> DEFINE n == NameOf(skWatch.file)
             new == n \notin skHot.names \cup skOff.running
  <2>1. UNCHANGED <<skDisk, skScan, skSaid>> /\ skWatch.pc = "names"
    BY <1>2 DEF WatchKnows
  <2>2. /\ HotShape(skHot') /\ skHot'.watching = skHot.watching
        /\ skHot'.names = IF new THEN skHot.names \cup {n} ELSE skHot.names
    BY <1>2 DEF WatchKnows, HotTypes, HotShape
  <2>3. WatchShape(skWatch') /\ (skWatch'.pc = "say" <=> new) /\ (new => skWatch'.file = skWatch.file)
    BY <1>2, <2>1 DEF WatchKnows, HotTypes, WatchShape
  <2>4. HotTypes'
    BY <2>1, <2>2, <2>3 DEF HotTypes
  <2>5. ASSUME NEW m \in AllNames
        PROVE  /\ ScanBrings(m)' <=> ScanBrings(m)
               /\ WatchBrings(m)' => m \notin skHot.names /\ m \in skHot'.names
    BY <2>1, <2>2, <2>3 DEF ScanBrings, WatchBrings
  <2>6. skHot.watching
    BY <2>1 DEF Announced
  <2>7. \A m \in AllNames :
          /\ ScanBrings(m)' \/ WatchBrings(m)' => m \in skHot'.names /\ skSaid'[m] = 0
          /\ ~ (ScanBrings(m)' /\ WatchBrings(m)')
          /\ m \notin skHot'.names => skSaid'[m] = 0
          /\ skSaid'[m] <= 1
    BY <2>1, <2>2, <2>5 DEF Announced
  <2> QED
    BY <2>1, <2>2, <2>4, <2>6, <2>7 DEF Announced
<1>3. CASE WatchSays
  <2> DEFINE n == NameOf(skWatch.file)
  <2>1. /\ UNCHANGED <<skDisk, skScan>> /\ skWatch.pc = "say" /\ skWatch.file \in SkillPath
        /\ skSaid' = [skSaid EXCEPT ![n] = @ + 1]
    BY <1>3 DEF WatchSays, HotTypes, WatchShape
  <2>2. HotShape(skHot') /\ skHot'.watching = skHot.watching /\ skHot'.names = skHot.names
    BY <1>3 DEF WatchSays, HotTypes, HotShape
  <2>3. WatchShape(skWatch') /\ skWatch'.pc = "dirs"
    BY <1>3 DEF WatchSays, HotTypes, WatchShape
  <2>4. n \in AllNames
    BY <2>1 DEF AllNames, SkillPath
  <2>5. HotTypes'
    BY <2>1, <2>2, <2>3, <2>4 DEF HotTypes
  <2>6. /\ skSaid'[n] = skSaid[n] + 1
        /\ \A m \in AllNames \ {n} : skSaid'[m] = skSaid[m]
    BY <2>1, <2>4 DEF HotTypes
  <2>7. \A m \in AllNames : ~ WatchBrings(m)' /\ (ScanBrings(m)' <=> ScanBrings(m))
    BY <2>1, <2>3 DEF ScanBrings, WatchBrings
  <2>8. WatchBrings(n)
    BY <2>1 DEF WatchBrings
  <2>9. \A m \in AllNames :
          /\ ScanBrings(m)' => m \in skHot'.names /\ skSaid'[m] = 0
          /\ m \notin skHot'.names => skSaid'[m] = 0
          /\ skSaid'[m] <= 1
    BY <2>2, <2>4, <2>6, <2>7, <2>8 DEF Announced
  <2>10. skHot.watching
    BY <2>1 DEF Announced
  <2> QED
    BY <2>1, <2>2, <2>5, <2>7, <2>9, <2>10 DEF Announced
<1> QED
  BY <1>1, <1>2, <1>3

(* Hot installation and the rest of the program.                           *)
LEMMA HotStep ==
  ASSUME HotTypes, Announced, HotNext \/ InstallNext
  PROVE  HotTypes' /\ Announced'
<1>1. CASE \/ LoaderAllMetaData \/ InstallNext
  <2>1. UNCHANGED hotVars /\ skDisk' = skDisk
    BY <1>1 DEF LoaderAllMetaData, InstallNext, InstallEnds, HandleSkillsUpdate, InstallStarts, InstallStep
  <2> QED
    BY <2>1, HotKept
<1>2. CASE HotNext /\ ~ LoaderAllMetaData
  BY <1>2, FilesKeepHot, StartKeepsHot, ScanKeepsHot, WatchKeepsHot DEF HotNext, SkillPath
<1> QED
  BY <1>1, <1>2

(* A set of natural numbers that is not empty has a least element.         *)
LEMMA Least ==
  ASSUME NEW T \in SUBSET Nat, T # {}
  PROVE  \E x \in T : \A y \in T : x <= y
<1> DEFINE R == OpToRel(<, Nat)
<1>1. IsWellFoundedOn(R, Nat)
  BY NatLessThanWellFounded
<1>2. \A x, y \in Nat : x < y => <<x, y>> \in R
  BY DEF OpToRel
<1> HIDE DEF R
<1>3. PICK x \in T : \A y \in T : ~ (<<y, x>> \in R)
  BY <1>1, WFMin
<1>4. ASSUME NEW y \in T PROVE x <= y
  <2>1. x \in Nat /\ y \in Nat /\ ~ (y < x)
    BY <1>2, <1>3
  <2> QED
    BY <2>1
<1> QED
  BY <1>4

(* The list holds files of the instance: the scan puts them there, an      *)
(* update removes some, the watcher adds the one it holds.                 *)
LEMMA ListKept ==
  ASSUME InstallInv, LoaderAllMetaData \/ WatchAdds \/ \E key, e : HandleSkillsUpdate(key, e)
  PROVE  /\ skList' = [complete |-> skList'.complete, list |-> skList'.list]
         /\ skList'.list \in Seq(SkillPath)
<1>1. CASE LoaderAllMetaData
  <2>1. PICK files \in SUBSET skDisk.present :
           \E list \in SetToSeqs(files) : skList' = [complete |-> TRUE, list |-> list]
    BY <1>1 DEF LoaderAllMetaData
  <2>2. PICK list \in SetToSeqs(files) : skList' = [complete |-> TRUE, list |-> list]
    BY <2>1
  <2>3. list \in [1 .. Cardinality(files) -> files]
    BY DEF SetToSeqs
  <2>4. IsFiniteSet(files)
    BY <2>1, SkillsAssumption, FS_Subset DEF InstallInv, SkillPath
  <2> QED
    BY <2>2, <2>3, <2>4, FS_CardinalityType DEF InstallInv
<1>2. CASE WatchAdds
  <2>1. skList' = [skList EXCEPT !.list = Added(@, skWatch.file)] /\ skWatch.pc = "add"
    BY <1>2 DEF WatchAdds
  <2>2. Added(skList.list, skWatch.file) \in Seq(SkillPath)
    BY <2>1 DEF Added, InstallInv
  <2> QED
    BY <2>1, <2>2 DEF InstallInv
<1>3. ASSUME NEW key, NEW e, HandleSkillsUpdate(key, e)
      PROVE  /\ skList' = [complete |-> skList'.complete, list |-> skList'.list]
             /\ skList'.list \in Seq(SkillPath)
  <2> DEFINE rest == {i \in DOMAIN skList.list : e \/ NameOf(skList.list[i]) # NameByKey(key)}
             n == Cardinality(rest)
  <2>1. PICK s \in [1 .. n -> rest] : skList' = [skList EXCEPT !.list = [i \in 1 .. n |-> skList.list[s[i]]]]
    BY <1>3 DEF HandleSkillsUpdate
  <2>2. skList.list \in Seq(SkillPath) /\ Len(skList.list) \in Nat /\ DOMAIN skList.list = 1 .. Len(skList.list)
         /\ \A i \in DOMAIN skList.list : skList.list[i] \in SkillPath
    BY DEF InstallInv
  <2>3. n \in Nat
    <3>1. IsFiniteSet(rest)
      <4>1. 1 \in Int /\ Len(skList.list) \in Int
        BY <2>2
      <4>2. IsFiniteSet(1 .. Len(skList.list))
        BY <4>1, FS_Interval
      <4> QED
        BY <2>2, <4>2, FS_Subset
    <3> QED
      BY <3>1, FS_CardinalityType
  <2>4. \A i \in 1 .. n : skList.list[s[i]] \in SkillPath
    BY <2>1, <2>2
  <2> HIDE DEF n, rest
  <2>5. [i \in 1 .. n |-> skList.list[s[i]]] \in Seq(SkillPath)
    BY <2>3, <2>4
  <2> QED
    BY <2>1, <2>5 DEF InstallInv
<1> QED
  BY <1>1, <1>2, <1>3

(* One instruction is passed: its binary is there, is put on the PATH or   *)
(* fetched, or the installation no longer counts as a success.             *)
LEMMA InstallPasses ==
  ASSUME InstallInv, NEW ret \in 0 .. 1, InstallStep(ret)
  PROVE  InstallShape(skInstall') /\ Passed' /\ InstallReport'
<1> DEFINE list == SkillFiles[skInstall.file].installs
           i == list[skInstall.next]
           skip == i.bin \in skBins \/ (i.valid /\ i.method \notin Methods)
           got == IF skip \/ ~ i.valid \/ ret # 0 THEN {} ELSE {i.bin}
           ok == skInstall.ok /\ (skip \/ (i.valid /\ ret = 0))
           fetched == IF i.method = "download" THEN skInstall.fetched \cup got ELSE skInstall.fetched
           There(j) == list[j].bin \in skBins \/ (list[j].method = "download" /\ list[j].bin \in skInstall.fetched)
<1>1. /\ skInstall' = [skInstall EXCEPT !.next = @ + 1, !.ok = ok, !.fetched = fetched]
      /\ skInstall.pc = "run"
      /\ skBins' = IF i.method = "download" THEN skBins ELSE skBins \cup got
  BY DEF InstallStep
<1>2. InstallShape(skInstall) /\ skInstall.next \in Nat /\ skInstall.ok \in BOOLEAN /\ skInstall.file \in SkillPath
  BY <1>1 DEF InstallInv, InstallShape
<1>3. skBins \subseteq skBins' /\ skInstall.fetched \subseteq fetched
  BY <1>1
<1>4. ok \in BOOLEAN
  BY <1>2
<1>5. ok /\ i.method \in Methods => i.bin \in skBins' \/ (i.method = "download" /\ i.bin \in fetched)
  BY <1>1
<1>6. ok => skInstall.ok
  BY <1>2
<1> HIDE DEF ok, fetched, got, skip
<1>7. skInstall' = [pc |-> "run", file |-> skInstall.file, next |-> skInstall.next + 1, ok |-> ok,
                    fetched |-> fetched]
  BY <1>1, <1>2 DEF InstallShape
<1>8. InstallShape(skInstall') /\ skInstall'.pc = "run"
  <2>1. skInstall.next + 1 \in Nat
    BY <1>2
  <2> QED
    BY <1>2, <1>4, <1>7, <2>1 DEF InstallShape
<1>9. DOMAIN list \subseteq Nat
  BY <1>2, SkillsAssumption DEF SkillPath
<1>10. Passed'
  <2>1. SUFFICES ASSUME ok, NEW j \in DOMAIN list, j < skInstall.next + 1, list[j].method \in Methods
                 PROVE  list[j].bin \in skBins' \/ (list[j].method = "download" /\ list[j].bin \in fetched)
    BY <1>7 DEF Passed
  <2>2. CASE j = skInstall.next
    BY <1>5, <2>1, <2>2
  <2>3. CASE j < skInstall.next
    <3>1. There(j)
      BY <1>1, <1>6, <2>1, <2>3 DEF InstallInv, Passed
    <3> QED
      BY <1>3, <3>1
  <2>4. j < skInstall.next \/ j = skInstall.next
    BY <1>2, <1>9, <2>1
  <2> QED
    BY <2>2, <2>3, <2>4
<1> QED
  BY <1>8, <1>10 DEF InstallReport

(* Installations.                                                          *)
LEMMA InstallKept ==
  ASSUME HotTypes', InstallInv, HotNext \/ InstallNext
  PROVE  InstallInv'
<1>1. /\ skDisk' = [present |-> skDisk'.present, mtime |-> skDisk'.mtime]
      /\ skDisk'.present \subseteq SkillPath
      /\ skWatch'.pc = "add" => skWatch'.file \in SkillPath
  BY DEF HotTypes, WatchShape
<1>2. CASE UNCHANGED <<skInstall, skBins>>
  <2>1. InstallShape(skInstall') /\ Passed' /\ InstallReport'
    BY <1>2 DEF InstallInv, InstallShape, Passed, InstallReport
  <2>2. CASE UNCHANGED skList
    BY <1>1, <2>1, <2>2 DEF InstallInv
  <2>3. CASE LoaderAllMetaData \/ WatchAdds \/ \E key, e : HandleSkillsUpdate(key, e)
    BY <1>1, <2>1, <2>3, ListKept DEF InstallInv
  <2>4. \/ UNCHANGED skList
        \/ LoaderAllMetaData \/ WatchAdds \/ \E key, e : HandleSkillsUpdate(key, e)
    BY <1>2 DEF HotNext, InstallNext, StartWatching, StopWatching, ScanForNewSkills, ScanParsed, ScanMerge, ScanSays,
       WatchPoll, WatchKnows, WatchSays, WatchEnds, FileAppears, FileChanges, ScanFile, WatchFile, WatchKnownFile,
       InstallEnds, InstallStarts, InstallStep
  <2> QED
    BY <2>2, <2>3, <2>4
<1>3. ASSUME NEW n \in AllNames, InstallStarts(n)
      PROVE  InstallInv'
  <2> DEFINE hits == {i \in DOMAIN skList.list : NameOf(skList.list[i]) = n}
             k == CHOOSE i \in hits : \A j \in hits : i <= j
  <2>1. /\ skInstall' = [file |-> skList.list[k], next |-> 1, ok |-> CheckSkillGating(skList.list[k]),
                         fetched |-> {}, pc |-> IF CheckSkillGating(skList.list[k]) THEN "run" ELSE "done"]
        /\ hits # {} /\ UNCHANGED <<skDisk, skList, skWatch, skBins>>
    BY <1>3 DEF InstallStarts, hotVars
  <2>2. skList.list[k] \in SkillPath
    <3>1. hits \subseteq Nat /\ \A i \in hits : skList.list[i] \in SkillPath
      BY DEF InstallInv
    <3>2. k \in hits
      <4>1. \E i \in hits : \A j \in hits : i <= j
        BY <2>1, <3>1, Least
      <4> QED
        BY <4>1
    <3> QED
      BY <3>1, <3>2
  <2> HIDE DEF k, hits
  <2> DEFINE p == skList.list[k]
  <2>3. CheckSkillGating(p) \in BOOLEAN
    BY DEF CheckSkillGating
  <2>4. InstallShape(skInstall')
    BY <2>1, <2>2, <2>3 DEF InstallShape
  <2>5. DOMAIN SkillFiles[p].installs \subseteq Nat \ {0}
    BY <2>2, SkillsAssumption DEF SkillPath
  <2>6. Passed'
    BY <2>1, <2>5 DEF Passed
  <2>7. InstallReport'
    BY <2>1 DEF InstallReport
  <2> QED
    BY <1>1, <2>1, <2>4, <2>6, <2>7 DEF InstallInv
<1>4. ASSUME NEW ret \in 0 .. 1, InstallStep(ret)
      PROVE  InstallInv'
  <2>1. UNCHANGED skList
    BY <1>4 DEF InstallStep
  <2> QED
    BY <1>1, <1>4, <2>1, InstallPasses DEF InstallInv
<1>5. CASE InstallEnds
  <2> DEFINE list == SkillFiles[skInstall.file].installs
  <2>1. /\ skInstall' = [skInstall EXCEPT !.pc = "done"] /\ skInstall.pc = "run" /\ skInstall.next > Len(list)
        /\ UNCHANGED <<skList, skBins>>
    BY <1>5 DEF InstallEnds
  <2>2. InstallShape(skInstall) /\ Passed
    BY DEF InstallInv
  <2>3. InstallShape(skInstall') /\ skInstall'.pc = "done" /\ skInstall'.ok = skInstall.ok
        /\ skInstall'.file = skInstall.file /\ skInstall'.fetched = skInstall.fetched
    BY <2>1, <2>2 DEF InstallShape
  <2>4. \A i \in DOMAIN list : i \in Nat /\ i < skInstall.next
    <3>1. list \in Seq(Range(list))
      BY <2>1, <2>2, SkillsAssumption DEF InstallShape, SkillPath
    <3>2. DOMAIN list = 1 .. Len(list) /\ Len(list) \in Nat /\ skInstall.next \in Nat
      BY <2>2, <3>1 DEF InstallShape
    <3> QED
      BY <2>1, <3>2
  <2>5. InstallReport'
    BY <2>1, <2>2, <2>3, <2>4 DEF Passed, InstallReport, Range
  <2>6. Passed'
    BY <2>3 DEF Passed
  <2> QED
    BY <1>1, <2>1, <2>3, <2>5, <2>6 DEF InstallInv
<1>6. \/ UNCHANGED <<skInstall, skBins>> \/ InstallEnds
      \/ \E n \in AllNames : InstallStarts(n)
      \/ \E ret \in 0 .. 1 : InstallStep(ret)
  BY DEF HotNext, InstallNext, LoaderAllMetaData, StartWatching, StopWatching, ScanForNewSkills, ScanParsed, ScanMerge,
     ScanSays, WatchPoll, WatchAdds, WatchKnows, WatchSays, WatchEnds, FileAppears, FileChanges, ScanFile, WatchFile,
     WatchKnownFile, HandleSkillsUpdate
<1> QED
  BY <1>2, <1>3, <1>4, <1>5, <1>6

(* Nobody is told of a skill twice between two baselines, whatever scan    *)
(* and watcher find at the same time, and an installation that reports     *)
(* success has passed every instruction of a method it knows: its binary   *)
(* is on the PATH or, downloaded, in a directory that is not               *)
(* (skill_hot_install.cpp, ScanForNewSkills and StartWatching;             *)
(* skill_install_deps.cpp, InstallSkillDependence).                        *)
THEOREM SkillsAlwaysSound == SkillsSpec => []SkillsSound
<1>1. (\E present \in SUBSET DOMAIN SkillFiles, bins \in SUBSET Binaries : SkillsInit(present, bins)) => SkillsInv
  <2>1. SUFFICES ASSUME NEW present \in SUBSET DOMAIN SkillFiles, NEW bins, SkillsInit(present, bins)
                 PROVE  SkillsInv
    OBVIOUS
  <2>2. HotTypes
    BY <2>1 DEF SkillsInit, HotTypes, HotShape, ScanShape, WatchShape, IdleScan, IdleWatch, SkillPath
  <2>3. Announced
    BY <2>1 DEF SkillsInit, Announced, ScanBrings, WatchBrings, IdleScan, IdleWatch
  <2>4. InstallInv
    BY <2>1 DEF SkillsInit, InstallInv, InstallShape, Passed, InstallReport, NoInstall, IdleWatch, SkillPath
  <2> QED
    BY <2>2, <2>3, <2>4 DEF SkillsInv
<1>2. SkillsInv /\ [HotNext \/ InstallNext]_skillVars => SkillsInv'
  <2>1. SUFFICES ASSUME SkillsInv, [HotNext \/ InstallNext]_skillVars
                 PROVE  SkillsInv'
    OBVIOUS
  <2>2. CASE HotNext \/ InstallNext
    BY <2>1, <2>2, HotStep, InstallKept DEF SkillsInv
  <2>3. CASE UNCHANGED skillVars
    BY <2>1, <2>3, HotKept DEF SkillsInv, skillVars, hotVars, InstallInv, InstallShape, Passed, InstallReport
  <2> QED
    BY <2>1, <2>2, <2>3
<1>3. SkillsInv => SkillsSound
  BY ToldOnce DEF SkillsInv, InstallInv, SkillsSound
<1> QED
  BY <1>1, <1>2, <1>3, PTL DEF SkillsSpec

-----------------------------------------------------------------------------
(***************************************************************************)
(* Toolbox.                                                                *)
(***************************************************************************)
(* A tool registry on its own.                                             *)
ToolboxSpec == ToolboxInit /\ [][ToolboxNext]_toolboxVars

(* A set that holds 0 and every successor of its elements is all of Nat.   *)
LEMMA Induction ==
  ASSUME NEW S \in SUBSET Nat, 0 \in S, \A n \in S : n + 1 \in S
  PROVE  S = Nat
<1>1. SUFFICES ASSUME Nat \ S # {} PROVE FALSE
  OBVIOUS
<1>2. PICK x \in Nat \ S : \A y \in Nat \ S : x <= y
  BY <1>1, Least
<1>3. x - 1 \in Nat /\ x - 1 \in S
  BY <1>2
<1> QED
  BY <1>2, <1>3

(* f is defined by recursion over 0 .. n, with the steps of G.              *)
IsRun(f, X, b, G, n) ==
  f \in [0 .. n -> X] /\ f[0] = b /\ \A i \in 1 .. n : f[i] = G[i][f[i - 1]]

(* A function defined by recursion exists.                                 *)
LEMMA Recursion ==
  ASSUME NEW X, NEW b \in X, NEW G \in [Nat -> [X -> X]], NEW n \in Nat
  PROVE  \E f : IsRun(f, X, b, G, n)
<1> DEFINE Upto(f, k) == f[0] = b /\ \A i \in 1 .. k : f[i] = G[i][f[i - 1]]
           S == {k \in Nat : \E f \in [0 .. k -> X] : Upto(f, k)}
<1>1. 0 \in S
  <2>1. [i \in 0 .. 0 |-> b] \in [0 .. 0 -> X] /\ Upto([i \in 0 .. 0 |-> b], 0)
    OBVIOUS
  <2> QED
    BY <2>1
<1>2. ASSUME NEW k \in S PROVE k + 1 \in S
  <2>1. PICK f \in [0 .. k -> X] : Upto(f, k)
    OBVIOUS
  <2> DEFINE v == [i \in 0 .. k + 1 |-> IF i = k + 1 THEN G[k + 1][f[k]] ELSE f[i]]
  <2>2. G[k + 1][f[k]] \in X
    OBVIOUS
  <2>3. v \in [0 .. k + 1 -> X]
    BY <2>2
  <2>4. v[0] = b
    BY <2>1
  <2>5. ASSUME NEW i \in 1 .. k + 1 PROVE v[i] = G[i][v[i - 1]]
    <3>1. CASE i = k + 1
      <4>1. v[i - 1] = f[k]
        BY <3>1
      <4> QED
        BY <3>1, <4>1
    <3>2. CASE i \in 1 .. k
      <4>1. v[i - 1] = f[i - 1] /\ v[i] = f[i]
        BY <3>2
      <4> QED
        BY <2>1, <3>2, <4>1
    <3> QED
      BY <3>1, <3>2
  <2> HIDE DEF v
  <2>6. Upto(v, k + 1)
    BY <2>4, <2>5
  <2> HIDE DEF Upto
  <2>7. \E w \in [0 .. k + 1 -> X] : Upto(w, k + 1)
    BY <2>3, <2>6
  <2>8. k + 1 \in Nat
    OBVIOUS
  <2> QED
    BY <2>7, <2>8
<1> HIDE DEF S
<1>3. S = Nat
  <2>1. S \in SUBSET Nat
    BY DEF S
  <2> QED
    BY <1>1, <1>2, <2>1, Induction
<1> QED
  BY <1>3 DEF S, IsRun

(* Every element once.                                                    *)
NoDup(s) == \A i, j \in DOMAIN s : s[i] = s[j] => i = j

(* A sequence is a vector, and a vector over every set that holds its elements. *)
LEMMA VectorIs ==
  ASSUME NEW T, NEW s \in Seq(T)
  PROVE  IsVector(s) /\ Range(s) \subseteq T
         /\ Len(s) \in Nat /\ DOMAIN s = 1 .. Len(s)
<1>1. Len(s) \in Nat /\ DOMAIN s = 1 .. Len(s) /\ s \in [1 .. Len(s) -> T]
  OBVIOUS
<1>2. Range(s) \subseteq T
  BY <1>1 DEF Range
<1>3. s \in [1 .. Len(s) -> Range(s)]
  BY <1>1 DEF Range
<1>4. s \in Seq(Range(s))
  BY <1>1, <1>3
<1> QED
  BY <1>1, <1>2, <1>4 DEF IsVector

(* A vector is a sequence over every set that holds its elements.          *)
LEMMA VectorOver ==
  ASSUME NEW s, IsVector(s), NEW T, Range(s) \subseteq T
  PROVE  s \in Seq(T)
<1> DEFINE R == Range(s)
<1>1. s \in Seq(R) /\ R \subseteq T
  BY DEF IsVector
<1> HIDE DEF R
<1> QED
  BY <1>1

(* A vector with one element more.                                         *)
LEMMA Appended ==
  ASSUME NEW T, NEW s \in Seq(T), NEW e
  PROVE  /\ \A U : T \subseteq U /\ e \in U => Append(s, e) \in Seq(U)
         /\ Len(Append(s, e)) = Len(s) + 1
         /\ DOMAIN Append(s, e) = 1 .. Len(s) + 1
         /\ \A i \in 1 .. Len(s) : Append(s, e)[i] = s[i]
         /\ Append(s, e)[Len(s) + 1] = e
         /\ Range(Append(s, e)) = Range(s) \cup {e}
         /\ NoDup(s) /\ e \notin Range(s) => NoDup(Append(s, e))
<1> DEFINE W == T \cup {e}
           a == Append(s, e)
           n == Len(s)
<1>1. s \in Seq(W) /\ e \in W /\ n \in Nat /\ DOMAIN s = 1 .. n
  OBVIOUS
<1> HIDE DEF W
<1>2. /\ a \in Seq(W) /\ Len(a) = n + 1 /\ DOMAIN a = 1 .. n + 1 /\ a[n + 1] = e
      /\ \A i \in 1 .. n : a[i] = s[i]
  BY <1>1, AppendProperties
<1>3. ASSUME NEW U, T \subseteq U, e \in U PROVE a \in Seq(U)
  BY <1>3, AppendProperties
<1> HIDE DEF a, n
<1>4. Range(a) = Range(s) \cup {e}
  BY <1>1, <1>2 DEF Range
<1>5. ASSUME NoDup(s), e \notin Range(s) PROVE NoDup(a)
  <2>1. \A i \in 1 .. n : s[i] # e
    BY <1>1, <1>5 DEF Range
  <2>2. \A i \in 1 .. n + 1 : i \in 1 .. n \/ i = n + 1
    BY <1>1
  <2> QED
    BY <1>1, <1>2, <1>5, <2>1, <2>2 DEF NoDup
<1> QED
  BY <1>2, <1>3, <1>4, <1>5 DEF a, n

(* What erase(remove_if) leaves of a vector.                               *)
LEMMA FilteredIs ==
  ASSUME NEW s, IsVector(s), NEW keep
  PROVE  /\ IsVector(Filtered(s, keep))
         /\ Range(Filtered(s, keep)) = Range(s) \cap keep
         /\ NoDup(s) => NoDup(Filtered(s, keep))
<1> DEFINE T == Range(s)
           n == Len(s)
           Eq(f) == f = [i \in 0 .. n |->
                      IF i = 0 THEN <<>>
                      ELSE IF s[i] \in keep THEN Append(f[i - 1], s[i]) ELSE f[i - 1]]
           G == [i \in Nat |-> [q \in Seq(T) |->
                   IF i \in 1 .. n /\ s[i] \in keep THEN Append(q, s[i]) ELSE q]]
<1>1. s \in Seq(T) /\ n \in Nat /\ DOMAIN s = 1 .. n /\ \A i \in 1 .. n : s[i] \in T
  BY DEF IsVector
<1> HIDE DEF T, n
<1>2. G \in [Nat -> [Seq(T) -> Seq(T)]]
  <2>1. ASSUME NEW i \in Nat, NEW q \in Seq(T)
        PROVE  (IF i \in 1 .. n /\ s[i] \in keep THEN Append(q, s[i]) ELSE q) \in Seq(T)
    BY <1>1
  <2> QED
    BY <2>1
<1>3. PICK v : Eq(v) /\ v = CHOOSE f : Eq(f)
  <2>1. PICK f \in [0 .. n -> Seq(T)] : f[0] = <<>> /\ \A i \in 1 .. n : f[i] = G[i][f[i - 1]]
    <3> DEFINE X == Seq(T)
    <3>1. <<>> \in X /\ G \in [Nat -> [X -> X]]
      BY <1>2
    <3> HIDE DEF G, X
    <3>2. PICK U, b, H, m : U = X /\ b = <<>> /\ H = G /\ m = n
      OBVIOUS
    <3>3. b \in U /\ H \in [Nat -> [U -> U]] /\ m \in Nat
      BY <1>1, <3>1, <3>2
    <3>4. \E f : IsRun(f, U, b, H, m)
      BY <3>3, Recursion
    <3> QED
      BY <3>2, <3>4 DEF X, IsRun
  <2>2. ASSUME NEW i \in 0 .. n
        PROVE  f[i] = IF i = 0 THEN <<>>
                      ELSE IF s[i] \in keep THEN Append(f[i - 1], s[i]) ELSE f[i - 1]
    <3>1. CASE i = 0
      BY <2>1, <3>1
    <3>2. CASE i \in 1 .. n
      <4>1. i \in Nat /\ i # 0 /\ i - 1 \in 0 .. n
        BY <1>1, <3>2
      <4>2. f[i - 1] \in Seq(T)
        BY <2>1, <4>1
      <4>3. f[i] = G[i][f[i - 1]]
        <5> HIDE DEF G
        <5> QED
          BY <2>1, <3>2
      <4> QED
        BY <3>2, <4>1, <4>2, <4>3
    <3> QED
      BY <1>1, <3>1, <3>2
  <2>3. Eq(f)
    BY <2>2
  <2> QED
    BY <2>3
<1>4. Filtered(s, keep) = v[n]
  BY <1>3 DEF Filtered, n
<1>5. v[0] = <<>> /\ \A i \in 1 .. n : v[i] = IF s[i] \in keep THEN Append(v[i - 1], s[i]) ELSE v[i - 1]
  <2> DEFINE H(i) == IF i = 0 THEN <<>>
                     ELSE IF s[i] \in keep THEN Append(v[i - 1], s[i]) ELSE v[i - 1]
  <2>1. v = [i \in 0 .. n |-> H(i)]
    BY <1>3
  <2>2. \A i \in 0 .. n : v[i] = H(i)
    <3> HIDE DEF H
    <3> QED
      BY <2>1
  <2> QED
    BY <1>1, <2>2
<1> DEFINE P(i) == /\ v[i] \in Seq(T)
                   /\ Range(v[i]) = {s[j] : j \in 1 .. i} \cap keep
                   /\ NoDup(s) => NoDup(v[i])
           S == {i \in Nat : i <= n => P(i)}
<1>6. 0 \in S
  <2>1. <<>> \in Seq(T) /\ Range(<<>>) = {} /\ NoDup(<<>>)
    BY DEF Range, NoDup
  <2>2. v[0] = <<>> /\ {s[j] : j \in 1 .. 0} = {}
    BY <1>5
  <2>3. P(0)
    BY <2>1, <2>2
  <2> QED
    BY <2>3
<1>7. ASSUME NEW i \in S PROVE i + 1 \in S
  <2> SUFFICES ASSUME i + 1 <= n PROVE P(i + 1)
    OBVIOUS
  <2>1. /\ i \in Nat /\ i + 1 \in 1 .. n /\ (i + 1) - 1 = i /\ i <= n
        /\ v[i] \in Seq(T) /\ Range(v[i]) = {s[j] : j \in 1 .. i} \cap keep
        /\ NoDup(s) => NoDup(v[i])
        /\ s[i + 1] \in T
    BY <1>1
  <2>2. {s[j] : j \in 1 .. i + 1} = {s[j] : j \in 1 .. i} \cup {s[i + 1]}
    <3>1. 1 .. i + 1 = (1 .. i) \cup {i + 1}
      BY <2>1
    <3> QED
      BY <3>1
  <2>3. NoDup(s) => s[i + 1] \notin {s[j] : j \in 1 .. i}
    <3>1. \A j \in 1 .. i : j \in DOMAIN s /\ i + 1 \in DOMAIN s /\ j # i + 1
      BY <1>1, <2>1
    <3> QED
      BY <3>1 DEF NoDup
  <2>4. CASE s[i + 1] \in keep
    <3>1. v[i + 1] = Append(v[i], s[i + 1])
      BY <1>5, <2>1, <2>4
    <3>2. PICK q : q = v[i]
      OBVIOUS
    <3>3. /\ Append(q, s[i + 1]) \in Seq(T)
          /\ Range(Append(q, s[i + 1])) = Range(q) \cup {s[i + 1]}
          /\ NoDup(q) /\ s[i + 1] \notin Range(q) => NoDup(Append(q, s[i + 1]))
      BY <2>1, <3>2, Appended
    <3> QED
      BY <2>1, <2>2, <2>3, <2>4, <3>1, <3>2, <3>3
  <2>5. CASE s[i + 1] \notin keep
    <3>1. v[i + 1] = v[i]
      BY <1>5, <2>1, <2>5
    <3> QED
      BY <2>1, <2>2, <2>5, <3>1
  <2> QED
    BY <2>4, <2>5
<1> HIDE DEF S
<1>8. S = Nat
  <2>1. S \in SUBSET Nat
    BY DEF S
  <2> QED
    BY <1>6, <1>7, <2>1, Induction
<1>9. P(n)
  <2> HIDE DEF P
  <2> QED
    BY <1>1, <1>8 DEF S
<1>10. {s[j] : j \in 1 .. n} = Range(s)
  BY <1>1 DEF Range
<1> QED
  BY <1>4, <1>9, <1>10, VectorIs

(* A registration: the name is there once, and the others stay.            *)
LEMMA RegisteredIs ==
  ASSUME NEW s, IsVector(s), NEW name
  PROVE  /\ IsVector(Registered(s, name))
         /\ Range(Registered(s, name)) = Range(s) \cup {name}
         /\ NoDup(s) => NoDup(Registered(s, name))
<1>1. PICK q : q = Filtered(s, Range(s) \ {name})
  OBVIOUS
<1>2. /\ IsVector(q) /\ Range(q) = Range(s) \ {name}
      /\ NoDup(s) => NoDup(q)
  <2>1. Range(s) \cap (Range(s) \ {name}) = Range(s) \ {name}
    OBVIOUS
  <2> QED
    BY <1>1, <2>1, FilteredIs
<1>3. PICK T : q \in Seq(T)
  BY <1>2 DEF IsVector
<1>4. /\ Append(q, name) \in Seq(T \cup {name})
      /\ Range(Append(q, name)) = Range(q) \cup {name}
      /\ NoDup(q) /\ name \notin Range(q) => NoDup(Append(q, name))
  BY <1>3, Appended
<1>5. IsVector(Append(q, name))
  BY <1>4, VectorIs
<1>6. Registered(s, name) = Append(q, name)
  BY <1>1 DEF Registered
<1> QED
  BY <1>2, <1>4, <1>5, <1>6

(* ... and many of them, one after the other.                              *)
LEMMA RegisteredAllIs ==
  ASSUME NEW s, IsVector(s), NoDup(s), NEW names, Len(names) \in Nat
  PROVE  /\ IsVector(RegisteredAll(s, names)) /\ NoDup(RegisteredAll(s, names))
         /\ Range(RegisteredAll(s, names)) = Range(s) \cup {names[i] : i \in 1 .. Len(names)}
<1> DEFINE n == Len(names)
           T == Range(s) \cup {names[i] : i \in 1 .. n}
           Eq(f) == f = [i \in 0 .. n |-> IF i = 0 THEN s ELSE Registered(f[i - 1], names[i])]
           G == [i \in Nat |-> [q \in Seq(T) |-> IF i \in 1 .. n THEN Registered(q, names[i]) ELSE q]]
<1>1. n \in Nat /\ s \in Seq(T) /\ \A i \in 1 .. n : names[i] \in T
  <2>1. Range(s) \subseteq T /\ \A i \in 1 .. n : names[i] \in T
    OBVIOUS
  <2> HIDE DEF T
  <2> QED
    BY <2>1, VectorOver
<1> HIDE DEF T, n
<1>2. ASSUME NEW i \in 1 .. n, NEW q \in Seq(T)
      PROVE  Registered(q, names[i]) \in Seq(T)
  <2>1. IsVector(q) /\ Range(q) \subseteq T
    BY VectorIs
  <2>2. PICK r : r = Registered(q, names[i])
    OBVIOUS
  <2>3. IsVector(r) /\ Range(r) = Range(q) \cup {names[i]}
    BY <2>1, <2>2, RegisteredIs
  <2>4. Range(r) \subseteq T
    BY <1>1, <2>1, <2>3
  <2> QED
    BY <2>2, <2>3, <2>4, VectorOver
<1>3. G \in [Nat -> [Seq(T) -> Seq(T)]]
  BY <1>2
<1>4. PICK v : Eq(v) /\ v = CHOOSE f : Eq(f)
  <2>1. PICK f \in [0 .. n -> Seq(T)] : f[0] = s /\ \A i \in 1 .. n : f[i] = G[i][f[i - 1]]
    <3> DEFINE X == Seq(T)
    <3>1. s \in X /\ G \in [Nat -> [X -> X]]
      BY <1>1, <1>3
    <3> HIDE DEF G, X
    <3>2. PICK U, b, H, m : U = X /\ b = s /\ H = G /\ m = n
      OBVIOUS
    <3>3. b \in U /\ H \in [Nat -> [U -> U]] /\ m \in Nat
      BY <1>1, <3>1, <3>2
    <3>4. \E f : IsRun(f, U, b, H, m)
      BY <3>3, Recursion
    <3> QED
      BY <3>2, <3>4 DEF X, IsRun
  <2>2. ASSUME NEW i \in 0 .. n
        PROVE  f[i] = IF i = 0 THEN s ELSE Registered(f[i - 1], names[i])
    <3>1. CASE i = 0
      BY <2>1, <3>1
    <3>2. CASE i \in 1 .. n
      <4>1. i \in Nat /\ i # 0 /\ i - 1 \in 0 .. n
        BY <1>1, <3>2
      <4>2. f[i - 1] \in Seq(T)
        BY <2>1, <4>1
      <4>3. f[i] = G[i][f[i - 1]]
        <5> HIDE DEF G
        <5> QED
          BY <2>1, <3>2
      <4> QED
        BY <3>2, <4>1, <4>2, <4>3
    <3> QED
      BY <1>1, <3>1, <3>2
  <2>3. Eq(f)
    BY <2>2
  <2> QED
    BY <2>3
<1>5. RegisteredAll(s, names) = v[n]
  BY <1>4 DEF RegisteredAll, n
<1>6. v[0] = s /\ \A i \in 1 .. n : v[i] = Registered(v[i - 1], names[i])
  BY <1>1, <1>4
<1> DEFINE P(i) == /\ IsVector(v[i]) /\ NoDup(v[i])
                   /\ Range(v[i]) = Range(s) \cup {names[j] : j \in 1 .. i}
           S == {i \in Nat : i <= n => P(i)}
<1>7. 0 \in S
  BY <1>6
<1>8. ASSUME NEW i \in S PROVE i + 1 \in S
  <2> SUFFICES ASSUME i + 1 <= n PROVE P(i + 1)
    OBVIOUS
  <2>1. i \in Nat /\ i + 1 \in 1 .. n /\ (i + 1) - 1 = i /\ i <= n /\ P(i)
    BY <1>1
  <2>2. PICK q : q = v[i]
    OBVIOUS
  <2>3. v[i + 1] = Registered(q, names[i + 1])
    BY <1>6, <2>1, <2>2
  <2>4. /\ IsVector(Registered(q, names[i + 1])) /\ NoDup(Registered(q, names[i + 1]))
        /\ Range(Registered(q, names[i + 1])) = Range(q) \cup {names[i + 1]}
    BY <2>1, <2>2, RegisteredIs
  <2>5. {names[j] : j \in 1 .. i + 1} = {names[j] : j \in 1 .. i} \cup {names[i + 1]}
    <3>1. 1 .. i + 1 = (1 .. i) \cup {i + 1}
      BY <2>1
    <3> QED
      BY <3>1
  <2> QED
    BY <2>1, <2>2, <2>3, <2>4, <2>5
<1> HIDE DEF S
<1>9. S = Nat
  <2>1. S \in SUBSET Nat
    BY DEF S
  <2> QED
    BY <1>7, <1>8, <2>1, Induction
<1>10. P(n)
  BY <1>1, <1>9 DEF S
<1> QED
  BY <1>5, <1>10 DEF n
-----------------------------------------------------------------------------
(* What the model is offered *)

(* The tools, their schemas and the servers of MCP tools go together.      *)
OfferedOk ==
  /\ IsVector(schemas) /\ NoDup(schemas) /\ Range(schemas) = tools
  /\ external \subseteq DOMAIN mcpTool /\ IsFiniteSet(DOMAIN mcpTool)
  /\ \A n \in DOMAIN mcpTool : mcpTool[n].server \in mcpClients

(* The tools found in an order of servers: finitely many new names, each    *)
(* with a server of the order, and the old ones as they were.               *)
LEMMA DiscoveredIs ==
  ASSUME NEW T, T \subseteq DOMAIN McpServers, NEW order \in SetToSeqs(T),
         IsFiniteSet(DOMAIN mcpTool)
  PROVE  /\ DOMAIN mcpTool \subseteq DOMAIN Discovered(order)
         /\ IsFiniteSet(DOMAIN Discovered(order))
         /\ \A n \in DOMAIN Discovered(order) :
              \/ \E i \in DOMAIN order : Discovered(order)[n].server = order[i]
              \/ n \in DOMAIN mcpTool /\ Discovered(order)[n] = mcpTool[n]
<1> DEFINE at == UNION {{<<i, j>> : j \in DOMAIN McpServers[order[i]]} : i \in DOMAIN order}
           found(p) == [server |-> order[p[1]], tool |-> McpServers[order[p[1]]][p[2]]]
           name(p) == MakeQualifiedName(found(p).server, found(p).tool)
           named(n) == {p \in at : name(p) = n}
           Later(p, q) == p[1] < q[1] \/ (p[1] = q[1] /\ p[2] < q[2])
           names == {name(p) : p \in at}
           last(n) == CHOOSE p \in named(n) : \A q \in named(n) : ~ Later(p, q)
<1>1. IsFiniteSet(T) /\ Cardinality(T) \in Nat
  BY ToolboxAssumption, FS_Subset, FS_CardinalityType
<1>2. /\ DOMAIN order = 1 .. Cardinality(T)
      /\ \A i \in DOMAIN order : order[i] \in T
  BY DEF SetToSeqs
<1>3. \A s \in DOMAIN McpServers : Len(McpServers[s]) \in Nat /\ DOMAIN McpServers[s] = 1 .. Len(McpServers[s])
  BY ToolboxAssumption DEF IsVector
<1>4. Discovered(order) = [n \in names \cup DOMAIN mcpTool |->
                             IF n \in names THEN found(last(n)) ELSE mcpTool[n]]
  BY DEF Discovered
<1>5. \A p \in at : p[1] \in DOMAIN order /\ p[1] \in Nat /\ p[2] \in Nat
                    /\ p[2] <= Len(McpServers[order[p[1]]])
  BY <1>1, <1>2, <1>3
<1>6. ASSUME NEW n \in names PROVE last(n) \in at
  <2> DEFINE N == named(n)
  <2>1. N # {} /\ N \subseteq at
    OBVIOUS
  <2> HIDE DEF N
  <2>2. PICK p \in N : \A q \in N : ~ Later(p, q)
    <3> DEFINE I == {Cardinality(T) - p[1] : p \in N}
    <3>1. I \in SUBSET Nat /\ I # {}
      BY <1>1, <1>2, <1>5, <2>1
    <3>2. PICK a \in I : \A b \in I : a <= b
      BY <3>1, Least
    <3>3. PICK x \in N : a = Cardinality(T) - x[1]
      BY <3>2
    <3>4. \A q \in N : q[1] <= x[1]
      <4> TAKE q \in N
      <4>1. Cardinality(T) - q[1] \in I /\ q[1] \in Nat /\ x[1] \in Nat
        BY <1>5, <2>1
      <4>2. Cardinality(T) - x[1] <= Cardinality(T) - q[1]
        BY <3>2, <3>3, <4>1
      <4> QED
        BY <1>1, <4>1, <4>2
    <3> HIDE DEF I
    <3> DEFINE m == Len(McpServers[order[x[1]]])
               M == {q \in N : q[1] = x[1]}
               J == {m - q[2] : q \in M}
    <3>5. m \in Nat /\ \A q \in M : q[2] \in Nat /\ q[2] <= m /\ q[1] = x[1]
      BY <1>2, <1>3, <1>5, <2>1
    <3>6. x \in M
      OBVIOUS
    <3> HIDE DEF m, M
    <3>7. J \in SUBSET Nat /\ J # {}
      BY <3>5, <3>6
    <3>8. PICK c \in J : \A b \in J : c <= b
      BY <3>7, Least
    <3>9. PICK y \in M : c = m - y[2]
      BY <3>8
    <3>10. ASSUME NEW q \in M PROVE q[2] <= y[2]
      <4>1. m - q[2] \in J /\ q[2] \in Nat /\ y[2] \in Nat
        BY <3>5
      <4>2. m - y[2] <= m - q[2]
        BY <3>8, <3>9, <4>1
      <4> QED
        BY <3>5, <4>1, <4>2
    <3>11. y \in N /\ y[1] = x[1]
      BY DEF M
    <3>12. ASSUME NEW q \in N PROVE ~ Later(y, q)
      <4>1. q[1] \in Nat /\ q[2] \in Nat /\ y[1] \in Nat /\ y[2] \in Nat /\ q[1] <= y[1]
        BY <1>5, <2>1, <3>4, <3>11
      <4>2. q[1] = y[1] => q[2] <= y[2]
        BY <3>10, <3>11 DEF M
      <4> QED
        BY <4>1, <4>2
    <3> QED
      BY <3>11, <3>12
  <2>3. last(n) \in N
    BY <2>2 DEF N
  <2> QED
    BY <2>1, <2>3
<1>7. IsFiniteSet(names)
  <2> DEFINE F(i) == {<<i, j>> : j \in DOMAIN McpServers[order[i]]}
             A == {F(i) : i \in DOMAIN order}
  <2>1. ASSUME NEW i \in DOMAIN order PROVE IsFiniteSet(F(i))
    <3> DEFINE D == DOMAIN McpServers[order[i]]
    <3>1. IsFiniteSet(D)
      <4>1. D = 1 .. Len(McpServers[order[i]]) /\ Len(McpServers[order[i]]) \in Nat
        BY <1>2, <1>3
      <4> QED
        BY <4>1, FS_Interval
    <3>2. IsFiniteSet({<<i, j>> : j \in D})
      <4> HIDE DEF D
      <4>1. DEFINE f == [j \in D |-> <<i, j>>]
      <4>2. f \in Surjection(D, {<<i, j>> : j \in D})
        BY DEF Surjection
      <4> QED
        BY <3>1, <4>2, FS_Surjection
    <3> QED
      BY <3>2
  <2>2. IsFiniteSet(A)
    <3>1. IsFiniteSet(DOMAIN order)
      BY <1>1, <1>2, FS_Interval
    <3> HIDE DEF F
    <3>2. [i \in DOMAIN order |-> F(i)] \in Surjection(DOMAIN order, A)
      BY DEF Surjection
    <3> QED
      BY <3>1, <3>2, FS_Surjection
  <2>3. IsFiniteSet(UNION A)
    <3>1. \A X \in A : IsFiniteSet(X)
      <4> HIDE DEF F
      <4> QED
        BY <2>1
    <3> HIDE DEF A
    <3> QED
      BY <2>2, <3>1, FS_UNION
  <2>4. IsFiniteSet(at)
    BY <2>3
  <2> HIDE DEF at, name
  <2>5. [p \in at |-> name(p)] \in Surjection(at, names)
    BY DEF Surjection
  <2> QED
    BY <2>4, <2>5, FS_Surjection
<1> HIDE DEF at, names, last
<1>8. IsFiniteSet(names \cup DOMAIN mcpTool)
  BY <1>7, FS_Union
<1>9. ASSUME NEW n \in names \cup DOMAIN mcpTool
      PROVE  \/ \E i \in DOMAIN order : Discovered(order)[n].server = order[i]
             \/ n \in DOMAIN mcpTool /\ Discovered(order)[n] = mcpTool[n]
  <2>1. CASE n \in names
    <3>1. last(n) \in at
      BY <1>6, <2>1
    <3>2. last(n)[1] \in DOMAIN order
      BY <1>5, <3>1
    <3>3. Discovered(order)[n] = found(last(n))
      BY <1>4, <2>1
    <3>4. Discovered(order)[n].server = order[last(n)[1]]
      BY <3>3
    <3> QED
      BY <3>2, <3>4
  <2>2. CASE n \notin names
    BY <1>4, <2>2
  <2> QED
    BY <2>1, <2>2
<1>10. DOMAIN Discovered(order) = names \cup DOMAIN mcpTool
  BY <1>4
<1> QED
  BY <1>8, <1>9, <1>10

(* An order of a finite set names all of it and nothing else.              *)
LEMMA OrderIs ==
  ASSUME NEW T, IsFiniteSet(T), NEW ns \in SetToSeqs(T)
  PROVE  /\ Len(ns) \in Nat /\ DOMAIN ns = 1 .. Len(ns)
         /\ {ns[i] : i \in 1 .. Len(ns)} = T
<1> DEFINE n == Cardinality(T)
<1>1. n \in Nat
  BY FS_CardinalityType
<1>2. ns \in [1 .. n -> T] /\ \A i, j \in 1 .. n : i # j => ns[i] # ns[j]
  BY DEF SetToSeqs
<1>3. IsFiniteSet(1 .. n) /\ Cardinality(1 .. n) = n
  <2> HIDE DEF n
  <2>1. 1 \in Int /\ n \in Int
    BY <1>1
  <2>2. /\ IsFiniteSet(1 .. n)
        /\ Cardinality(1 .. n) = IF 1 > n THEN 0 ELSE n - 1 + 1
    BY <2>1, FS_Interval
  <2> QED
    BY <1>1, <2>2
<1>4. ns \in Injection(1 .. n, T)
  <2> HIDE DEF n
  <2> QED
    BY <1>2 DEF Injection, IsInjective
<1>5. ns \in Surjection(1 .. n, T)
  <2>1. PICK D : D = 1 .. n
    OBVIOUS
  <2>2. ns \in Injection(D, T) /\ Cardinality(D) = Cardinality(T)
    BY <1>3, <1>4, <2>1
  <2>3. ns \in Surjection(D, T)
    BY <2>2, FS_Injection
  <2> QED
    BY <2>1, <2>3
<1> HIDE DEF n
<1>6. Len(ns) = n /\ DOMAIN ns = 1 .. n
  BY <1>1, <1>2
<1> QED
  BY <1>1, <1>2, <1>5, <1>6 DEF Surjection

(* A new registry offers nothing.                                          *)
LEMMA OfferedInit == ToolboxInit => OfferedOk
<1> SUFFICES ASSUME ToolboxInit PROVE OfferedOk
  OBVIOUS
<1>1. tools = {} /\ schemas = <<>> /\ external = {} /\ mcpTool = <<>>
  BY DEF ToolboxInit
<1>2. IsVector(schemas) /\ NoDup(schemas) /\ Range(schemas) = {}
  BY <1>1 DEF IsVector, NoDup, Range
<1>3. DOMAIN mcpTool = {}
  BY <1>1
<1> QED
  BY <1>1, <1>2, <1>3, FS_EmptySet DEF OfferedOk

(* Every step keeps names, schemas and servers together.                   *)
LEMMA OfferedStep == OfferedOk /\ ToolboxNext => OfferedOk'
<1> SUFFICES ASSUME OfferedOk, ToolboxNext PROVE OfferedOk'
  OBVIOUS
<1>1. /\ IsVector(schemas) /\ NoDup(schemas) /\ Range(schemas) = tools
      /\ external \subseteq DOMAIN mcpTool /\ IsFiniteSet(DOMAIN mcpTool)
      /\ \A n \in DOMAIN mcpTool : mcpTool[n].server \in mcpClients
  BY DEF OfferedOk
<1>2. ASSUME IsVector(schemas'), NoDup(schemas'), Range(schemas') = tools',
             UNCHANGED <<external, mcpTool, mcpClients>>
      PROVE  OfferedOk'
  BY <1>1, <1>2 DEF OfferedOk
<1>3. CASE RegisterBuiltinTools
  <2>1. /\ tools = {} /\ tools' = Range(BuiltinTools)
        /\ schemas' = RegisteredAll(schemas, BuiltinTools)
        /\ UNCHANGED <<external, mcpTool, mcpClients>>
    BY <1>3 DEF RegisterBuiltinTools
  <2>2. Len(BuiltinTools) \in Nat /\ DOMAIN BuiltinTools = 1 .. Len(BuiltinTools)
    BY DEF BuiltinTools
  <2>3. Range(BuiltinTools) = {BuiltinTools[i] : i \in 1 .. Len(BuiltinTools)}
    BY <2>2 DEF Range
  <2>4. PICK s, ns : s = schemas /\ ns = BuiltinTools
    OBVIOUS
  <2>5. /\ IsVector(RegisteredAll(s, ns)) /\ NoDup(RegisteredAll(s, ns))
        /\ Range(RegisteredAll(s, ns)) = Range(s) \cup {ns[i] : i \in 1 .. Len(ns)}
    BY <1>1, <2>2, <2>4, RegisteredAllIs
  <2> QED
    BY <1>1, <1>2, <2>1, <2>3, <2>4, <2>5
<1>4. CASE SetManager
  <2>1. PICK x : /\ tools' = tools \cup {x} /\ schemas' = Registered(schemas, x)
                 /\ UNCHANGED <<external, mcpTool, mcpClients>>
    BY <1>4 DEF SetManager
  <2>2. PICK s : s = schemas
    OBVIOUS
  <2>3. /\ IsVector(Registered(s, x)) /\ NoDup(Registered(s, x))
        /\ Range(Registered(s, x)) = Range(s) \cup {x}
    BY <1>1, <2>2, RegisteredIs
  <2> QED
    BY <1>1, <1>2, <2>1, <2>2, <2>3
<1>5. CASE \E order \in SetToAllKPermutations(DOMAIN McpServers) : DiscoverTools(order)
  <2>1. PICK order \in SetToAllKPermutations(DOMAIN McpServers) : DiscoverTools(order)
    BY <1>5
  <2>2. PICK T : T \subseteq DOMAIN McpServers /\ order \in SetToSeqs(T)
    BY DEF SetToAllKPermutations
  <2>3. PICK ns \in SetToSeqs(DOMAIN mcpTool') : schemas' = RegisteredAll(schemas, ns)
    BY <2>1 DEF DiscoverTools
  <2>4. /\ mcpTool' = Discovered(order)
        /\ mcpClients' = mcpClients \cup {order[i] : i \in DOMAIN order}
        /\ external' = external \cup DOMAIN mcpTool'
        /\ tools' = tools \cup DOMAIN mcpTool'
    BY <2>1 DEF DiscoverTools
  <2>5. /\ DOMAIN mcpTool \subseteq DOMAIN mcpTool'
        /\ IsFiniteSet(DOMAIN mcpTool')
        /\ \A n \in DOMAIN mcpTool' :
             \/ \E i \in DOMAIN order : mcpTool'[n].server = order[i]
             \/ n \in DOMAIN mcpTool /\ mcpTool'[n] = mcpTool[n]
    BY <1>1, <2>2, <2>4, DiscoveredIs
  <2>6. \A n \in DOMAIN mcpTool' : mcpTool'[n].server \in mcpClients'
    BY <1>1, <2>4, <2>5
  <2>7. external' \subseteq DOMAIN mcpTool'
    BY <1>1, <2>4, <2>5
  <2>8. PICK D, s : D = DOMAIN mcpTool' /\ s = schemas
    OBVIOUS
  <2>9. Len(ns) \in Nat /\ {ns[i] : i \in 1 .. Len(ns)} = D
    BY <2>3, <2>5, <2>8, OrderIs
  <2>10. /\ IsVector(RegisteredAll(s, ns)) /\ NoDup(RegisteredAll(s, ns))
         /\ Range(RegisteredAll(s, ns)) = Range(s) \cup {ns[i] : i \in 1 .. Len(ns)}
    BY <1>1, <2>8, <2>9, RegisteredAllIs
  <2>11. IsVector(schemas') /\ NoDup(schemas') /\ Range(schemas') = tools'
    BY <1>1, <2>3, <2>4, <2>8, <2>9, <2>10
  <2> QED
    BY <2>5, <2>6, <2>7, <2>11 DEF OfferedOk
<1>6. ASSUME NEW p \in Permissions, SetPermissionChecker(p) PROVE OfferedOk'
  BY <1>1, <1>2, <1>6 DEF SetPermissionChecker
<1>7. ASSUME NEW c \in Chains, BeginChain(c) PROVE OfferedOk'
  BY <1>1, <1>2, <1>7 DEF BeginChain
<1>8. CASE ChainCall
  <2>1. UNCHANGED <<tools, schemas, external, mcpTool, mcpClients>>
    BY <1>8 DEF ChainCall
  <2> QED
    BY <1>1, <1>2, <2>1
<1> QED
  BY <1>3, <1>4, <1>5, <1>6, <1>7, <1>8 DEF ToolboxNext

(* What is offered can be run.                                             *)
LEMMA OfferedSound == OfferedOk => OfferedRuns
<1> SUFFICES ASSUME OfferedOk PROVE OfferedRuns
  OBVIOUS
<1>1. /\ IsVector(schemas) /\ NoDup(schemas) /\ Range(schemas) = tools
      /\ external \subseteq DOMAIN mcpTool
      /\ \A n \in DOMAIN mcpTool : mcpTool[n].server \in mcpClients
  BY DEF OfferedOk
<1> DEFINE keep == {n \in Range(schemas) : check_permission(n)}
<1>2. Range(GetToolSchemas) = Range(schemas) \cap keep
  <2>1. PICK s, k : s = schemas /\ k = keep
    OBVIOUS
  <2>2. Range(Filtered(s, k)) = Range(s) \cap k
    BY <1>1, <2>1, FilteredIs
  <2> QED
    BY <2>1, <2>2 DEF GetToolSchemas
<1>3. ASSUME NEW n \in Range(GetToolSchemas) \cap external
      PROVE  LET m == mcpTool[n]
             IN  m.server \in mcpClients /\ IsMcpToolAllowed(checker, m.server, m.tool)
  <2>1. check_permission(n) /\ n \in external /\ n \in DOMAIN mcpTool
    BY <1>1, <1>2, <1>3
  <2>2. IsMcpToolAllowed(checker, mcpTool[n].server, mcpTool[n].tool)
    BY <2>1 DEF check_permission, McpOf
  <2> QED
    BY <1>1, <2>1, <2>2
<1>4. \A i, j \in DOMAIN schemas : schemas[i] = schemas[j] => i = j
  BY <1>1 DEF NoDup
<1> QED
  BY <1>1, <1>3, <1>4 DEF OfferedRuns

-----------------------------------------------------------------------------
(* Chains *)

CallsOf(c, i) == {k \in DOMAIN c.calls : c.calls[k].step = i}

(* The calls of a step that has a result.                                  *)
StepOver(c, i) ==
  /\ Cardinality(CallsOf(c, i)) <= MaxAttempts(c.def)
  /\ \A k, l \in CallsOf(c, i) : k < l => ~ c.calls[k].ok
  /\ c.results[i].ok => \E k \in CallsOf(c, i) : c.calls[k].ok

(* The types of a chain that has begun.                                    *)
ChainShape(c) ==
  /\ c = [on |-> TRUE, def |-> c.def, results |-> c.results, attempts |-> c.attempts,
          calls |-> c.calls, success |-> c.success, final |-> c.final, done |-> c.done]
  /\ c.def \in Chains /\ IsVector(c.results) /\ IsVector(c.calls)
  /\ c.attempts \in Nat /\ c.success \in BOOLEAN /\ c.done \in BOOLEAN
  /\ Len(c.results) <= Len(c.def.steps)
  /\ \A i \in 1 .. Len(c.results) : c.results[i].ok \in BOOLEAN
  /\ \A k \in DOMAIN c.calls : /\ c.calls[k].ok \in BOOLEAN
                               /\ c.calls[k].step \in 1 .. Len(c.results) + 1

(* What the results of a chain say of its calls.                           *)
ChainSteps(c) ==
  /\ \A i \in 1 .. Len(c.results) : StepOver(c, i)
  /\ c.success => \A i \in 1 .. Len(c.results) : c.results[i].ok
  /\ c.def.policy # "continue" =>
       \A i \in 1 .. Len(c.results) : ~ c.results[i].ok => i = Len(c.results) /\ c.done
  /\ c.done => ~ c.success \/ Len(c.results) = Len(c.def.steps)

(* The step under way has failed as often as it was called.                *)
ChainNow(c) ==
  /\ Cardinality(CallsOf(c, Len(c.results) + 1)) = c.attempts
  /\ \A k \in CallsOf(c, Len(c.results) + 1) : ~ c.calls[k].ok
  /\ c.attempts = 0 \/ c.attempts < MaxAttempts(c.def)

(* No chain has begun, or the one that has keeps its promises.             *)
ChainOk == chain = NoChain \/ (ChainShape(chain) /\ ChainSteps(chain) /\ ChainNow(chain))

(* The facts about a chain's definition.                                   *)
LEMMA DefIs ==
  ASSUME NEW def \in Chains
  PROVE  /\ MaxAttempts(def) \in Nat
         /\ Len(def.steps) \in Nat /\ DOMAIN def.steps = 1 .. Len(def.steps)
<1>1. def.max_retries \in Nat /\ IsVector(def.steps)
  BY ToolboxAssumption
<1>2. PICK s : s = def.steps
  OBVIOUS
<1>3. Len(s) \in Nat /\ DOMAIN s = 1 .. Len(s)
  BY <1>1, <1>2 DEF IsVector
<1> QED
  BY <1>1, <1>2, <1>3 DEF MaxAttempts

(* A vector is numbered from 1 to its length.                              *)
LEMMA VectorLen ==
  ASSUME NEW s, IsVector(s)
  PROVE  Len(s) \in Nat /\ DOMAIN s = 1 .. Len(s)
BY DEF IsVector

(* The fields of a chain when a step has its result.                       *)
LEMMA StepDoneIs ==
  ASSUME NEW c, ChainShape(c), NEW r, r.ok \in BOOLEAN
  PROVE  LET d == StepDone(c, r)
             results == Append(c.results, r)
             stop == ~ r.ok /\ c.def.policy # "continue"
         IN  d = [on |-> TRUE, def |-> c.def, results |-> results, attempts |-> 0,
                  calls |-> c.calls, success |-> c.success /\ r.ok, final |-> d.final,
                  done |-> (stop \/ Len(results) = Len(c.def.steps))]
<1>1. c = [on |-> TRUE, def |-> c.def, results |-> c.results, attempts |-> c.attempts,
           calls |-> c.calls, success |-> c.success, final |-> c.final, done |-> c.done]
  BY DEF ChainShape
<1> DEFINE d == StepDone(c, r)
           results == Append(c.results, r)
           stop == ~ r.ok /\ c.def.policy # "continue"
           good == {i \in DOMAIN results : results[i].ok}
           end == stop \/ Len(results) = Len(c.def.steps)
           won == c.success /\ r.ok
           fin == IF stop THEN <<"stopped">>
                  ELSE IF end /\ good # {}
                    THEN results[CHOOSE i \in good : \A j \in good : j <= i].result ELSE c.final
<1>2. d = [c EXCEPT !.results = results, !.attempts = 0, !.success = won, !.done = end, !.final = fin]
  BY DEF StepDone
<1>2a. end \in BOOLEAN /\ won \in BOOLEAN /\ c.success \in BOOLEAN /\ c.done \in BOOLEAN
      /\ c.attempts \in Nat
  BY DEF ChainShape
<1> HIDE DEF d, results, end, won, fin
<1>3. d = [on |-> TRUE, def |-> c.def, results |-> results, attempts |-> 0,
           calls |-> c.calls, success |-> won, final |-> fin, done |-> end]
  <2>1. PICK e, b, w, f : e = results /\ b = end /\ w = won /\ f = fin
    OBVIOUS
  <2>2. b \in BOOLEAN /\ w \in BOOLEAN
    BY <1>2a, <2>1
  <2>3. d = [c EXCEPT !.results = e, !.attempts = 0, !.success = w, !.done = b, !.final = f]
    BY <1>2, <2>1
  <2>4. d = [on |-> TRUE, def |-> c.def, results |-> e, attempts |-> 0,
             calls |-> c.calls, success |-> w, final |-> f, done |-> b]
    <3>1. PICK x1, x2, x3, x4, x5, x6, x7 : c = [on |-> TRUE, def |-> x1, results |-> x2, attempts |-> x3, calls |-> x4, success |-> x5, final |-> x6, done |-> x7]
      BY <1>1
    <3>2. c.def = x1 /\ c.calls = x4
      BY <3>1
    <3>3. x3 \in Nat /\ x5 \in BOOLEAN /\ x7 \in BOOLEAN
      BY <1>2a, <3>1
    <3> QED
      BY <2>2, <2>3, <3>1, <3>2, <3>3
  <2> QED
    BY <2>1, <2>4
<1>4. d.final = fin
  BY <1>3
<1>5. d = [on |-> TRUE, def |-> c.def, results |-> results, attempts |-> 0,
           calls |-> c.calls, success |-> won, final |-> d.final, done |-> end]
  BY <1>3, <1>4
<1> QED
  BY <1>5 DEF d, results, end, won

(* A step gets its result.                                                 *)
LEMMA StepDoneOk ==
  ASSUME NEW c, ChainShape(c), ChainSteps(c), ~ c.done, Len(c.results) < Len(c.def.steps),
         NEW r, r.ok \in BOOLEAN,
         Cardinality(CallsOf(c, Len(c.results) + 1)) <= MaxAttempts(c.def),
         \A k, l \in CallsOf(c, Len(c.results) + 1) : k < l => ~ c.calls[k].ok,
         r.ok => \E k \in CallsOf(c, Len(c.results) + 1) : c.calls[k].ok
  PROVE  ChainShape(StepDone(c, r)) /\ ChainSteps(StepDone(c, r)) /\ ChainNow(StepDone(c, r))
<1> DEFINE n == Len(c.results)
<1>1. PICK d, results, end, won :
        /\ d = StepDone(c, r) /\ results = Append(c.results, r)
        /\ end = ((~ r.ok /\ c.def.policy # "continue") \/ Len(results) = Len(c.def.steps))
        /\ won = (c.success /\ r.ok)
  OBVIOUS
<1>2. d = [on |-> TRUE, def |-> c.def, results |-> results, attempts |-> 0,
           calls |-> c.calls, success |-> won, final |-> d.final, done |-> end]
  BY <1>1, StepDoneIs
<1>3. /\ d.def = c.def /\ d.results = results /\ d.attempts = 0 /\ d.calls = c.calls
      /\ d.success = won /\ d.done = end
  BY <1>2
<1>4. /\ c.def \in Chains /\ IsVector(c.results) /\ IsVector(c.calls)
      /\ c.success \in BOOLEAN
      /\ \A i \in 1 .. n : c.results[i].ok \in BOOLEAN
      /\ \A k \in DOMAIN c.calls : /\ c.calls[k].ok \in BOOLEAN
                                   /\ c.calls[k].step \in 1 .. n + 1
  BY DEF ChainShape
<1>5. n \in Nat /\ DOMAIN c.results = 1 .. n
  BY <1>4, VectorLen
<1>6. /\ IsVector(results) /\ Len(results) = n + 1
      /\ results[n + 1] = r /\ \A i \in 1 .. n : results[i] = c.results[i]
  <2>1. PICK T, q : q = c.results /\ q \in Seq(T)
    BY <1>4 DEF IsVector
  <2>2. /\ Append(q, r) \in Seq(T \cup {r}) /\ Len(Append(q, r)) = Len(q) + 1
        /\ Append(q, r)[Len(q) + 1] = r
        /\ \A i \in 1 .. Len(q) : Append(q, r)[i] = q[i]
    BY <2>1, Appended
  <2>3. IsVector(Append(q, r))
    BY <2>2, VectorIs
  <2> QED
    BY <1>1, <2>1, <2>2, <2>3
<1>7. Len(c.def.steps) \in Nat /\ MaxAttempts(c.def) \in Nat /\ n < Len(c.def.steps)
  <2>1. PICK def \in Chains : def = c.def
    BY <1>4
  <2> QED
    BY <2>1, DefIs
<1>8. end \in BOOLEAN /\ won \in BOOLEAN
  BY <1>1
<1>9. \A i : CallsOf(d, i) = CallsOf(c, i)
  BY <1>3 DEF CallsOf
<1>10. /\ Cardinality(CallsOf(c, n + 1)) <= MaxAttempts(c.def)
       /\ \A k, l \in CallsOf(c, n + 1) : k < l => ~ c.calls[k].ok
       /\ r.ok => \E k \in CallsOf(c, n + 1) : c.calls[k].ok
  OBVIOUS
<1>11. /\ \A i \in 1 .. n : StepOver(c, i)
       /\ c.success => \A i \in 1 .. n : c.results[i].ok
       /\ c.def.policy # "continue" => \A i \in 1 .. n : c.results[i].ok
  BY <1>4 DEF ChainSteps
<1> HIDE DEF n
<1>12. \A i \in 1 .. n + 1 : i \in 1 .. n \/ i = n + 1
  BY <1>5
<1>13. ChainShape(d)
  <2>1. \A i \in 1 .. n + 1 : results[i].ok \in BOOLEAN
    BY <1>4, <1>6, <1>12
  <2>2. \A k \in DOMAIN c.calls : c.calls[k].step \in 1 .. (n + 1) + 1
    BY <1>4, <1>5
  <2>3. n + 1 <= Len(c.def.steps)
    BY <1>5, <1>7
  <2>4. d = [on |-> TRUE, def |-> d.def, results |-> d.results, attempts |-> d.attempts,
             calls |-> d.calls, success |-> d.success, final |-> d.final, done |-> d.done]
    BY <1>2, <1>3
  <2>5. d.def \in Chains /\ IsVector(d.results) /\ IsVector(d.calls) /\ d.attempts \in Nat
    BY <1>3, <1>4, <1>6
  <2>6. d.success \in BOOLEAN /\ d.done \in BOOLEAN
    BY <1>3, <1>8
  <2>7. /\ Len(d.results) <= Len(d.def.steps)
        /\ \A i \in 1 .. Len(d.results) : d.results[i].ok \in BOOLEAN
    BY <1>3, <1>6, <2>1, <2>3
  <2>8. \A k \in DOMAIN d.calls : /\ d.calls[k].ok \in BOOLEAN
                                  /\ d.calls[k].step \in 1 .. Len(d.results) + 1
    BY <1>3, <1>4, <1>6, <2>2
  <2> QED
    BY <2>4, <2>5, <2>6, <2>7, <2>8 DEF ChainShape
<1>14. ChainSteps(d)
  <2>1. ASSUME NEW i \in 1 .. n + 1 PROVE StepOver(d, i)
    <3>1. CASE i \in 1 .. n
      <4>1. StepOver(c, i) /\ d.results[i] = c.results[i]
        BY <1>3, <1>6, <1>11, <3>1
      <4> QED
        BY <1>3, <1>9, <4>1 DEF StepOver
    <3>2. CASE i = n + 1
      <4>1. d.results[i] = r
        BY <1>3, <1>6, <3>2
      <4> QED
        BY <1>3, <1>9, <1>10, <3>2, <4>1 DEF StepOver
    <3> QED
      BY <1>12, <3>1, <3>2
  <2>2. won => \A i \in 1 .. n + 1 : results[i].ok
    BY <1>1, <1>6, <1>11, <1>12
  <2>3. c.def.policy # "continue" =>
          \A i \in 1 .. n + 1 : ~ results[i].ok => i = n + 1 /\ end
    BY <1>1, <1>6, <1>11, <1>12
  <2>4. end => ~ won \/ n + 1 = Len(c.def.steps)
    BY <1>1, <1>6
  <2> QED
    BY <1>3, <1>6, <2>1, <2>2, <2>3, <2>4 DEF ChainSteps
<1>15. ChainNow(d)
  <2>1. CallsOf(c, (n + 1) + 1) = {}
    <3>1. ~ \E k \in DOMAIN c.calls : c.calls[k].step = (n + 1) + 1
      BY <1>4, <1>5
    <3> QED
      BY <3>1 DEF CallsOf
  <2>2. Cardinality({}) = 0
    BY FS_EmptySet
  <2> QED
    BY <1>3, <1>6, <1>9, <2>1, <2>2 DEF ChainNow
<1> QED
  BY <1>1, <1>13, <1>14, <1>15

(* A step is called once more.                                             *)
Called(c, ok, text) ==
  [c EXCEPT !.attempts = @ + 1,
            !.calls = Append(@, [step |-> Len(c.results) + 1, ok |-> ok, text |-> text])]

(* The fields of a chain after one more call.                              *)
LEMMA CalledIs ==
  ASSUME NEW c, ChainShape(c), NEW ok, NEW text
  PROVE  Called(c, ok, text) =
           [on |-> TRUE, def |-> c.def, results |-> c.results, attempts |-> c.attempts + 1,
            calls |-> Append(c.calls, [step |-> Len(c.results) + 1, ok |-> ok, text |-> text]),
            success |-> c.success, final |-> c.final, done |-> c.done]
<1>1. PICK e : e = [step |-> Len(c.results) + 1, ok |-> ok, text |-> text]
  OBVIOUS
<1>2. PICK x1, x2, x3, x4, x5, x6, x7 :
        c = [on |-> TRUE, def |-> x1, results |-> x2, attempts |-> x3,
             calls |-> x4, success |-> x5, final |-> x6, done |-> x7]
  BY DEF ChainShape
<1>3. /\ c.def = x1 /\ c.results = x2 /\ c.attempts = x3 /\ c.calls = x4
      /\ c.success = x5 /\ c.final = x6 /\ c.done = x7
  BY <1>2
<1>4. x3 \in Nat /\ x5 \in BOOLEAN /\ x7 \in BOOLEAN
  BY <1>3 DEF ChainShape
<1>5. PICK a, q : a = x3 + 1 /\ q = Append(x4, e)
  OBVIOUS
<1>6. Called(c, ok, text) = [c EXCEPT !.attempts = a, !.calls = q]
  BY <1>1, <1>3, <1>5 DEF Called
<1>7. Called(c, ok, text) =
        [on |-> TRUE, def |-> x1, results |-> x2, attempts |-> a,
         calls |-> q, success |-> x5, final |-> x6, done |-> x7]
  BY <1>2, <1>4, <1>5, <1>6
<1> QED
  BY <1>1, <1>3, <1>5, <1>7

(* One more call: it is counted, and the last of its step.                 *)
LEMMA CalledOk ==
  ASSUME NEW c, ChainShape(c), ChainSteps(c), ChainNow(c), ~ c.done,
         Len(c.results) < Len(c.def.steps), MaxAttempts(c.def) # 0,
         NEW ok \in BOOLEAN, NEW text
  PROVE  LET d == Called(c, ok, text)
             i == Len(c.results) + 1
         IN  /\ ChainShape(d) /\ ChainSteps(d) /\ ~ d.done
             /\ d.results = c.results /\ d.def = c.def /\ d.attempts = c.attempts + 1
             /\ Cardinality(CallsOf(d, i)) = d.attempts
             /\ d.attempts <= MaxAttempts(c.def)
             /\ \A k, l \in CallsOf(d, i) : k < l => ~ d.calls[k].ok
             /\ IF ok THEN \E k \in CallsOf(d, i) : d.calls[k].ok
                ELSE \A k \in CallsOf(d, i) : ~ d.calls[k].ok
<1> DEFINE n == Len(c.results)
           m == Len(c.calls)
<1>1. PICK d, e, calls :
        /\ d = Called(c, ok, text) /\ e = [step |-> n + 1, ok |-> ok, text |-> text]
        /\ calls = Append(c.calls, e)
  OBVIOUS
<1>2. d = [on |-> TRUE, def |-> c.def, results |-> c.results, attempts |-> c.attempts + 1,
           calls |-> calls, success |-> c.success, final |-> c.final, done |-> c.done]
  BY <1>1, CalledIs
<1>3. /\ d.def = c.def /\ d.results = c.results /\ d.attempts = c.attempts + 1
      /\ d.calls = calls /\ d.success = c.success /\ d.final = c.final /\ d.done = c.done
  BY <1>2
<1>4. /\ c.def \in Chains /\ IsVector(c.results) /\ IsVector(c.calls)
      /\ c.attempts \in Nat /\ c.success \in BOOLEAN /\ c.done \in BOOLEAN
      /\ Len(c.results) <= Len(c.def.steps)
      /\ \A i \in 1 .. n : c.results[i].ok \in BOOLEAN
      /\ \A k \in DOMAIN c.calls : /\ c.calls[k].ok \in BOOLEAN
                                   /\ c.calls[k].step \in 1 .. n + 1
  BY DEF ChainShape
<1>5. n \in Nat /\ m \in Nat /\ DOMAIN c.calls = 1 .. m
  BY <1>4, VectorLen
<1>6. /\ IsVector(calls) /\ DOMAIN calls = 1 .. m + 1
      /\ calls[m + 1] = e /\ \A k \in 1 .. m : calls[k] = c.calls[k]
  <2>1. PICK T, q : q = c.calls /\ q \in Seq(T)
    BY <1>4 DEF IsVector
  <2>2. /\ Append(q, e) \in Seq(T \cup {e}) /\ DOMAIN Append(q, e) = 1 .. Len(q) + 1
        /\ Append(q, e)[Len(q) + 1] = e
        /\ \A k \in 1 .. Len(q) : Append(q, e)[k] = q[k]
    BY <2>1, Appended
  <2>3. IsVector(Append(q, e))
    BY <2>2, VectorIs
  <2> QED
    BY <1>1, <2>1, <2>2, <2>3
<1>7. MaxAttempts(c.def) \in Nat \ {0}
  <2>1. PICK def \in Chains : def = c.def
    BY <1>4
  <2> QED
    BY <2>1, DefIs
<1>8. e.step = n + 1 /\ e.ok = ok
  BY <1>1
<1>9. /\ \A i \in 1 .. n : StepOver(c, i)
      /\ c.success => \A i \in 1 .. n : c.results[i].ok
      /\ c.def.policy # "continue" => \A i \in 1 .. n : ~ c.results[i].ok => i = n /\ c.done
  BY DEF ChainSteps
<1>10. /\ Cardinality(CallsOf(c, n + 1)) = c.attempts
       /\ \A k \in CallsOf(c, n + 1) : ~ c.calls[k].ok
       /\ c.attempts = 0 \/ c.attempts < MaxAttempts(c.def)
  BY DEF ChainNow
<1> HIDE DEF n, m
<1>11. \A k : k \in 1 .. m + 1 <=> k \in 1 .. m \/ k = m + 1
  BY <1>5
<1>12. ASSUME NEW i \in 1 .. n PROVE CallsOf(d, i) = CallsOf(c, i)
  <2>1. i # n + 1
    BY <1>5
  <2> QED
    BY <1>3, <1>5, <1>6, <1>8, <1>11, <2>1 DEF CallsOf
<1>13. CallsOf(d, n + 1) = CallsOf(c, n + 1) \cup {m + 1}
  BY <1>3, <1>5, <1>6, <1>8, <1>11 DEF CallsOf
<1>14. CallsOf(c, n + 1) \subseteq 1 .. m
  BY <1>5 DEF CallsOf
<1>15. Cardinality(CallsOf(d, n + 1)) = c.attempts + 1
  <2>1. IsFiniteSet(1 .. m)
    <3>1. 1 \in Int /\ m \in Int
      BY <1>5
    <3> QED
      BY <3>1, FS_Interval
  <2>2. IsFiniteSet(CallsOf(c, n + 1))
    BY <1>14, <2>1, FS_Subset
  <2>3. m + 1 \notin CallsOf(c, n + 1)
    BY <1>5, <1>14
  <2> QED
    BY <1>10, <1>13, <2>2, <2>3, FS_AddElement
<1>16. c.attempts + 1 <= MaxAttempts(c.def)
  BY <1>4, <1>7, <1>10
<1>17. ChainShape(d)
  <2>1. d = [on |-> TRUE, def |-> d.def, results |-> d.results, attempts |-> d.attempts,
             calls |-> d.calls, success |-> d.success, final |-> d.final, done |-> d.done]
    BY <1>2, <1>3
  <2>2. d.def \in Chains /\ IsVector(d.results) /\ IsVector(d.calls) /\ d.attempts \in Nat
    BY <1>3, <1>4, <1>6
  <2>3. d.success \in BOOLEAN /\ d.done \in BOOLEAN
    BY <1>3, <1>4
  <2>4. /\ Len(d.results) <= Len(d.def.steps)
        /\ \A i \in 1 .. Len(d.results) : d.results[i].ok \in BOOLEAN
    BY <1>3, <1>4 DEF n
  <2>5. ASSUME NEW k \in DOMAIN d.calls
        PROVE  d.calls[k].ok \in BOOLEAN /\ d.calls[k].step \in 1 .. Len(d.results) + 1
    <3>1. CASE k \in 1 .. m
      <4>1. d.calls[k] = c.calls[k] /\ k \in DOMAIN c.calls
        BY <1>3, <1>5, <1>6, <3>1
      <4> QED
        BY <1>3, <1>4, <4>1 DEF n
    <3>2. CASE k = m + 1
      <4>1. d.calls[k] = e
        BY <1>3, <1>6, <3>2
      <4> QED
        BY <1>3, <1>5, <1>8, <4>1 DEF n
    <3> QED
      BY <1>3, <1>6, <1>11, <3>1, <3>2
  <2> QED
    BY <2>1, <2>2, <2>3, <2>4, <2>5 DEF ChainShape
<1>18. ChainSteps(d)
  <2>1. ASSUME NEW i \in 1 .. n PROVE StepOver(d, i)
    <3>1. StepOver(c, i) /\ CallsOf(d, i) = CallsOf(c, i)
      BY <1>9, <1>12
    <3>2. \A k \in CallsOf(c, i) : d.calls[k] = c.calls[k]
      BY <1>3, <1>5, <1>6 DEF CallsOf
    <3> QED
      BY <1>3, <3>1, <3>2 DEF StepOver
  <2>2. \A i \in 1 .. n : d.results[i].ok = c.results[i].ok
    BY <1>3
  <2> QED
    BY <1>3, <1>9, <2>1, <2>2 DEF ChainSteps, n
<1>19. /\ \A k \in CallsOf(c, n + 1) : ~ d.calls[k].ok
       /\ d.calls[m + 1].ok = ok
  BY <1>3, <1>6, <1>8, <1>10, <1>14
<1>20. \A k, l \in CallsOf(d, n + 1) : k < l => ~ d.calls[k].ok
  <2>1. ASSUME NEW k \in CallsOf(d, n + 1), NEW l \in CallsOf(d, n + 1), k < l
        PROVE  k \in CallsOf(c, n + 1)
    <3>1. k # m + 1
      BY <1>5, <1>13, <1>14, <2>1
    <3> QED
      BY <1>13, <3>1
  <2> QED
    BY <1>19, <2>1
<1>21. IF ok THEN \E k \in CallsOf(d, n + 1) : d.calls[k].ok
       ELSE \A k \in CallsOf(d, n + 1) : ~ d.calls[k].ok
  BY <1>13, <1>19
<1> QED
  BY <1>1, <1>3, <1>15, <1>16, <1>17, <1>18, <1>20, <1>21 DEF n

(* A tool fails or does not.                                               *)
LEMMA OutcomeOk ==
  ASSUME NEW step, NEW text, NEW o \in Outcomes(step, text)
  PROVE  o.ok \in BOOLEAN
<1>1. Throws.ok \in BOOLEAN
  BY DEF Throws
<1>2. \A t : Returns(t).ok \in BOOLEAN
  BY DEF Returns
<1>3. read_file_tool(step.path).ok \in BOOLEAN
  BY <1>1, <1>2 DEF read_file_tool
<1>4. write_file_tool(step.path, text).ok \in BOOLEAN
  BY <1>1 DEF write_file_tool, Returns
<1>5. edit_file_tool(step.path, text).ok \in BOOLEAN
  <2>1. \A t, u : [Returns(t) EXCEPT !.disk = u].ok \in BOOLEAN
    BY DEF Returns
  <2> QED
    BY <1>1, <2>1 DEF edit_file_tool
<1>6. \A m : apply_patch_tool(m).ok \in BOOLEAN
  BY <1>1, <1>2 DEF apply_patch_tool
<1>7. \A k, a : web_search_tool(k, a).ok \in BOOLEAN
  BY <1>1, <1>2 DEF web_search_tool
<1>8. \A h, s, b : web_fetch_tool("https", h, s, b).ok \in BOOLEAN
  BY <1>1, <1>2 DEF web_fetch_tool
<1>9. \A g : cron_tool(step.action, g).ok \in BOOLEAN
  BY <1>1, <1>2 DEF cron_tool
<1>10. \A n, g : sessions_tool(n, g).ok \in BOOLEAN
  BY <1>1, <1>2 DEF sessions_tool
<1>11. \A g : spawn_tool(g).ok \in BOOLEAN
  BY <1>1, <1>2 DEF spawn_tool
<1>12. \A x : memory_get_tool(step.path, x).ok \in BOOLEAN
  BY <1>1, <1>2 DEF memory_get_tool
<1>13. \A u, r : McpExecute(step.tool, u, r).ok \in BOOLEAN
  BY <1>1, <1>2 DEF McpExecute
<1> HIDE DEF Throws, Returns
<1> QED
  BY <1>1, <1>2, <1>3, <1>4, <1>5, <1>6, <1>7, <1>8, <1>9, <1>10, <1>11, <1>12, <1>13 DEF Outcomes

(* The chain under way keeps its promises.                                 *)
LEMMA ChainStep ==
  ChainOk /\ ToolboxNext => ChainOk'
<1> SUFFICES ASSUME ChainOk, ToolboxNext PROVE ChainOk'
  OBVIOUS
<1>1. ASSUME chain' = chain PROVE ChainOk'
  BY <1>1 DEF ChainOk
<1>2. ASSUME NEW def \in Chains, BeginChain(def) PROVE ChainOk'
  <2>1. PICK c : c = chain'
    OBVIOUS
  <2>2. ~ chain.on /\ chain' = [NoChain EXCEPT !.on = TRUE, !.def = def]
    BY <1>2 DEF BeginChain
  <2>3. c = [on |-> TRUE, def |-> def, results |-> <<>>, attempts |-> 0, calls |-> <<>>,
             success |-> TRUE, final |-> <<>>, done |-> FALSE]
    BY <2>1, <2>2 DEF NoChain
  <2>4. /\ c.def = def /\ c.results = <<>> /\ c.attempts = 0 /\ c.calls = <<>>
        /\ c.success = TRUE /\ c.final = <<>> /\ c.done = FALSE
    BY <2>3
  <2>5. Len(def.steps) \in Nat /\ MaxAttempts(def) \in Nat
    BY DefIs
  <2>6. IsVector(<<>>) /\ Len(<<>>) = 0 /\ DOMAIN <<>> = {}
    BY DEF IsVector, Range
  <2>7. ChainShape(c)
    BY <2>3, <2>4, <2>5, <2>6 DEF ChainShape
  <2>8. \A i : CallsOf(c, i) = {}
    BY <2>4, <2>6 DEF CallsOf
  <2>9. ChainNow(c)
    BY <2>4, <2>8, FS_EmptySet DEF ChainNow
  <2>10. ChainSteps(c)
    BY <2>4, <2>6 DEF ChainSteps
  <2> QED
    BY <2>1, <2>7, <2>9, <2>10 DEF ChainOk
<1>3. ASSUME ChainCall PROVE ChainOk'
  <2>1. PICK c : c = chain
    OBVIOUS
  <2> DEFINE i == Len(c.results) + 1
             step == c.def.steps[i]
             text == resolve_string(step.text, c.results)
  <2>2. c.on /\ ~ c.done /\ i <= Len(c.def.steps)
    BY <1>3, <2>1 DEF ChainCall
  <2>3. ChainShape(c) /\ ChainSteps(c) /\ ChainNow(c)
    BY <2>1, <2>2 DEF ChainOk, NoChain
  <2>4. /\ c.def \in Chains /\ Len(c.results) \in Nat /\ Len(c.def.steps) \in Nat
        /\ MaxAttempts(c.def) \in Nat /\ c.attempts \in Nat
    <3>1. PICK def \in Chains : def = c.def
      BY <2>3 DEF ChainShape
    <3>2. Len(c.results) \in Nat /\ c.attempts \in Nat
      BY <2>3, VectorLen DEF ChainShape
    <3> QED
      BY <3>1, <3>2, DefIs
  <2>5. Len(c.results) < Len(c.def.steps)
    BY <2>2, <2>4
  <2>6. CASE MaxAttempts(c.def) = 0
    <3>1. PICK r : r = [ok |-> FALSE, result |-> <<>>]
      OBVIOUS
    <3>2. chain' = StepDone(c, r)
      BY <1>3, <2>1, <2>6, <3>1 DEF ChainCall
    <3>3. r.ok \in BOOLEAN /\ ~ r.ok
      BY <3>1
    <3>4. /\ Cardinality(CallsOf(c, i)) = c.attempts
          /\ \A k \in CallsOf(c, i) : ~ c.calls[k].ok
          /\ c.attempts = 0 \/ c.attempts < MaxAttempts(c.def)
      BY <2>3 DEF ChainNow
    <3>5. Cardinality(CallsOf(c, i)) <= MaxAttempts(c.def)
      BY <2>4, <2>6, <3>4
    <3>6. ChainShape(StepDone(c, r)) /\ ChainSteps(StepDone(c, r)) /\ ChainNow(StepDone(c, r))
      BY <2>2, <2>3, <2>5, <3>3, <3>4, <3>5, StepDoneOk
    <3> QED
      BY <3>2, <3>6 DEF ChainOk
  <2>7. CASE MaxAttempts(c.def) # 0
    <3>1. PICK o \in Outcomes(step, text) :
            LET d == [c EXCEPT !.attempts = @ + 1,
                               !.calls = Append(@, [step |-> i, ok |-> o.ok, text |-> text])]
            IN  chain' = IF o.ok \/ d.attempts = MaxAttempts(c.def)
                           THEN StepDone(d, [ok |-> o.ok, result |-> o.result]) ELSE d
      BY <1>3, <2>1, <2>7 DEF ChainCall
    <3>2. PICK ok, t, r : ok = o.ok /\ t = text /\ r = [ok |-> o.ok, result |-> o.result]
      OBVIOUS
    <3>3. ok \in BOOLEAN
      <4> HIDE DEF step, text
      <4> QED
        BY <3>2, OutcomeOk
    <3>4. PICK d : d = Called(c, ok, t)
      OBVIOUS
    <3>5. chain' = IF ok \/ d.attempts = MaxAttempts(c.def) THEN StepDone(d, r) ELSE d
      BY <3>1, <3>2, <3>4 DEF Called
    <3> HIDE DEF step, text
    <3>6. /\ ChainShape(d) /\ ChainSteps(d) /\ ~ d.done
          /\ d.results = c.results /\ d.def = c.def /\ d.attempts = c.attempts + 1
          /\ Cardinality(CallsOf(d, i)) = d.attempts
          /\ d.attempts <= MaxAttempts(c.def)
          /\ \A k, l \in CallsOf(d, i) : k < l => ~ d.calls[k].ok
          /\ IF ok THEN \E k \in CallsOf(d, i) : d.calls[k].ok
             ELSE \A k \in CallsOf(d, i) : ~ d.calls[k].ok
      BY <2>2, <2>3, <2>5, <2>7, <3>3, <3>4, CalledOk
    <3>7. CASE ok \/ d.attempts = MaxAttempts(c.def)
      <4>1. r.ok = ok /\ r.ok \in BOOLEAN
        BY <3>2, <3>3
      <4>2. /\ Len(d.results) < Len(d.def.steps)
            /\ Cardinality(CallsOf(d, Len(d.results) + 1)) <= MaxAttempts(d.def)
            /\ \A k, l \in CallsOf(d, Len(d.results) + 1) : k < l => ~ d.calls[k].ok
            /\ r.ok => \E k \in CallsOf(d, Len(d.results) + 1) : d.calls[k].ok
        BY <2>5, <3>6, <4>1
      <4>3. /\ ChainShape(StepDone(d, r)) /\ ChainSteps(StepDone(d, r))
            /\ ChainNow(StepDone(d, r))
        BY <3>6, <4>1, <4>2, StepDoneOk
      <4> QED
        BY <3>5, <3>7, <4>3 DEF ChainOk
    <3>8. CASE ~ (ok \/ d.attempts = MaxAttempts(c.def))
      <4>1. d.attempts < MaxAttempts(d.def)
        BY <2>4, <3>6, <3>8
      <4>2. ChainNow(d)
        BY <3>6, <3>8, <4>1 DEF ChainNow
      <4> QED
        BY <3>5, <3>6, <3>8, <4>2 DEF ChainOk
    <3> QED
      BY <3>7, <3>8
  <2> QED
    BY <2>6, <2>7
<1>4. CASE RegisterBuiltinTools
  BY <1>1, <1>4 DEF RegisterBuiltinTools
<1>5. CASE SetManager
  BY <1>1, <1>5 DEF SetManager
<1>6. ASSUME NEW p \in Permissions, SetPermissionChecker(p) PROVE ChainOk'
  BY <1>1, <1>6 DEF SetPermissionChecker
<1>7. ASSUME NEW order \in SetToAllKPermutations(DOMAIN McpServers), DiscoverTools(order)
      PROVE  ChainOk'
  BY <1>1, <1>7 DEF DiscoverTools
<1> QED
  BY <1>2, <1>3, <1>4, <1>5, <1>6, <1>7 DEF ToolboxNext

(* A chain reports what its calls did.                                     *)
LEMMA ChainSound == ChainOk => ChainReport
<1> SUFFICES ASSUME ChainOk, chain.on PROVE ChainReport
  BY DEF ChainReport
<1>1. PICK c : c = chain
  OBVIOUS
<1>2. ChainShape(c) /\ ChainSteps(c) /\ ChainNow(c)
  BY <1>1 DEF ChainOk, NoChain
<1> DEFINE n == Len(c.results)
<1>3. /\ n \in Nat /\ DOMAIN c.results = 1 .. n /\ n <= Len(c.def.steps)
      /\ Len(c.def.steps) \in Nat /\ DOMAIN c.def.steps = 1 .. Len(c.def.steps)
      /\ MaxAttempts(c.def) \in Nat /\ c.attempts \in Nat
  <2>1. PICK def \in Chains : def = c.def
    BY <1>2 DEF ChainShape
  <2>2. n \in Nat /\ DOMAIN c.results = 1 .. n
    BY <1>2, VectorLen DEF ChainShape
  <2> QED
    BY <1>2, <2>1, <2>2, DefIs DEF ChainShape
<1>4. /\ \A i \in 1 .. n : StepOver(c, i)
      /\ c.success => \A i \in 1 .. n : c.results[i].ok
      /\ c.def.policy # "continue" =>
           \A i \in 1 .. n : ~ c.results[i].ok => i = n /\ c.done
      /\ c.done => ~ c.success \/ n = Len(c.def.steps)
  BY <1>2 DEF ChainSteps
<1>5. /\ Cardinality(CallsOf(c, n + 1)) = c.attempts
      /\ \A k \in CallsOf(c, n + 1) : ~ c.calls[k].ok
      /\ c.attempts = 0 \/ c.attempts < MaxAttempts(c.def)
  BY <1>2 DEF ChainNow
<1>6. \A k \in DOMAIN c.calls : c.calls[k].step \in 1 .. n + 1
  BY <1>2 DEF ChainShape
<1> HIDE DEF n
<1>7. ASSUME NEW i \in DOMAIN c.def.steps
      PROVE  /\ Cardinality(CallsOf(c, i)) <= MaxAttempts(c.def)
             /\ \A k, l \in CallsOf(c, i) : k < l => ~ c.calls[k].ok
  <2>1. CASE i \in 1 .. n
    BY <1>4, <2>1 DEF StepOver
  <2>2. CASE i = n + 1
    BY <1>3, <1>5, <2>2
  <2>3. CASE i > n + 1
    <3>1. CallsOf(c, i) = {}
      <4>1. ~ \E k \in DOMAIN c.calls : c.calls[k].step = i
        BY <1>3, <1>6, <2>3
      <4> QED
        BY <4>1 DEF CallsOf
    <3> QED
      BY <1>3, <3>1, FS_EmptySet
  <2> QED
    BY <1>3, <2>1, <2>2, <2>3
<1>8. c.done /\ c.success =>
        \A i \in DOMAIN c.def.steps : \E k \in CallsOf(c, i) : c.calls[k].ok
  BY <1>3, <1>4 DEF StepOver
<1>9. c.def.policy # "continue" =>
        \A i \in DOMAIN c.results : ~ c.results[i].ok => i = Len(c.results) /\ c.done
  BY <1>3, <1>4 DEF n
<1> DEFINE of(i) == {k \in DOMAIN chain.calls : chain.calls[k].step = i}
<1>10. \A i : CallsOf(c, i) = of(i)
  BY <1>1 DEF CallsOf
<1> HIDE DEF of
<1>11. \A i \in DOMAIN chain.def.steps :
         /\ Cardinality(of(i)) <= MaxAttempts(chain.def)
         /\ \A k, l \in of(i) : k < l => ~ chain.calls[k].ok
  BY <1>1, <1>7, <1>10
<1>12. chain.done /\ chain.success =>
         \A i \in DOMAIN chain.def.steps : \E k \in of(i) : chain.calls[k].ok
  BY <1>1, <1>8, <1>10
<1>13. chain.def.policy # "continue" =>
         \A i \in DOMAIN chain.results :
           ~ chain.results[i].ok => i = Len(chain.results) /\ chain.done
  BY <1>1, <1>9
<1> QED
  BY <1>11, <1>12, <1>13 DEF ChainReport, of

(* What a model is offered it may use, and a chain reports what it did: in *)
(* every state of a registry whose tools come and go with servers and      *)
(* permission lists, and of a chain's retries (ToolRegistry,               *)
(* MCPToolManager, ToolChainExecutor::Execute).                            *)
THEOREM ToolboxAlwaysSound == ToolboxSpec => []ToolboxSound
<1> DEFINE IInv == OfferedOk /\ ChainOk
<1>1. ToolboxInit => IInv
  <2>1. ToolboxInit => ChainOk
    BY DEF ToolboxInit, ChainOk
  <2> QED
    BY <2>1, OfferedInit
<1>2. IInv /\ [ToolboxNext]_toolboxVars => IInv'
  <2>1. IInv /\ UNCHANGED toolboxVars => IInv'
    BY DEF toolboxVars, OfferedOk, ChainOk
  <2> QED
    BY <2>1, OfferedStep, ChainStep
<1>3. IInv => ToolboxSound
  BY OfferedSound, ChainSound DEF ToolboxSound
<1> QED
  BY <1>1, <1>2, <1>3, PTL DEF ToolboxSpec
=============================================================================
