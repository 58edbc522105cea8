------------------------------ MODULE Browser ------------------------------
(***************************************************************************)
(* BrowserSession (src/tools/browser_tool.cpp): the browser process or the  *)
(* remote browser, the DevTools socket, and the calls of several agent      *)
(* threads that share one session.  ix::WebSocket runs the callback on its  *)
(* own thread and reconnects by itself until stop(); what was on the wire   *)
(* is then lost.                                                           *)
(*                                                                         *)
(* A URL is its host.  A reply carries the request it answers.              *)
(***************************************************************************)
EXTENDS Naturals, FiniteSets

CONSTANTS
  BrowserThread,  \* agent threads
  Hosts,          \* hosts a navigation may name
  Blocked,        \* blocked_hosts and blocked_ranges
  Allowed,        \* allowed_hosts
  MaxCdp,         \* bound: commands sent
  MaxInits,       \* bound: calls of initialize
  MaxDrops        \* bound: connections lost

ASSUME BrowserAssumption ==
  /\ Blocked \subseteq Hosts /\ Allowed \subseteq Hosts
  /\ {MaxCdp, MaxInits, MaxDrops} \subseteq Nat

VARIABLES
  brInit,      \* initialize: where it is, and the mode of config_
  brPid,       \* is browser_pid_ valid?
  brSocket,    \* cdp_ws_: "stopped", "connecting", "open"
  brRunning,   \* connection_.is_running
  brIds,       \* cdp_id_
  brPending,   \* cdp_pending_ids_
  brReplies,   \* cdp_responses_: id |-> reply
  brWire,      \* requests and replies under way
  brUrl,       \* state_.url
  brDrops,     \* connections lost so far
  brCall       \* per thread: its call

linkVars    == <<brInit, brPid, brSocket, brRunning, brDrops>>
cdpVars     == <<brIds, brPending, brReplies, brWire>>
browserVars == <<linkVars, cdpVars, brUrl, brCall>>

NoBrowserCall == [pc |-> "idle", op |-> "none", id |-> 0, result |-> "none", of |-> <<0, "none">>]

BrowserInit ==
  /\ brInit = [pc |-> "idle", mode |-> "none", count |-> 0]
  /\ brPid = FALSE /\ brSocket = "stopped" /\ brRunning = FALSE /\ brDrops = 0
  /\ brIds = 0 /\ brPending = {} /\ brReplies = [i \in {} |-> "none"] /\ brWire = {}
  /\ brUrl = "none" /\ brCall = [t \in BrowserThread |-> NoBrowserCall]

(***************************************************************************)
(* initialize and close, called by the owner of the session.                *)
(***************************************************************************)
\* The state close() leaves: the socket stopped, the process killed.
Closed ==
  /\ brSocket' = "stopped" /\ brWire' = {}
  /\ brPid' = FALSE /\ brRunning' = FALSE

close ==
  /\ brInit.pc = "idle" /\ Closed
  /\ UNCHANGED <<brInit, brIds, brPending, brReplies, brUrl, brDrops, brCall>>

\* launch_local: no binary or no process, or one that is waited for.
launch_local(spawned) ==
  /\ brInit.pc = "idle" /\ brInit.count < MaxInits
  /\ brInit' = [pc |-> IF spawned THEN "launched" ELSE "idle", mode |-> "local",
                count |-> brInit.count + 1]
  /\ brPid' = (spawned \/ brPid)
  /\ UNCHANGED <<brSocket, brRunning, brDrops, cdpVars, brUrl, brCall>>

\* cdp_ws_.start(), which does nothing to a socket that runs.
Started == IF brSocket = "stopped" THEN "connecting" ELSE brSocket

\* The endpoint answers within 25 attempts, or the browser is closed again.
EndpointReady(ready) ==
  /\ brInit.pc = "launched"
  /\ IF ready
     THEN /\ brInit' = [brInit EXCEPT !.pc = "connecting"] /\ brSocket' = Started
          /\ UNCHANGED <<brPid, brRunning, brWire>>
     ELSE brInit' = [brInit EXCEPT !.pc = "idle"] /\ Closed
  /\ UNCHANGED <<brDrops, brIds, brPending, brReplies, brUrl, brCall>>

\* connect_remote: the URL resolves to that of a socket, or nothing is done.
connect_remote(resolved) ==
  /\ brInit.pc = "idle" /\ brInit.count < MaxInits
  /\ brInit' = [pc |-> IF resolved THEN "connecting" ELSE "idle", mode |-> "remote",
                count |-> brInit.count + 1]
  /\ brSocket' = IF resolved THEN Started ELSE brSocket
  /\ UNCHANGED <<brPid, brRunning, brDrops, cdpVars, brUrl, brCall>>

\* connect_cdp_websocket: three seconds for the socket to open.  Only the
\* local mode closes the session when it does not.
Connected(opened) ==
  /\ brInit.pc = "connecting"
  /\ opened => brSocket = "open"
  /\ brInit' = [brInit EXCEPT !.pc = "idle"]
  /\ IF opened THEN brRunning' = TRUE /\ UNCHANGED <<brPid, brSocket, brWire>>
     ELSE IF brInit.mode = "local" THEN Closed
     ELSE brSocket' = "stopped" /\ brWire' = {} /\ UNCHANGED <<brPid, brRunning>>
  /\ UNCHANGED <<brDrops, brIds, brPending, brReplies, brUrl, brCall>>

(***************************************************************************)
(* The socket and the browser behind it.                                   *)
(***************************************************************************)
SocketOpens ==
  /\ brSocket = "connecting" /\ brSocket' = "open"
  /\ UNCHANGED <<brInit, brPid, brRunning, brDrops, cdpVars, brUrl, brCall>>

SocketDrops ==
  /\ brSocket = "open" /\ brDrops < MaxDrops
  /\ brSocket' = "connecting" /\ brWire' = {} /\ brDrops' = brDrops + 1
  /\ UNCHANGED <<brInit, brPid, brRunning, brIds, brPending, brReplies, brUrl, brCall>>

\* The browser answers a request, with a result or an error.
BrowserAnswers(m, result) ==
  /\ m \in brWire /\ m.to = "browser"
  /\ brWire' = (brWire \ {m}) \cup {[m EXCEPT !.to = "session", !.reply = result]}
  /\ UNCHANGED <<linkVars, brIds, brPending, brReplies, brUrl, brCall>>

Store(m) == brReplies' = [i \in DOMAIN brReplies \cup {m.id} |-> IF i = m.id THEN m ELSE brReplies[i]]

\* Mutant: every reply is stored.
OnMessage_StoresAll(m) ==
  /\ m \in brWire /\ m.to = "session"
  /\ brWire' = brWire \ {m} /\ Store(m)
  /\ UNCHANGED <<linkVars, brIds, brPending, brUrl, brCall>>

\* The message callback: a reply is stored while its request is in flight.
OnMessage(m) ==
  /\ m \in brWire /\ m.to = "session"
  /\ brWire' = brWire \ {m}
  /\ IF m.id \in brPending THEN Store(m) ELSE UNCHANGED brReplies
  /\ UNCHANGED <<linkVars, brIds, brPending, brUrl, brCall>>

(***************************************************************************)
(* The calls of the executor.                                              *)
(***************************************************************************)
is_allowed(host) == host \notin Blocked /\ (Allowed = {} \/ host \in Allowed)

\* create_executor: navigate asks the policy first, and fails if it says no.
Execute(t, op) ==
  /\ brCall[t].pc = "idle"
  /\ op \in Hosts => is_allowed(op)
  /\ brCall' = [brCall EXCEPT ![t].pc = "send", ![t].op = op]
  /\ UNCHANGED <<linkVars, cdpVars, brUrl>>

\* cdp_send while not connected: "{}", which its callers take for an answer.
NotConnected(t) ==
  /\ brCall[t].pc = "send" /\ (~brRunning \/ brSocket # "open")
  /\ brCall' = [brCall EXCEPT ![t].pc = "use", ![t].result = "empty"]
  /\ UNCHANGED <<linkVars, cdpVars, brUrl>>

\* The id is taken and registered before the request is sent.
Register(t) ==
  /\ brCall[t].pc = "send" /\ brRunning /\ brSocket = "open" /\ brIds < MaxCdp
  /\ brIds' = brIds + 1 /\ brPending' = brPending \cup {brIds + 1}
  /\ brCall' = [brCall EXCEPT ![t].pc = "registered", ![t].id = brIds + 1]
  /\ UNCHANGED <<linkVars, brReplies, brWire, brUrl>>

\* The socket may have closed since: the request is then lost.
Send(t) ==
  /\ brCall[t].pc = "registered"
  /\ brWire' = IF brSocket = "open"
               THEN brWire \cup {[id |-> brCall[t].id, op |-> brCall[t].op,
                                  to |-> "browser", reply |-> "none"]}
               ELSE brWire
  /\ brCall' = [brCall EXCEPT ![t].pc = "wait"]
  /\ UNCHANGED <<linkVars, brIds, brPending, brReplies, brUrl>>

Forget(id) ==
  /\ brPending' = brPending \ {id}
  /\ brReplies' = [i \in DOMAIN brReplies \ {id} |-> brReplies[i]]

Answered(t) ==
  LET c == brCall[t]
  IN /\ c.pc = "wait" /\ c.id \in DOMAIN brReplies
     /\ Forget(c.id)
     /\ brCall' = [brCall EXCEPT ![t].pc = "use",
          ![t].result = IF brReplies[c.id].reply = "error" THEN "empty" ELSE "result",
          ![t].of = <<brReplies[c.id].id, brReplies[c.id].op>>]
     /\ UNCHANGED <<linkVars, brIds, brWire, brUrl>>

\* navigation_timeout_ms passes; the predicate is looked at once more.
TimesOut(t) ==
  /\ brCall[t].pc = "wait" /\ brCall[t].id \notin DOMAIN brReplies
  /\ Forget(brCall[t].id)
  /\ brCall' = [brCall EXCEPT ![t].pc = "use", ![t].result = "empty"]
  /\ UNCHANGED <<linkVars, brIds, brWire, brUrl>>

\* navigate keeps the URL whatever came back: "{}" is not an empty string.
CallReturns(t) ==
  /\ brCall[t].pc = "use"
  /\ brCall' = [brCall EXCEPT ![t] = NoBrowserCall]
  /\ brUrl' = IF brCall[t].op \in Hosts THEN brCall[t].op ELSE brUrl
  /\ UNCHANGED <<linkVars, cdpVars>>

BrowserNext ==
  \/ close \/ SocketOpens \/ SocketDrops
  \/ \E b \in BOOLEAN : launch_local(b) \/ EndpointReady(b) \/ connect_remote(b) \/ Connected(b)
  \/ \E m \in brWire : OnMessage(m) \/ \E r \in {"result", "error"} : BrowserAnswers(m, r)
  \/ \E t \in BrowserThread :
       \/ \E op \in Hosts \cup {"evaluate"} : Execute(t, op)
       \/ NotConnected(t) \/ Register(t) \/ Send(t) \/ Answered(t) \/ TimesOut(t) \/ CallReturns(t)

(***************************************************************************)
(* Properties.                                                             *)
(***************************************************************************)
\* The maps of the session hold exactly what its waiting calls need, however
\* late a reply comes, the socket drops or the session is closed under a
\* call: a reply is kept only for a call that still waits for it, and a call
\* takes the reply to its own request (browser_tool.cpp:337, 397).
RepliesMatched ==
  /\ brPending = {brCall[t].id : t \in {u \in BrowserThread : brCall[u].pc \in {"registered", "wait"}}}
  /\ DOMAIN brReplies \subseteq brPending
  /\ \A t \in BrowserThread :
       brCall[t].result = "result" => brCall[t].of = <<brCall[t].id, brCall[t].op>>
=============================================================================
