------------------------------- MODULE Gateway -------------------------------
(***************************************************************************)
(* The WebSocket gateway (src/gateway/gateway_server.cpp), its rate limiter *)
(* and scope check (src/security/), and one GatewayClient                   *)
(* (src/gateway/gateway_client.cpp) whose calls come from several threads.  *)
(* A "peer" is any other program that talks to the gateway.                 *)
(*                                                                         *)
(* ixwebsocket (external) runs the callbacks of one connection on one       *)
(* thread, never gives an id twice, keeps the order of frames until the     *)
(* link is cut, and opens a new link for a client that lost its own.        *)
(* A frame is handled in one step: what its handler reads is only changed   *)
(* by the same thread.  The client's two mutexes are modelled, because its  *)
(* caller and its socket thread take them in different orders.              *)
(***************************************************************************)
EXTENDS Integers, Sequences, FiniteSets

CONSTANTS
  Caller,           \* threads that use the client
  TokenOk,          \* does the client know the gateway's token?
  max_requests,     \* RateLimiter::Config
  window_seconds,
  burst_max,
  Sides,            \* who uses the gateway: "client", "peer"
  PeerRequests,     \* what a peer may send: methods and hellos
  CallMethods,      \* the methods the client's threads call
  MaxConns,         \* bound: links ever opened
  MaxIds,           \* bound: request_counter_ of the client
  MaxPeerFrames,    \* bound: frames a peer sends
  MaxInFlight,      \* bound: frames of a peer not yet read
  MaxTicks          \* bound: seconds

Conn == 1 .. MaxConns
Id   == 0 .. MaxIds          \* request ids; a peer's are all 0

\* window_seconds is 60 in RateLimiter::Config and where the gateway sets it.
ASSUME GatewayAssumption ==
  /\ {max_requests, burst_max} \subseteq Nat /\ window_seconds \in Nat \ {0}
  /\ {MaxConns, MaxIds, MaxPeerFrames, MaxInFlight, MaxTicks} \subseteq Nat
  /\ TokenOk \in BOOLEAN

VARIABLES
  server,     \* "new", "running", "closing" (in Stop) or "stopped"
  auth_mode,  \* auth_mode_, set before the server starts
  link,       \* per connection: "none", "open" or "cut"
  owner,      \* per connection: "client" or "peer"
  conns,      \* connections_ and ws_connections_
  toServer,   \* frames on their way to the server
  toClient,   \* frames on their way to the client
  windows,    \* RateLimiter::windows_
  threads,    \* async handler threads that still run, by request
  now,        \* seconds
  client,     \* members of the GatewayClient
  pending,    \* pending_calls_: "none", "wait" or "done" per request id
  call,       \* per caller: where it is in Call
  reader,     \* the client's socket thread: the frame it resolves under
              \* pending_mutex_, or NoFrame
  peerSent,   \* frames sent by peers
  accepted,   \* history: when the limiter let a request of a connection pass
  answered    \* history: responses sent per connection and request

serverVars == <<server, auth_mode, conns, windows, threads, accepted, answered>>
clientVars == <<client, pending, call, reader>>
wire       == <<link, owner, toServer, toClient>>
vars == <<serverVars, clientVars, wire, now, peerSent>>

(***************************************************************************)
(* Frames and records (protocol.hpp).                                      *)
(***************************************************************************)
Hello(id, good, scopes) ==
  [type |-> "hello", id |-> id, method |-> "connect.hello", good |-> good,
   scopes |-> scopes]
Request(id, method) ==
  [type |-> "req", id |-> id, method |-> method, good |-> FALSE, scopes |-> {}]
Response(id, method, code) ==
  [type |-> "res", id |-> id, method |-> method, code |-> code]
Event(id) ==
  [type |-> "event", id |-> id, method |-> "agent.text_delta", code |-> "ok"]
Challenge ==
  [type |-> "challenge", id |-> 0, method |-> "connect.challenge", code |-> "ok"]
NoFrame == Response(0, "none", "none")

NoCall == [pc |-> "idle", id |-> 0, method |-> "none", answer |-> NoFrame]

NoClient  == [present |-> FALSE, authenticated |-> FALSE, scopes |-> {}]
Unknown   == [present |-> TRUE, authenticated |-> FALSE, scopes |-> {}]

(***************************************************************************)
(* Scopes (rbac.cpp).                                                      *)
(***************************************************************************)
ReadScopes  == {"operator.read", "operator.write", "operator.admin",
                "node.read", "node.execute"}
WriteScopes == {"operator.write", "operator.admin"}

\* Frames to the server; a scope of no row of the table opens nothing.
Method == {f.method : f \in PeerRequests} \cup CallMethods \cup {"connect.hello"}
RequestFrame ==
  [type : {"hello", "req", "res"}, id : Id, method : Method, good : BOOLEAN,
   scopes : SUBSET ReadScopes]

ASSUME PeerAssumption == PeerRequests \subseteq {f \in RequestFrame : f.id = 0}

AgentScopes == WriteScopes \cup {"node.execute"}

\* One method stands for each row of the table; config.apply is in none.
method_scopes ==
  [m \in {"gateway.status", "config.set", "agent.request", "connect.hello"} |->
     CASE m = "gateway.status" -> ReadScopes
       [] m = "config.set"     -> WriteScopes
       [] m = "agent.request"  -> AgentScopes
       [] OTHER                -> {}]

IsAllowed(method, scopes) ==
  IF method \notin DOMAIN method_scopes THEN "operator.admin" \in scopes
  ELSE method_scopes[method] = {} \/ method_scopes[method] \cap scopes # {}

DefaultScopes == {"operator.read", "operator.write", "operator.admin"}

(***************************************************************************)
(* The rate limiter.                                                       *)
(***************************************************************************)
\* pop_front while the front entry is older than cutoff.
purge_before(w, cutoff) ==
  LET kept == {i \in DOMAIN w : w[i] >= cutoff} \cup {Len(w) + 1}
  IN  SubSeq(w, CHOOSE i \in kept : \A j \in kept : i <= j, Len(w))

\* Mutant: an entry as old as the window is purged.
purge_old_Closed(w, t) == purge_before(w, t - window_seconds + 1)

\* The entries of w that count at time t.
purge_old(w, t) == purge_before(w, t - window_seconds)

\* The entries of the last second; entries are in order, so that counting
\* from the back stops at the first older one.
BurstCount(w) == Cardinality({i \in DOMAIN w : w[i] >= now - 1})

Allow(w) ==
  /\ Len(purge_old(w, now)) < max_requests
  /\ burst_max = 0 \/ BurstCount(purge_old(w, now)) < burst_max

AfterAllow(w) ==
  IF Allow(w) THEN Append(purge_old(w, now), now) ELSE purge_old(w, now)

\* Seconds until a slot of the window is free, told to a refused client.
RetryAfter(w) ==
  LET v == purge_old(w, now)
  IN  IF w = <<>> \/ Len(v) < max_requests \/ Head(v) + window_seconds <= now THEN 0
      ELSE Head(v) + window_seconds - now + 1

(***************************************************************************)
(* The server.                                                             *)
(***************************************************************************)
Handlers == {"gateway.status", "config.set", "agent.request", "config.apply"}
AsyncMethods == {"agent.request"}

\* Frames a peer gets are not followed any further.
Put(out, c, f) ==
  IF link[c] = "open" /\ owner[c] = "client"
    THEN [out EXCEPT ![c] = Append(@, f)] ELSE out

Answer(c, f) ==
  /\ toClient' = Put(toClient, c, f)
  /\ answered' = [answered EXCEPT ![c][f.id] = @ + 1]

Start ==
  /\ server = "new"
  /\ server' = "running"
  /\ UNCHANGED <<auth_mode, conns, windows, threads, accepted, answered,
                 clientVars, wire, now, peerSent>>

\* The Open callback registers the connection and sends the challenge.
OnOpen(c) ==
  /\ link[c] = "open" /\ ~ conns[c].present /\ server = "running"
  /\ conns' = [conns EXCEPT ![c] = Unknown]
  /\ toClient' = Put(toClient, c, Challenge)
  /\ UNCHANGED <<server, auth_mode, windows, threads, accepted, answered,
                 clientVars, link, owner, toServer, now, peerSent>>

\* The Close callback.  Frames that were not read yet are gone.
OnClose(c) ==
  /\ link[c] = "cut" /\ conns[c].present
  /\ conns' = [conns EXCEPT ![c] = NoClient]
  /\ toServer' = [toServer EXCEPT ![c] = <<>>]
  /\ UNCHANGED <<server, auth_mode, windows, threads, accepted, answered,
                 clientVars, link, owner, toClient, now, peerSent>>

\* handle_hello, for connect.hello and connect.
HandleHello(c) ==
  LET f  == Head(toServer[c])
      ok == auth_mode = "none" \/ f.good
  IN  /\ toServer[c] # <<>> /\ f.type = "hello" /\ conns[c].present
      /\ toServer' = [toServer EXCEPT ![c] = Tail(@)]
      /\ conns' = IF ok
           THEN [conns EXCEPT ![c] =
                  [present |-> TRUE, authenticated |-> TRUE,
                   scopes |-> IF f.scopes = {} THEN DefaultScopes ELSE f.scopes]]
           ELSE conns
      /\ Answer(c, Response(f.id, f.method, IF ok THEN "ok" ELSE "AUTH_FAILED"))
      /\ UNCHANGED <<server, auth_mode, windows, threads, accepted,
                     clientVars, link, owner, now, peerSent>>

\* The checks of handle_rpc_request, in their order.
Verdict(c, method) ==
  CASE method \notin Handlers -> "METHOD_NOT_FOUND"
    [] method \in Handlers /\ auth_mode # "none" /\ ~ conns[c].authenticated
         -> "NOT_AUTHENTICATED"
    [] method \in Handlers
         /\ conns[c].authenticated /\ ~ IsAllowed(method, conns[c].scopes)
         -> "PERMISSION_DENIED"
    [] OTHER -> "checked"

\* A request that a check refuses.  Unexpected frames are dropped.
RefuseRequest(c) ==
  LET f == Head(toServer[c])
  IN  /\ toServer[c] # <<>> /\ f.type # "hello" /\ conns[c].present
      /\ toServer' = [toServer EXCEPT ![c] = Tail(@)]
      /\ \/ /\ f.type = "req" /\ Verdict(c, f.method) # "checked"
            /\ Answer(c, Response(f.id, f.method, Verdict(c, f.method)))
            /\ UNCHANGED windows
         \/ /\ f.type = "req" /\ Verdict(c, f.method) = "checked"
            /\ ~ Allow(windows[c])
            /\ windows' = [windows EXCEPT ![c] = AfterAllow(@)]
            /\ Answer(c, Response(f.id, f.method, "RATE_LIMITED"))
         \/ /\ f.type # "req"
            /\ UNCHANGED <<toClient, answered, windows>>
      /\ UNCHANGED <<server, auth_mode, conns, threads, accepted,
                     clientVars, link, owner, now, peerSent>>

\* A request that passes: an async method gets a thread, another one is
\* answered here, with a result or with the handler's exception.
RunRequest(c, code) ==
  LET f == Head(toServer[c])
  IN  /\ toServer[c] # <<>> /\ f.type = "req" /\ conns[c].present
      /\ Verdict(c, f.method) = "checked" /\ Allow(windows[c])
      /\ toServer' = [toServer EXCEPT ![c] = Tail(@)]
      /\ windows' = [windows EXCEPT ![c] = AfterAllow(@)]
      /\ accepted' = [accepted EXCEPT ![c] = Append(@, now)]
      /\ \/ /\ f.method \in AsyncMethods /\ code = "ok"
            /\ threads' = threads \cup {[conn |-> c, id |-> f.id, said |-> 0]}
            /\ UNCHANGED <<toClient, answered>>
         \/ /\ f.method \notin AsyncMethods
            /\ Answer(c, Response(f.id, f.method, code))
            /\ UNCHANGED threads
      /\ UNCHANGED <<server, auth_mode, conns, clientVars, link, owner, now, peerSent>>

\* SendEventTo from a running handler, dropped when the connection is gone.
StreamEvent(t) ==
  /\ t.said = 0
  /\ threads' = (threads \ {t}) \cup {[t EXCEPT !.said = 1]}
  /\ toClient' = IF conns[t.conn].present THEN Put(toClient, t.conn, Event(t.id))
                 ELSE toClient
  /\ UNCHANGED <<server, auth_mode, conns, windows, accepted, answered,
                 clientVars, link, owner, toServer, now, peerSent>>

\* Mutant: a handler that throws has already sent a response.
HandlerReturns_Twice(t, code) ==
  /\ threads' = threads \ {t}
  /\ toClient' = Put(toClient, t.conn, Response(t.id, "agent.request", code))
  /\ answered' = [answered EXCEPT ![t.conn][t.id] = IF code = "ok" THEN @ + 1 ELSE @ + 2]
  /\ UNCHANGED <<server, auth_mode, conns, windows, accepted,
                 clientVars, link, owner, toServer, now, peerSent>>

\* The handler returns or throws: SendResponseTo.
HandlerReturns(t, code) ==
  /\ threads' = threads \ {t}
  /\ IF conns[t.conn].present
       THEN Answer(t.conn, Response(t.id, "agent.request", code))
       ELSE UNCHANGED <<toClient, answered>>
  /\ UNCHANGED <<server, auth_mode, conns, windows, accepted,
                 clientVars, link, owner, toServer, now, peerSent>>

\* Stop closes every link and waits for the threads of the connections ...
StopServer ==
  /\ server = "running"
  /\ server' = "closing"
  /\ link' = [c \in Conn |-> IF link[c] = "open" THEN "cut" ELSE link[c]]
  /\ UNCHANGED <<auth_mode, conns, windows, threads, accepted, answered,
                 clientVars, owner, toServer, toClient, now, peerSent>>

\* ... joins the handler threads and clears the tables.
StopJoin ==
  /\ server = "closing"
  /\ \A c \in Conn : ~ conns[c].present
  /\ threads = {}
  /\ server' = "stopped"
  /\ UNCHANGED <<auth_mode, conns, windows, threads, accepted, answered,
                 clientVars, wire, now, peerSent>>

(***************************************************************************)
(* The client.  conn is the link in use, 0 for none; phase follows Connect *)
(* and Disconnect.                                                         *)
(***************************************************************************)
NextConn == Cardinality({c \in Conn : link[c] # "none"}) + 1

\* Connect starts the socket; the socket thread opens a link, also when an
\* earlier one was cut.
Connect ==
  /\ client.phase = "new"
  /\ client' = [client EXCEPT !.phase = "connecting"]
  /\ UNCHANGED <<serverVars, pending, call, reader, wire, now, peerSent>>

\* Mutant: request ids begin again with every link.
OpenLink_RestartsIds ==
  /\ client.phase \in {"connecting", "hello", "ready"} /\ client.conn = 0
  /\ server = "running" /\ NextConn \in Conn
  /\ link' = [link EXCEPT ![NextConn] = "open"]
  /\ owner' = [owner EXCEPT ![NextConn] = "client"]
  /\ client' = [client EXCEPT !.conn = NextConn, !.connected = TRUE, !.counter = 0]
  /\ UNCHANGED <<serverVars, pending, call, reader, toServer, toClient, now, peerSent>>

OpenLink ==
  /\ client.phase \in {"connecting", "hello", "ready"} /\ client.conn = 0
  /\ server = "running" /\ NextConn \in Conn
  /\ link' = [link EXCEPT ![NextConn] = "open"]
  /\ owner' = [owner EXCEPT ![NextConn] = "client"]
  /\ client' = [client EXCEPT !.conn = NextConn, !.connected = TRUE]
  /\ UNCHANGED <<serverVars, pending, call, reader, toServer, toClient, now, peerSent>>

\* Connect goes on when it sees the connection, gives up at its deadline, and
\* returns when the handshake is over or has taken too long.
ConnectSteps ==
  /\ \/ /\ client.phase = "connecting" /\ client.connected
        /\ client' = [client EXCEPT !.phase = "hello"]
     \/ /\ client.phase = "connecting" /\ ~ client.connected
        /\ client' = [client EXCEPT !.phase = "down"]
     \/ /\ client.phase = "hello"
        /\ client' = [client EXCEPT !.phase = "ready"]
  /\ UNCHANGED <<serverVars, pending, call, reader, wire, now, peerSent>>

\* Disconnect stops the socket and joins its thread, which must be outside a
\* frame.
Disconnect ==
  /\ client.phase = "ready" /\ client.connected /\ reader = NoFrame
  /\ \A k \in Caller : call[k].pc = "idle"
  /\ link' = IF client.conn # 0 THEN [link EXCEPT ![client.conn] = "cut"] ELSE link
  /\ client' = [client EXCEPT !.phase = "down", !.conn = 0, !.connected = FALSE,
                              !.authenticated = FALSE]
  /\ UNCHANGED <<serverVars, pending, call, reader, owner, toServer, toClient,
                 now, peerSent>>

\* The Close event of the socket; frames behind it are lost.
ClientClosed ==
  /\ client.conn # 0 /\ link[client.conn] = "cut" /\ reader = NoFrame
  /\ client' = [client EXCEPT !.conn = 0, !.connected = FALSE,
                              !.authenticated = FALSE, !.helloDone = TRUE]
  /\ toClient' = [toClient EXCEPT ![client.conn] = <<>>]
  /\ UNCHANGED <<serverVars, pending, call, reader, link, owner, toServer, now, peerSent>>

Incoming == IF client.conn # 0 /\ reader = NoFrame THEN toClient[client.conn] ELSE <<>>

Send(f) == toServer' = IF client.conn # 0 /\ link[client.conn] = "open"
                         THEN [toServer EXCEPT ![client.conn] = Append(@, f)]
                         ELSE toServer

\* The challenge is answered with a hello; other events go to subscribers.
ClientEvent ==
  /\ Incoming # <<>> /\ Head(Incoming).type \in {"challenge", "event"}
  /\ toClient' = [toClient EXCEPT ![client.conn] = Tail(@)]
  /\ \/ /\ Head(Incoming).type = "challenge" /\ client.counter < MaxIds
        /\ client' = [client EXCEPT !.counter = @ + 1, !.helloId = client.counter + 1]
        /\ Send(Hello(client.counter + 1, TokenOk, {"operator.read", "operator.write"}))
     \/ /\ Head(Incoming).type = "event"
        /\ UNCHANGED <<client, toServer>>
  /\ UNCHANGED <<serverVars, pending, call, reader, link, owner, now, peerSent>>

\* A response: it may end the handshake; then pending_mutex_ is taken, and if
\* a call waits for it the thread goes on to lock that call.
ClientResponse ==
  LET f == Head(Incoming)
      hello == ~ client.helloDone /\ f.id = client.helloId
  IN  /\ Incoming # <<>> /\ f.type = "res"
      /\ toClient' = [toClient EXCEPT ![client.conn] = Tail(@)]
      /\ client' = IF hello THEN [client EXCEPT !.helloDone = TRUE,
                                    !.authenticated = @ \/ f.code = "ok"] ELSE client
      /\ reader' = IF pending[f.id] # "none" THEN f ELSE NoFrame
      /\ UNCHANGED <<serverVars, pending, call, link, owner, toServer, now, peerSent>>

\* The thread has pending_mutex_ and gets the call's mtx: not while its caller
\* holds it at the end of a wait.
Deliver ==
  /\ reader # NoFrame
  /\ \E k \in Caller :
       /\ call[k].id = reader.id /\ call[k].pc = "wait"
       /\ call' = [call EXCEPT ![k].answer = reader]
       /\ pending' = [pending EXCEPT ![call[k].id] = "done"]
  /\ reader' = NoFrame
  /\ UNCHANGED <<serverVars, client, wire, now, peerSent>>

\* Call: an id, an entry in pending_calls_, the request.
StartCall(k, method) ==
  LET id == client.counter + 1
  IN  /\ call[k].pc = "idle" /\ client.phase = "ready" /\ client.connected
      /\ reader = NoFrame /\ id <= MaxIds
      /\ client' = [client EXCEPT !.counter = id]
      /\ pending' = [pending EXCEPT ![id] = "wait"]
      /\ Send(Request(id, method))
      /\ call' = [call EXCEPT ![k] = [pc |-> "wait", id |-> id, method |-> method,
                                      answer |-> NoFrame]]
      /\ UNCHANGED <<serverVars, reader, link, owner, toClient, now, peerSent>>

\* The wait ends with a response: the entry is erased under pending_mutex_, and
\* Call returns the payload or throws the error.
FinishCall(k) ==
  /\ call[k].pc = "wait" /\ pending[call[k].id] = "done" /\ reader = NoFrame
  /\ pending' = [pending EXCEPT ![call[k].id] = "none"]
  /\ call' = [call EXCEPT ![k] = NoCall]
  /\ UNCHANGED <<serverVars, client, reader, wire, now, peerSent>>

\* The wait ends at its deadline, and the caller keeps mtx ...
CallExpires(k) ==
  /\ call[k].pc = "wait" /\ pending[call[k].id] = "wait"
  /\ call' = [call EXCEPT ![k].pc = "expired"]
  /\ UNCHANGED <<serverVars, client, pending, reader, wire, now, peerSent>>

\* ... while it takes pending_mutex_ to erase the entry.
EraseCall(k) ==
  /\ call[k].pc = "expired" /\ reader = NoFrame
  /\ pending' = [pending EXCEPT ![call[k].id] = "none"]
  /\ call' = [call EXCEPT ![k] = NoCall]
  /\ UNCHANGED <<serverVars, client, reader, wire, now, peerSent>>

(***************************************************************************)
(* Peers, the network and time (external).                                 *)
(***************************************************************************)
PeerOpens ==
  /\ server = "running" /\ NextConn \in Conn /\ peerSent < MaxPeerFrames
  /\ \A c \in Conn : owner[c] = "peer" => link[c] # "open"
  /\ link' = [link EXCEPT ![NextConn] = "open"]
  /\ owner' = [owner EXCEPT ![NextConn] = "peer"]
  /\ UNCHANGED <<serverVars, clientVars, toServer, toClient, now, peerSent>>

PeerSends(c) ==
  /\ link[c] = "open" /\ owner[c] = "peer" /\ peerSent < MaxPeerFrames
  /\ Len(toServer[c]) < MaxInFlight
  /\ \E f \in PeerRequests : toServer' = [toServer EXCEPT ![c] = Append(@, f)]
  /\ peerSent' = peerSent + 1
  /\ UNCHANGED <<serverVars, clientVars, link, owner, toClient, now>>

CutLink(c) ==
  /\ link[c] = "open"
  /\ link' = [link EXCEPT ![c] = "cut"]
  /\ UNCHANGED <<serverVars, clientVars, owner, toServer, toClient, now, peerSent>>

Tick ==
  /\ now < MaxTicks
  /\ now' = now + 1
  /\ UNCHANGED <<serverVars, clientVars, wire, peerSent>>

-----------------------------------------------------------------------------
NewClient(phase) ==
  [phase |-> phase, conn |-> 0, connected |-> FALSE, authenticated |-> FALSE,
   helloDone |-> FALSE, helloId |-> 0, counter |-> 0]

Init ==
  /\ server = "new"
  /\ link = [c \in Conn |-> "none"] /\ owner = [c \in Conn |-> "none"]
  /\ conns = [c \in Conn |-> NoClient]
  /\ toServer = [c \in Conn |-> <<>>] /\ toClient = [c \in Conn |-> <<>>]
  /\ windows = [c \in Conn |-> <<>>] /\ accepted = [c \in Conn |-> <<>>]
  /\ threads = {}
  /\ \E side \in Sides :
       /\ auth_mode \in IF side = "peer" THEN {"none", "token"} ELSE {"token"}
       /\ now = IF side = "peer" THEN 0 ELSE MaxTicks
       /\ peerSent = IF side = "peer" THEN 0 ELSE MaxPeerFrames
       /\ client = NewClient(IF side = "peer" THEN "down" ELSE "new")
  /\ pending = [i \in Id |-> "none"]
  /\ call = [k \in Caller |-> NoCall]
  /\ reader = NoFrame
  /\ answered = [c \in Conn |-> [i \in Id |-> 0]]

ServerStep ==
  \/ Start \/ StopServer \/ StopJoin
  \/ \E c \in Conn : \/ OnOpen(c) \/ OnClose(c) \/ HandleHello(c) \/ RefuseRequest(c)
                     \/ \E code \in {"ok", "HANDLER_ERROR"} : RunRequest(c, code)
  \/ \E t \in threads : \/ StreamEvent(t)
                        \/ \E code \in {"ok", "HANDLER_ERROR"} : HandlerReturns(t, code)

ClientStep ==
  \/ Connect \/ OpenLink \/ ConnectSteps \/ Disconnect \/ ClientClosed
  \/ ClientEvent \/ ClientResponse \/ Deliver
  \/ \E k \in Caller : \/ \E m \in CallMethods : StartCall(k, m)
                       \/ FinishCall(k) \/ CallExpires(k) \/ EraseCall(k)

Next == ServerStep \/ ClientStep \/ PeerOpens \/ Tick
        \/ \E c \in Conn : PeerSends(c) \/ CutLink(c)

Fairness ==
  /\ WF_vars(Deliver) /\ WF_vars(ClientResponse)
  /\ \A k \in Caller : /\ WF_vars(FinishCall(k)) /\ WF_vars(CallExpires(k))
                       /\ WF_vars(EraseCall(k))

Spec     == Init /\ [][Next]_vars
FairSpec == Spec /\ Fairness

-----------------------------------------------------------------------------
(***************************************************************************)
(* Properties                                                              *)
(***************************************************************************)

\* The type of the server's tables, of the wire and of the client.
TypeOK ==
  /\ server \in {"new", "running", "closing", "stopped"}
  /\ auth_mode \in {"none", "token"}
  /\ link \in [Conn -> {"none", "open", "cut"}]
  /\ \A c \in Conn : conns[c].scopes \subseteq ReadScopes
  /\ windows \in [Conn -> Seq(0 .. MaxTicks)]
  /\ pending \in [Id -> {"none", "wait", "done"}]
  /\ client.conn \in Conn \cup {0}
  /\ \A t \in threads : t.conn \in Conn /\ t.id \in Id

\* A call that returns a result returns the answer to its own request, although
\* calls time out, links are replaced and late answers arrive
\* (gateway_client.cpp:244 finds the call by the request's id).
OwnAnswer ==
  \A k \in Caller : call[k].answer # NoFrame =>
    call[k].answer.id = call[k].id /\ call[k].answer.method = call[k].method

\* A request is answered at most once, and no streamed event follows its answer,
\* whether the handler runs on the connection's thread or on its own
\* (gateway_server.cpp:446).
AnsweredOnce ==
  \A c \in Conn :
    /\ \A i \in Id \ {0} : answered[c][i] <= 1
    /\ \A i, j \in DOMAIN toClient[c] :
         i < j /\ toClient[c][i].type = "res" /\ toClient[c][j].type = "event"
         => toClient[c][i].id # toClient[c][j].id

\* Requests and answers match, on either side of the link: the parts above.
AnswersMatch == TypeOK /\ OwnAnswer /\ AnsweredOnce

\* No connection gets more than max_requests requests through in any window of
\* window_seconds, nor more than burst_max in a second.  A client refused by the
\* window is told the least number of seconds after which a slot is free; but at
\* the very edge, when the oldest request is exactly as old as the window, it
\* still counts and the client is told 0: a retry at once is refused again, one
\* any later passes (rate_limiter.cpp:12, 56-78, 112).
LimitsHold ==
  \A c \in Conn :
    LET Within(t, d) == Cardinality({i \in DOMAIN accepted[c] :
                                       accepted[c][i] \in t .. t + d})
        v == purge_old(windows[c], now)
        r == RetryAfter(windows[c])
        FreeAfter(d) == Len(purge_old(v, now + d)) < max_requests
    IN  /\ \A t \in 0 .. MaxTicks :
             /\ Within(t, window_seconds) <= max_requests
             /\ burst_max > 0 => Within(t, 1) <= burst_max
        /\ v # <<>> /\ Len(v) >= max_requests =>
             /\ \A d \in 0 .. r - 1 : ~ FreeAfter(d)
             /\ FreeAfter(r) <=> Head(v) + window_seconds # now
             /\ FreeAfter(r + 1)

\* A call ends, with a response or at its deadline
\* (gateway_client.hpp "sends req, waits for res", timeout_ms).
CallEnds ==
  \A k \in Caller : call[k].pc = "wait" ~> call[k].pc = "idle"
=============================================================================
