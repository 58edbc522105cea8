----------------------------- MODULE ToolRuntime -----------------------------
(***************************************************************************)
(* Tools that touch shared state: exec with its approval                    *)
(* (src/tools/tool_registry.cpp, src/security/exec_approval.cpp) while the  *)
(* configuration is reloaded, and the background processes of the process  *)
(* tool.  Agent threads of several sessions share one ToolRegistry.         *)
(*                                                                         *)
(* A command is a model value and an allow list the set of commands its    *)
(* patterns match (the permission lists are in Toolbox).                   *)
(* RequestApproval reads config_ and allowlist_ without mu_, Configure      *)
(* replaces one and then the other: both are separate steps here.          *)
(***************************************************************************)
EXTENDS Naturals, FiniteSets, Sequences

CONSTANTS
  ToolThread,     \* agent threads
  ToolCommand,    \* commands
  ToolConfigs,    \* configurations: [exec, ask, allow, fallback]
  MaxApprovals,   \* bound: approval requests
  MaxReloads,     \* bound: configuration reloads
  MaxProcs        \* bound: background processes

ASSUME ToolAssumption ==
  /\ {MaxApprovals, MaxReloads, MaxProcs} \subseteq Nat
  /\ ToolConfigs \subseteq [exec : BOOLEAN, ask : {"off", "on-miss", "always"},
                             allow : SUBSET ToolCommand, fallback : {"approved", "denied"}]

VARIABLES
  apConfig,    \* config_, and exec: does the permission checker allow exec?
  apAllow,     \* allowlist_
  apReload,    \* a Configure under way: the steps left, and its configuration
  apReloads,   \* reloads so far
  apPending,   \* ids in pending_
  apResolved,  \* resolved_
  apIds,       \* requests so far
  tcall,       \* per thread: its call of exec
  bg,          \* bg_sessions_ and the commands behind them
  pcall        \* per thread: its call of the process tool

apVars   == <<apConfig, apAllow, apReload, apReloads, apPending, apResolved, apIds>>
execVars == <<apVars, tcall>>
procVars == <<bg, pcall>>

NoToolCall == [pc |-> "idle", cmd |-> "none", id |-> 0, decision |-> "pending",
               asked |-> FALSE, seen |-> {}]
Goto(t, pc) == tcall' = [tcall EXCEPT ![t].pc = pc]

(***************************************************************************)
(* exec.                                                                   *)
(***************************************************************************)
\* ExecuteTool: the tool exists and the permission checker lets it through.
ExecuteTool(t, cmd) ==
  /\ tcall[t].pc = "idle" /\ apConfig.exec
  /\ tcall' = [tcall EXCEPT ![t] =
       [NoToolCall EXCEPT !.pc = "ask", !.cmd = cmd,
          !.seen = {apConfig} \cup (IF apReload.left = {} THEN {} ELSE {apReload.new, apReload.old})]]
  /\ UNCHANGED apVars

\* RequestApproval: ask is read twice, the allow list in between.
CheckOff(t) ==
  /\ tcall[t].pc = "ask"
  /\ tcall' = [tcall EXCEPT ![t].pc = IF apConfig.ask = "off" THEN "run" ELSE "list",
                            ![t].decision = IF apConfig.ask = "off" THEN "approved" ELSE @]
  /\ UNCHANGED apVars

\* Mutant: the allow list is used in every mode.
CheckAllowlist_AnyMode(t) ==
  LET hit == tcall[t].cmd \in apAllow
  IN  /\ tcall[t].pc = "list"
      /\ tcall' = [tcall EXCEPT ![t].pc = IF hit THEN "run" ELSE "request",
                                ![t].decision = IF hit THEN "approved" ELSE @]
      /\ UNCHANGED apVars

CheckAllowlist(t) ==
  LET hit == apConfig.ask = "on-miss" /\ tcall[t].cmd \in apAllow
  IN  /\ tcall[t].pc = "list"
      /\ tcall' = [tcall EXCEPT ![t].pc = IF hit THEN "run" ELSE "request",
                                ![t].decision = IF hit THEN "approved" ELSE @]
      /\ UNCHANGED apVars

CreateRequest(t) ==
  /\ tcall[t].pc = "request" /\ apIds < MaxApprovals
  /\ apIds' = apIds + 1
  /\ apPending' = apPending \cup {apIds'}
  /\ tcall' = [tcall EXCEPT ![t].pc = "handler", ![t].id = apIds', ![t].asked = TRUE]
  /\ UNCHANGED <<apConfig, apAllow, apReload, apReloads, apResolved>>

\* The handler's answer, or "pending" from it or for want of one; then the
\* configured fallback counts at once.
AskHandler(t, answer) ==
  /\ tcall[t].pc = "handler"
  /\ tcall' = [tcall EXCEPT ![t].pc = "resolve",
       ![t].decision = IF answer = "pending" THEN apConfig.fallback ELSE answer]
  /\ UNCHANGED apVars

\* Resolve, under mu_: only a request that is still pending is recorded.
Resolve(id, decision, by) ==
  IF id \in apPending
    THEN /\ apPending' = apPending \ {id}
         /\ apResolved' = Append(apResolved, [id |-> id, decision |-> decision, by |-> by])
    ELSE UNCHANGED <<apPending, apResolved>>

\* RequestApproval resolves its request and returns its own decision.
ResolveAuto(t) ==
  /\ tcall[t].pc = "resolve"
  /\ Resolve(tcall[t].id, tcall[t].decision, "auto")
  /\ Goto(t, IF tcall[t].decision = "approved" THEN "run" ELSE "ended")
  /\ UNCHANGED <<apConfig, apAllow, apReload, apReloads, apIds>>

\* exec_capture, whatever it returns.
RunCommand(t) ==
  /\ tcall[t].pc = "run"
  /\ Goto(t, "ended")
  /\ UNCHANGED apVars

ToolReturns(t) ==
  /\ tcall[t].pc = "ended"
  /\ tcall' = [tcall EXCEPT ![t] = NoToolCall]
  /\ UNCHANGED apVars

OperatorResolves(id, decision) ==
  /\ id \in apPending
  /\ Resolve(id, decision, "operator")
  /\ UNCHANGED <<apConfig, apAllow, apReload, apReloads, apIds, tcall>>

\* Mutant: expired requests stay in pending_.
PruneExpired_Keeps(expired) ==
  /\ expired # {} /\ expired \subseteq apPending
  /\ \E order \in [1 .. Cardinality(expired) -> expired] :
       /\ {order[i] : i \in DOMAIN order} = expired
       /\ apResolved' = apResolved \o [i \in DOMAIN order |->
            [id |-> order[i], decision |-> "timeout", by |-> "system"]]
  /\ UNCHANGED <<apConfig, apAllow, apReload, apReloads, apIds, apPending, tcall>>

\* PruneExpired; which of the pending requests are past their time is a matter
\* of the clock.
PruneExpired(expired) ==
  /\ expired # {} /\ expired \subseteq apPending
  /\ apPending' = apPending \ expired
  /\ \E order \in [1 .. Cardinality(expired) -> expired] :
       /\ {order[i] : i \in DOMAIN order} = expired
       /\ apResolved' = apResolved \o [i \in DOMAIN order |->
            [id |-> order[i], decision |-> "timeout", by |-> "system"]]
  /\ UNCHANGED <<apConfig, apAllow, apReload, apReloads, apIds, tcall>>

\* A reload sets the permission checker and then calls Configure ...
BeginReload(g) ==
  /\ apReload.left = {} /\ apReloads < MaxReloads
  /\ apReloads' = apReloads + 1
  /\ apReload' = [left |-> {"config", "allow"}, new |-> g, old |-> apConfig]
  /\ apConfig' = [apConfig EXCEPT !.exec = g.exec]
  /\ tcall' = [t \in ToolThread |-> IF tcall[t].pc = "idle" THEN tcall[t]
                 ELSE [tcall[t] EXCEPT !.seen = @ \cup {g}]]
  /\ UNCHANGED <<apAllow, apPending, apResolved, apIds>>

\* ... which assigns config_ and rebuilds allowlist_ from empty.
Configure ==
  /\ \/ /\ "config" \in apReload.left
        /\ apConfig' = apReload.new
        /\ apReload' = [apReload EXCEPT !.left = @ \ {"config"}]
        /\ UNCHANGED apAllow
     \/ /\ apReload.left = {"allow"} /\ apAllow # {}
        /\ apAllow' = {}
        /\ UNCHANGED <<apConfig, apReload>>
     \/ /\ apReload.left = {"allow"} /\ apAllow = {}
        /\ apAllow' = apReload.new.allow
        /\ apReload' = [apReload EXCEPT !.left = {}]
        /\ UNCHANGED apConfig
  /\ UNCHANGED <<apReloads, apPending, apResolved, apIds, tcall>>

(***************************************************************************)
(* The process tool.  A session is in the map, or only held by threads that *)
(* looked it up.  bg_mu_ protects the map: list holds it all along, the     *)
(* other actions for the lookup only, and read and write the session's      *)
(* fields, its future among them, without a lock.  raced: two calls were in *)
(* future.get() at once, a data race in which the second may find the text  *)
(* moved away.                                                             *)
(***************************************************************************)
NoProc == [listed |-> FALSE, running |-> FALSE, future |-> "none", exited |-> FALSE,
           output |-> FALSE, killed |-> FALSE, cleared |-> FALSE, raced |-> FALSE]
Destroyed == [NoProc EXCEPT !.future = "destroyed"]
NoProcCall == [pc |-> "idle", id |-> 0, todo |-> {}, text |-> FALSE, listing |-> FALSE]

ProcGoto(t, pc) == pcall' = [pcall EXCEPT ![t].pc = pc]
Session(t) == bg[pcall[t].id]
Procs == {i \in DOMAIN bg : bg[i].listed}

\* list is in progress: it holds bg_mu_.
Locked == \E u \in ToolThread : pcall[u].listing

\* start runs its command at once, in no sandbox and without an approval.
ProcessStart(t) ==
  /\ pcall[t].pc = "idle" /\ ~ Locked
  /\ \E i \in DOMAIN bg :
       /\ bg[i] = NoProc /\ \A j \in DOMAIN bg : j < i => bg[j] # NoProc
       /\ bg' = [bg EXCEPT ![i] = [NoProc EXCEPT !.listed = TRUE, !.running = TRUE,
                                                 !.future = "valid"]]
  /\ UNCHANGED pcall

ProcessList(t) ==
  /\ pcall[t].pc = "idle" /\ ~ Locked /\ Procs # {}
  /\ pcall' = [pcall EXCEPT ![t] = [NoProcCall EXCEPT !.pc = "check", !.todo = Procs,
                                                      !.listing = TRUE]]
  /\ UNCHANGED bg

\* log and poll, kill, clear and remove find their session under bg_mu_.
ProcessLookup(t, i, action) ==
  /\ pcall[t].pc = "idle" /\ ~ Locked /\ bg[i].listed
  /\ pcall' = [pcall EXCEPT ![t] = [NoProcCall EXCEPT !.pc = action, !.id = i,
                                     !.todo = IF action = "check" THEN {i} ELSE {}]]
  /\ UNCHANGED bg

\* list and poll look at a session: has it exited, has its future been read?
ProcessCheck(t, i) ==
  /\ pcall[t].pc = "check" /\ i \in pcall[t].todo
  /\ pcall' = [pcall EXCEPT ![t].todo = @ \ {i}, ![t].id = i,
                  ![t].pc = IF bg[i].exited \/ bg[i].future = "read" THEN @ ELSE "wait"]
  /\ UNCHANGED bg

\* The call answers or throws; all but list still hold their session.
Answer(t) ==
  pcall' = [pcall EXCEPT ![t] = IF @.listing THEN NoProcCall ELSE [@ EXCEPT !.pc = "drop"]]

\* wait_for throws if the future has been read since, and times out while the
\* command runs.
ProcessWait(t) ==
  /\ pcall[t].pc = "wait"
  /\ IF Session(t).future = "read" THEN Answer(t)
     ELSE ProcGoto(t, IF Session(t).running THEN "check" ELSE "get")
  /\ UNCHANGED bg

\* Mutant: get() waits for its turn, and the text is dropped when there is none.
ProcessGet_Clears(t) ==
  /\ pcall[t].pc = "get"
  /\ IF Session(t).future = "read"
       THEN /\ ProcGoto(t, "mark")
            /\ bg' = [bg EXCEPT ![pcall[t].id].output = FALSE]
       ELSE \E text \in IF Session(t).future = "valid" THEN {TRUE} ELSE BOOLEAN :
              /\ bg' = [bg EXCEPT ![pcall[t].id].raced = @ \/ Session(t).future = "moved",
                                  ![pcall[t].id].future = "moved"]
              /\ pcall' = [pcall EXCEPT ![t].pc = "release", ![t].text = text]

\* get() throws when the future has been read.  Else it moves the text out, or
\* what another call that is in get() left of it, and releases the future.  (An
\* exception of the command goes to error the same way.)
ProcessGet(t) ==
  /\ pcall[t].pc = "get"
  /\ IF Session(t).future = "read"
       THEN ProcGoto(t, "mark") /\ UNCHANGED bg
       ELSE \E text \in IF Session(t).future = "valid" THEN {TRUE} ELSE BOOLEAN :
              /\ bg' = [bg EXCEPT ![pcall[t].id].raced = @ \/ Session(t).future = "moved",
                                  ![pcall[t].id].future = "moved"]
              /\ pcall' = [pcall EXCEPT ![t].pc = "release", ![t].text = text]

ProcessRelease(t) ==
  /\ pcall[t].pc = "release"
  /\ bg' = [bg EXCEPT ![pcall[t].id].future = "read"]
  /\ ProcGoto(t, "assign")

\* sess->output = what get() returned.
ProcessAssign(t) ==
  /\ pcall[t].pc = "assign"
  /\ bg' = [bg EXCEPT ![pcall[t].id].output = pcall[t].text]
  /\ pcall' = [pcall EXCEPT ![t].pc = "mark", ![t].text = FALSE]

ProcessMark(t) ==
  /\ pcall[t].pc = "mark"
  /\ bg' = [bg EXCEPT ![pcall[t].id].exited = TRUE]
  /\ ProcGoto(t, "check")

ProcessAnswer(t) ==
  /\ pcall[t].pc = "check" /\ pcall[t].todo = {}
  /\ Answer(t)
  /\ UNCHANGED bg

\* kill marks the session only: the command goes on until it ends by itself.
ProcessKill(t) ==
  /\ pcall[t].pc = "kill"
  /\ bg' = [bg EXCEPT ![pcall[t].id].exited = TRUE, ![pcall[t].id].killed = TRUE]
  /\ ProcGoto(t, "drop")

ProcessClear(t) ==
  /\ pcall[t].pc = "clear"
  /\ bg' = [bg EXCEPT ![pcall[t].id].output = FALSE, ![pcall[t].id].cleared = TRUE]
  /\ ProcGoto(t, "drop")

\* remove erases the entry.
ProcessRemove(t) ==
  /\ pcall[t].pc = "remove" /\ ~ Locked
  /\ bg' = [bg EXCEPT ![pcall[t].id].listed = FALSE]
  /\ ProcGoto(t, "drop")

\* The call lets go of its session; whoever holds the last reference destroys it,
\* and waits there until the command ends.
ProcessDrop(t) ==
  /\ pcall[t].pc = "drop"
  /\ \/ /\ Session(t).listed \/ \E u \in ToolThread \ {t} : pcall[u].id = pcall[t].id
        /\ UNCHANGED bg
     \/ /\ ~ Session(t).listed /\ \A u \in ToolThread \ {t} : pcall[u].id # pcall[t].id
        /\ ~ Session(t).running
        /\ bg' = [bg EXCEPT ![pcall[t].id] = Destroyed]
  /\ pcall' = [pcall EXCEPT ![t] = NoProcCall]

\* exec_capture returns: the command ended or its 300 seconds are over.
ProcessEnds(i) ==
  /\ bg[i].running
  /\ bg' = [bg EXCEPT ![i].running = FALSE]
  /\ UNCHANGED pcall

-----------------------------------------------------------------------------
ExecInit(g) ==
  /\ apConfig = g /\ apAllow = g.allow /\ apReloads = 0
  /\ apReload = [left |-> {}, new |-> apConfig, old |-> apConfig]
  /\ apPending = {} /\ apResolved = <<>> /\ apIds = 0
  /\ tcall = [t \in ToolThread |-> NoToolCall]

ExecNext ==
  \/ \E t \in ToolThread :
       \/ \E cmd \in ToolCommand : ExecuteTool(t, cmd)
       \/ CheckOff(t) \/ CheckAllowlist(t) \/ CreateRequest(t)
       \/ \E answer \in {"approved", "denied", "pending"} : AskHandler(t, answer)
       \/ ResolveAuto(t) \/ RunCommand(t) \/ ToolReturns(t)
  \/ \E id \in apPending, d \in {"approved", "denied"} : OperatorResolves(id, d)
  \/ \E expired \in SUBSET apPending : PruneExpired(expired)
  \/ \E g \in ToolConfigs : BeginReload(g)
  \/ Configure

ProcInit ==
  /\ bg = [i \in 1 .. MaxProcs |-> NoProc]
  /\ pcall = [t \in ToolThread |-> NoProcCall]

ProcNext ==
  \/ \E t \in ToolThread :
       \/ ProcessStart(t) \/ ProcessList(t)
       \/ \E i \in DOMAIN bg, action \in {"check", "kill", "clear", "remove"} :
            ProcessLookup(t, i, action)
       \/ \E i \in DOMAIN bg : ProcessCheck(t, i)
       \/ ProcessWait(t) \/ ProcessGet(t) \/ ProcessRelease(t) \/ ProcessAssign(t)
       \/ ProcessMark(t) \/ ProcessAnswer(t)
       \/ ProcessKill(t) \/ ProcessClear(t) \/ ProcessRemove(t) \/ ProcessDrop(t)
  \/ \E i \in DOMAIN bg : ProcessEnds(i)

-----------------------------------------------------------------------------
\* A command that runs without a question has been let through by the ask mode of
\* one configuration that was in force during the call and the allow list of one
\* that was, however a reload is interleaved: by the configuration, when there was
\* no reload.  They need not be the same one (exec_approval.cpp:153, 158 read the
\* two without the lock that Configure holds).
RunsByConfig ==
  \A t \in ToolThread : tcall[t].pc = "run" /\ ~ tcall[t].asked =>
    \E a, b \in tcall[t].seen :
      a.ask = "off" \/ (a.ask = "on-miss" /\ tcall[t].cmd \in b.allow)

\* A request is pending or resolved, never both and never resolved twice, although
\* the caller, an operator and the expiry race for it; and what the caller itself
\* recorded is what it acts on (exec_approval.cpp:198, 202, 237).
RecordedOnce ==
  /\ \A i, j \in DOMAIN apResolved : apResolved[i].id = apResolved[j].id => i = j
  /\ \A i \in DOMAIN apResolved : apResolved[i].id \notin apPending
  /\ \A t \in ToolThread : tcall[t].asked /\ tcall[t].pc \in {"run", "ended"} =>
       \E i \in DOMAIN apResolved :
         /\ apResolved[i].id = tcall[t].id
         /\ apResolved[i].by = "auto" => apResolved[i].decision = tcall[t].decision

\* What a background command printed is taken from its future before the session
\* counts as exited, other than by kill; and it is in the session as soon as no
\* call is between get() and the assignment, although calls of list and poll meet
\* at every step without a lock and the later ones fail.  It is lost only to clear,
\* and where two calls are in get() at once (tool_registry.cpp:1015, 1077).
OutputKept ==
  \A i \in DOMAIN bg :
    /\ bg[i].exited /\ ~ bg[i].killed => bg[i].future # "valid"
    /\ bg[i].future \in {"moved", "read"} =>
         \/ bg[i].output \/ bg[i].cleared \/ bg[i].raced
         \/ \E t \in ToolThread : /\ pcall[t].pc \in {"release", "assign"}
                                  /\ pcall[t].id = i /\ pcall[t].text

\* Commands run only as they were allowed to, and nothing said about them is lost:
\* the parts above.
ToolsSafe == RunsByConfig /\ RecordedOnce /\ OutputKept
=============================================================================
