------------------------------- MODULE Sidecar -------------------------------
(***************************************************************************)
(* The plugin sidecar: SidecarManager (src/plugins/sidecar_manager.cpp),   *)
(* the line-based IPC it uses (src/platform/ipc_tcp.cpp), the process      *)
(* functions of the platform and the Node process at the other end         *)
(* (sidecar/src/index.ts, rpc-server.ts).                                  *)
(*                                                                         *)
(* A connection is named by the process at its other end, and `wire' is    *)
(* what is under way on the open one.  ipc_mu_ is held for a whole Call;   *)
(* `holder' is the thread that holds it.                                   *)
(***************************************************************************)
EXTENDS Integers, Sequences, FiniteSets

CONSTANTS
  Pid,             \* process ids; an id is reused once nobody names it
  NoPid,           \* kInvalidPid, kInvalidIpc
  Caller,          \* threads that call plugins
  Mon,             \* the monitor thread
  NoThread,        \* ipc_mu_ is free
  Rpc,             \* rpc ids; an id is reused once it is not under way
  NoRpc,           \* no request is being made
  max_restarts,    \* Options::max_restarts
  MaxFailures,     \* bound: how often a sidecar process dies by itself
  DeadLooksAlive   \* POSIX: kill(pid, 0) succeeds for an unwaited-for child

ASSUME SidecarAssumption ==
  /\ NoPid \notin Pid
  /\ Mon \notin Caller
  /\ NoThread \notin Caller \cup {Mon}
  /\ NoRpc \notin Rpc
  /\ max_restarts \in Nat
  /\ MaxFailures \in Nat
  /\ DeadLooksAlive \in BOOLEAN

VARIABLES
  pid,           \* pid_
  running,       \* running_
  stopping,      \* stopping_
  handle,        \* ipc_handle_
  restart_count, \* restart_count_
  owner,         \* where the thread that starts, stops and destroys is
  victim,        \* kill_sidecar's p
  child,         \* spawn_sidecar's child
  monitor,       \* where the monitor thread is
  holder,        \* who holds ipc_mu_
  call,          \* per thread: where its Call is
  req,           \* the id of the request of the Call that holds ipc_mu_
  wire,          \* what is under way on the open connection
  proc,          \* per process: free, starting, up or dead (not waited for)
  failures,      \* how often a process died by itself
  left           \* history: processes that ran when a Stop returned

managerVars == <<pid, running, stopping, handle, restart_count>>
threadVars  == <<owner, victim, monitor, child>>
callVars    == <<holder, call, req, wire>>
procVars    == <<proc, failures, left>>
vars == <<managerVars, threadVars, callVars, procVars>>

Threads == Caller \cup {Mon}

OwnerPc == {"idle", "start_accept", "stop_kill", "stop_wait", "stop_join",
            "stop_close", "gone", "aborted"}

MonitorPc == {"none", "top", "sleep", "ping", "backoff", "close", "spawn",
              "accept", "ended"}

(* Requests the sidecar has not answered, answers the host has not read    *)
(* (the first may be the rest of a line) and, as history, whether a read   *)
(* was ever cut off in the middle of a line.                               *)
Wire == [todo : SUBSET Rpc, answers : Seq(Rpc), torn : BOOLEAN]

Quiet == [todo |-> {}, answers |-> <<>>, torn |-> FALSE]

-----------------------------------------------------------------------------
(* The platform *)

Alive(p) == proc[p] \in {"starting", "up"}

(* is_process_alive: on POSIX a child that exited and was not waited for   *)
(* still answers kill(pid, 0).                                             *)
LooksAlive(p) == Alive(p) \/ (DeadLooksAlive /\ proc[p] = "dead")

IsRunning == pid # NoPid /\ LooksAlive(pid)

(* Process ids the system may hand out.                                    *)
FreshPid == {p \in Pid \ {pid, handle, victim, child} :
               proc[p] = "free" \/ (proc[p] = "dead" /\ ~DeadLooksAlive)}

(* fork succeeded.                                                         *)
Spawn(p) ==
  /\ p \in FreshPid
  /\ pid' = p
  /\ child' = p
  /\ proc' = [proc EXCEPT ![p] = "starting"]
  /\ left' = left \ {p}
  /\ UNCHANGED <<handle, callVars, failures>>

(* spawn_sidecar's accept succeeded, and the handle is set under ipc_mu_.  *)
Accepted ==
  /\ proc[child] = "starting"
  /\ holder = NoThread
  /\ proc' = [proc EXCEPT ![child] = "up"]
  /\ handle' = child
  /\ wire' = Quiet
  /\ child' = NoPid
  /\ UNCHANGED pid

(* Mutant: the child that did not connect is left running.                 *)
NotAccepted_Leaks ==
  /\ pid' = NoPid
  /\ child' = NoPid
  /\ UNCHANGED <<handle, wire, proc>>

(* It timed out: the child is killed and waited for.                       *)
NotAccepted ==
  /\ proc' = [proc EXCEPT ![child] = "free"]
  /\ pid' = NoPid
  /\ child' = NoPid
  /\ UNCHANGED <<handle, wire>>

(* ipc_close: what is under way is lost.                                   *)
Close ==
  /\ handle' = NoPid
  /\ wire' = Quiet
  /\ UNCHANGED <<pid, running, stopping, restart_count>>

-----------------------------------------------------------------------------
(* Call *)

(* Ids of requests or answers on their way through the connection.         *)
InFlight == wire.todo \cup {wire.answers[i] : i \in 1 .. Len(wire.answers)}

(* The Call of thread t returns; the monitor goes on with its loop.        *)
Return(t) ==
  /\ call' = [call EXCEPT ![t] = "idle"]
  /\ holder' = NoThread
  /\ req' = NoRpc
  /\ monitor' = IF t = Mon THEN "top" ELSE monitor
  /\ UNCHANGED <<owner, victim, child, procVars>>

MayCall(t) == call[t] = "idle" /\ (t = Mon => monitor = "ping")

(* IsRunning was true, the thread now waits for ipc_mu_.                   *)
CallBegin(t) ==
  /\ MayCall(t)
  /\ IsRunning
  /\ owner # "gone"
  /\ call' = [call EXCEPT ![t] = "lock"]
  /\ UNCHANGED <<managerVars, threadVars, holder, req, wire, procVars>>

(* The Call of another thread would return at once and change nothing.     *)
CallNotRunning ==
  /\ MayCall(Mon)
  /\ ~IsRunning
  /\ monitor' = "top"
  /\ UNCHANGED <<managerVars, owner, victim, child, callVars, procVars>>

Locks(t) == call[t] = "lock" /\ holder = NoThread

(* No connection: connect_ipc fails, because spawn_sidecar closed the      *)
(* listening socket after the first accept.                                *)
CallCannotConnect(t) ==
  /\ Locks(t)
  /\ handle = NoPid
  /\ Return(t)
  /\ UNCHANGED <<managerVars, wire>>

(* The request is written; a dead process never reads it.                  *)
CallWrite(t) ==
  /\ Locks(t)
  /\ handle # NoPid
  /\ \E id \in Rpc \ InFlight :
       /\ req' = id
       /\ wire' = [wire EXCEPT !.todo = @ \cup {id}]
  /\ call' = [call EXCEPT ![t] = "wait"]
  /\ holder' = t
  /\ UNCHANGED <<managerVars, threadVars, procVars>>

(* The peer is gone and the write fails.                                   *)
CallWriteFails(t) ==
  /\ Locks(t)
  /\ handle # NoPid
  /\ ~Alive(handle)
  /\ Close
  /\ Return(t)

(* A line was read; its id is not compared with that of the request.       *)
CallReply(t) ==
  /\ call[t] = "wait"
  /\ wire.answers # <<>>
  /\ wire' = [wire EXCEPT !.answers = Tail(@)]
  /\ Return(t)
  /\ UNCHANGED managerVars

(* Mutant: the connection stays open after a timeout.                      *)
CallTimeout_KeepsHandle(t) ==
  /\ call[t] = "wait"
  /\ wire.answers = <<>>
  /\ Return(t)
  /\ UNCHANGED <<managerVars, wire>>

(* Nothing was read before the deadline or the end of the stream.          *)
CallTimeout(t) ==
  /\ call[t] = "wait"
  /\ wire.answers = <<>>
  /\ Close
  /\ Return(t)

(* The deadline passes in the middle of a line: ipc_read_line returns what *)
(* it has, the parse fails, the connection stays open and the rest of the  *)
(* line is what the next Call reads.                                       *)
CallPartial(t) ==
  /\ call[t] = "wait"
  /\ wire.answers # <<>>
  /\ wire' = [wire EXCEPT !.torn = TRUE]
  /\ Return(t)
  /\ UNCHANGED managerVars

-----------------------------------------------------------------------------
(* Start, Stop and the destructor *)

StartSpawn ==
  /\ owner = "idle"
  /\ ~running
  /\ \E p \in Pid : Spawn(p)
  /\ owner' = "start_accept"
  /\ UNCHANGED <<running, stopping, restart_count, victim, monitor>>

(* Assigning a new thread to a monitor_thread_ that was never joined ends  *)
(* the program.                                                            *)
StartAccepted ==
  /\ owner = "start_accept"
  /\ Accepted
  /\ running' = TRUE
  /\ stopping' = FALSE
  /\ restart_count' = 0
  /\ monitor' = "top"
  /\ owner' = IF monitor = "none" THEN "idle" ELSE "aborted"
  /\ UNCHANGED <<victim, holder, call, req, failures, left>>

StartNotAccepted ==
  /\ owner = "start_accept"
  /\ NotAccepted
  /\ owner' = "idle"
  /\ UNCHANGED <<running, stopping, restart_count, victim, monitor, holder,
                 call, req, failures, left>>

(* Mutant: the flags are set after the monitor was waited for.             *)
StopBegin_FlagsLate ==
  /\ owner = "idle"
  /\ running
  /\ owner' = "stop_kill"
  /\ UNCHANGED <<managerVars, victim, child, monitor, callVars, procVars>>

StopBegin ==
  /\ owner = "idle"
  /\ running
  /\ stopping' = TRUE
  /\ running' = FALSE
  /\ owner' = "stop_kill"
  /\ UNCHANGED <<pid, handle, restart_count, victim, child, monitor, callVars,
                 procVars>>

(* kill_sidecar reads pid_ and terminates that process, if any.            *)
StopKill ==
  /\ owner = "stop_kill"
  /\ victim' = pid
  /\ owner' = IF pid = NoPid THEN "stop_join" ELSE "stop_wait"
  /\ UNCHANGED <<managerVars, monitor, child, callVars, procVars>>

(* It exits, or is killed after the timeout; either way it is waited for.  *)
StopWaited ==
  /\ owner = "stop_wait"
  /\ proc' = [proc EXCEPT ![victim] = "free"]
  /\ pid' = NoPid
  /\ victim' = NoPid
  /\ owner' = "stop_join"
  /\ UNCHANGED <<running, stopping, handle, restart_count, monitor, child,
                 callVars, failures, left>>

StopJoin ==
  /\ owner = "stop_join"
  /\ monitor = "ended"
  /\ monitor' = "none"
  /\ owner' = "stop_close"
  /\ UNCHANGED <<managerVars, victim, child, callVars, procVars>>

StopClose ==
  /\ owner = "stop_close"
  /\ holder = NoThread
  /\ Close
  /\ left' = {p \in Pid : Alive(p)}
  /\ owner' = "idle"
  /\ UNCHANGED <<victim, child, monitor, holder, call, req, proc, failures>>

(* The destructor after its Stop: a std::thread that was not joined ends   *)
(* the program.                                                            *)
Destroy ==
  /\ owner = "idle"
  /\ ~running
  /\ owner' = IF monitor = "none" THEN "gone" ELSE "aborted"
  /\ UNCHANGED <<managerVars, victim, child, monitor, callVars, procVars>>

-----------------------------------------------------------------------------
(* monitor_loop *)

MonitorTop ==
  /\ monitor = "top"
  /\ monitor' = IF running /\ ~stopping THEN "sleep" ELSE "ended"
  /\ UNCHANGED <<managerVars, owner, victim, child, callVars, procVars>>

(* Mutant: one restart too many.                                           *)
MonitorWake_OffByOne ==
  /\ monitor = "sleep"
  /\ monitor' = CASE stopping -> "ended"
                  [] ~stopping /\ IsRunning -> "ping"
                  [] ~stopping /\ ~IsRunning /\ restart_count > max_restarts
                       -> "ended"
                  [] OTHER -> "backoff"
  /\ pid' = IF stopping \/ IsRunning THEN pid ELSE NoPid
  /\ running' = (running /\ (stopping \/ IsRunning
                               \/ restart_count <= max_restarts))
  /\ UNCHANGED <<stopping, handle, restart_count, owner, victim, child,
                 callVars, procVars>>

(* The heartbeat interval is over.                                         *)
MonitorWake ==
  /\ monitor = "sleep"
  /\ monitor' = CASE stopping -> "ended"
                  [] ~stopping /\ IsRunning -> "ping"
                  [] ~stopping /\ ~IsRunning /\ restart_count >= max_restarts
                       -> "ended"
                  [] OTHER -> "backoff"
  /\ pid' = IF stopping \/ IsRunning THEN pid ELSE NoPid
  /\ running' = (running /\ (stopping \/ IsRunning
                               \/ restart_count < max_restarts))
  /\ UNCHANGED <<stopping, handle, restart_count, owner, victim, child,
                 callVars, procVars>>

(* The back-off is over.                                                   *)
MonitorBackoff ==
  /\ monitor = "backoff"
  /\ monitor' = IF stopping THEN "ended" ELSE "close"
  /\ UNCHANGED <<managerVars, owner, victim, child, callVars, procVars>>

MonitorClose ==
  /\ monitor = "close"
  /\ holder = NoThread
  /\ Close
  /\ monitor' = "spawn"
  /\ UNCHANGED <<owner, victim, child, holder, call, req, procVars>>

MonitorSpawn ==
  /\ monitor = "spawn"
  /\ \E p \in Pid : Spawn(p)
  /\ monitor' = "accept"
  /\ UNCHANGED <<running, stopping, restart_count, owner, victim>>

(* No socket or no process: spawn_sidecar fails before it sets pid_.       *)
MonitorSpawnFails ==
  /\ monitor = "spawn"
  /\ monitor' = "top"
  /\ UNCHANGED <<managerVars, owner, victim, child, callVars, procVars>>

(* The restart succeeded, even if Stop has begun in the meantime.          *)
MonitorAccepted ==
  /\ monitor = "accept"
  /\ Accepted
  /\ restart_count' = restart_count + 1
  /\ monitor' = "top"
  /\ UNCHANGED <<running, stopping, owner, victim, holder, call, req, failures,
                 left>>

(* Mutant: a failed restart leaves the loop.                               *)
MonitorNotAccepted_Breaks ==
  /\ monitor = "accept"
  /\ NotAccepted
  /\ monitor' = "ended"
  /\ UNCHANGED <<running, stopping, restart_count, owner, victim, holder, call,
                 req, failures, left>>

(* A failed restart is not counted: the loop tries again for ever.         *)
MonitorNotAccepted ==
  /\ monitor = "accept"
  /\ NotAccepted
  /\ monitor' = "top"
  /\ UNCHANGED <<running, stopping, restart_count, owner, victim, holder, call,
                 req, failures, left>>

-----------------------------------------------------------------------------
(* The sidecar process *)

(* The connection of process p is open at the host's end.                  *)
Connected(p) == handle = p

Answer(p) ==
  /\ proc[p] = "up"
  /\ Connected(p)
  /\ \E id \in wire.todo :
       wire' = [wire EXCEPT !.answers = Append(@, id), !.todo = @ \ {id}]
  /\ UNCHANGED <<managerVars, threadVars, holder, call, req, procVars>>

(* The socket was closed by the host: onDisconnected shuts down.           *)
NoticesClose(p) ==
  /\ proc[p] = "up"
  /\ ~Connected(p)
  /\ proc' = [proc EXCEPT ![p] = "dead"]
  /\ UNCHANGED <<managerVars, threadVars, callVars, failures, left>>

Dies(p) ==
  /\ Alive(p)
  /\ failures < MaxFailures
  /\ failures' = failures + 1
  /\ proc' = [proc EXCEPT ![p] = "dead"]
  /\ UNCHANGED <<managerVars, threadVars, callVars, left>>

-----------------------------------------------------------------------------
Init ==
  /\ pid = NoPid
  /\ running = FALSE
  /\ stopping = FALSE
  /\ handle = NoPid
  /\ restart_count = 0
  /\ owner = "idle"
  /\ victim = NoPid
  /\ child = NoPid
  /\ monitor = "none"
  /\ holder = NoThread
  /\ call = [t \in Threads |-> "idle"]
  /\ req = NoRpc
  /\ wire = Quiet
  /\ proc = [p \in Pid |-> "free"]
  /\ failures = 0
  /\ left = {}

CallStep(t) == \/ CallBegin(t) \/ CallCannotConnect(t)
               \/ CallWrite(t) \/ CallWriteFails(t) \/ CallReply(t)
               \/ CallTimeout(t) \/ CallPartial(t)

OwnerStep == \/ StartSpawn \/ StartAccepted \/ StartNotAccepted \/ StopBegin
             \/ StopKill \/ StopWaited \/ StopJoin \/ StopClose \/ Destroy

StopStep == StopKill \/ StopWaited \/ StopJoin \/ StopClose

MonitorStep == \/ MonitorTop \/ MonitorWake \/ CallNotRunning
               \/ MonitorBackoff \/ MonitorClose
               \/ MonitorSpawn \/ MonitorSpawnFails \/ MonitorAccepted
               \/ MonitorNotAccepted

ProcStep == \E p \in Pid : Answer(p) \/ NoticesClose(p) \/ Dies(p)

(* std::terminate ends all threads.                                        *)
Aborted == owner = "aborted"

Next == /\ ~Aborted
        /\ \/ \E t \in Threads : CallStep(t)
           \/ OwnerStep \/ MonitorStep \/ ProcStep

Spec == Init /\ [][Next]_vars

(* Every thread that is not blocked runs: a Call ends at its deadline, a   *)
(* sleep ends, and a sidecar that is started again and again connects some *)
(* time.  A thread that waits for ipc_mu_ gets it in the end although      *)
(* others call again and again.  Nobody has to call Start, Stop or Call,   *)
(* and the sidecar need not answer.                                        *)
FairSpec ==
  /\ Spec
  /\ \A t \in Threads : WF_vars(~Aborted /\ call[t] # "idle" /\ CallStep(t))
  /\ WF_vars(~Aborted /\ CallStep(Mon))
  /\ WF_vars(StopStep)
  /\ SF_vars(StopClose)
  /\ WF_vars(~Aborted /\ MonitorStep)
  /\ SF_vars(~Aborted /\ MonitorSpawn)
  /\ SF_vars(~Aborted /\ MonitorAccepted)
  /\ \A p \in Pid : WF_vars(~Aborted /\ NoticesClose(p))

-----------------------------------------------------------------------------
(* Properties *)

(* Types; the holder of ipc_mu_ is the one thread that waits for a reply,  *)
(* and it waits on an open handle.                                         *)
TypeOK ==
  /\ {pid, handle, victim, child} \subseteq Pid \cup {NoPid}
  /\ {running, stopping} \subseteq BOOLEAN
  /\ restart_count \in 0 .. max_restarts
  /\ owner \in OwnerPc
  /\ monitor \in MonitorPc
  /\ call \in [Threads -> {"idle", "lock", "wait"}]
  /\ req \in Rpc \cup {NoRpc}
  /\ wire \in Wire
  /\ \A t \in Threads : call[t] = "wait" <=> holder = t
  /\ holder # NoThread => handle # NoPid
  /\ proc \in [Pid -> {"free", "starting", "up", "dead"}]
  /\ failures \in 0 .. MaxFailures
  /\ left \subseteq Pid

(* A Call returns the answer to another Call's request only on a           *)
(* connection on which a read was cut off in the middle of a line: a call  *)
(* that timed out, a restart or a crash never causes it.                   *)
ResponseIsOwn ==
  [][\A t \in Threads :
       CallReply(t) => Head(wire.answers) = req \/ wire.torn]_vars

(* Two sidecar processes never run at once, apart from one that a Stop     *)
(* left behind because the monitor was just starting it.                   *)
OneProcess ==
  \A p, q \in Pid \ left : Alive(p) /\ Alive(q) => p = q

(* What the manager knows of its processes is right: the parts above.      *)
ProcessesSound == TypeOK /\ OneProcess

(* A Stop that has begun returns, whatever the monitor was doing.          *)
StopReturns ==
  owner \in {"stop_kill", "stop_wait", "stop_join", "stop_close"} ~>
    owner = "idle"

Broken == running /\ ~stopping /\ ~Aborted /\ (pid = NoPid \/ ~Alive(pid))

(* SidecarManager: crash restart.  A dead sidecar is replaced, unless the  *)
(* manager is stopped or has used up its restarts.                         *)
CrashRestart == Broken ~> ~Broken
=============================================================================
