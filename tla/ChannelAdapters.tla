--------------------------- MODULE ChannelAdapters ---------------------------
(***************************************************************************)
(* ChannelAdapterManager (src/channels/adapter_manager.cpp): one adapter   *)
(* process per enabled channel, a monitor thread that restarts the ones    *)
(* that died, and Start and Stop, which one thread (the owner) calls.      *)
(*                                                                         *)
(* An entry of adapters_ is its pid; its flag `running' is true exactly    *)
(* when the pid is valid.  The order of adapters_ comes from iterating     *)
(* channels_, so the model visits entries in any order.                    *)
(***************************************************************************)
EXTENDS Integers, FiniteSets, Functions

CONSTANTS
  Channel,         \* enabled channels that have an adapter script
  Pid,             \* process ids; an id is reused once nobody names it
  NoPid,           \* kInvalidPid: the adapter is not running
  Absent,          \* the channel has no entry in adapters_
  NoChannel,       \* the monitor is not restarting anything
  MaxDeaths,       \* bound: how often an adapter process dies by itself
  DeadLooksAlive,  \* POSIX: kill(pid, 0) succeeds for an unwaited-for child
  LaunchFails      \* whether spawn_process may fail

ASSUME AdapterAssumption ==
  /\ NoPid \notin Pid
  /\ Absent \notin Pid \cup {NoPid}
  /\ NoChannel \notin Channel
  /\ MaxDeaths \in Nat
  /\ {DeadLooksAlive, LaunchFails} \subseteq BOOLEAN

VARIABLES
  running,   \* running_
  adapters,  \* adapters_: per channel its pid, NoPid or Absent
  doomed,    \* adapters_to_stop: the processes Stop has yet to kill
  owner,     \* where the owner is
  monitor,   \* where the monitor thread is
  restarts,  \* restart_names
  current,   \* the adapter the monitor is about to restart
  proc,      \* per process: free, up or dead (and not waited for)
  script,    \* per process: the channel it serves
  deaths     \* how often a process died by itself

ownerVars   == <<running, doomed, owner>>
monitorVars == <<restarts, current>>
procVars    == <<proc, script, deaths>>
vars == <<ownerVars, monitorVars, procVars, adapters, monitor>>

OwnerPc == {"idle", "stop_take", "stop_kill", "stop_join"}

MonitorPc == {"none", "top", "sleep", "scan", "names", "pause", "relaunch", "ended"}

-----------------------------------------------------------------------------
(* The platform *)

(* is_process_alive: on POSIX a child that exited and was not waited for   *)
(* still answers kill(pid, 0).                                             *)
LooksAlive(p) == proc[p] = "up" \/ (DeadLooksAlive /\ proc[p] = "dead")

Named == {adapters[c] : c \in Channel} \cup doomed

(* Process ids the system may hand out.                                    *)
FreshPid == {p \in Pid \ Named :
               proc[p] = "free" \/ (proc[p] = "dead" /\ ~DeadLooksAlive)}

-----------------------------------------------------------------------------
(* Start and Stop *)

(* Every channel whose process could be launched gets an entry; without    *)
(* any there is nothing to monitor and Start has changed nothing.          *)
Start ==
  /\ owner = "idle"
  /\ ~running
  /\ \E L \in SUBSET Channel : \E f \in [L -> FreshPid] :
       /\ L # {}
       /\ ~LaunchFails => L = Channel
       /\ \A c, d \in L : f[c] = f[d] => c = d
       /\ adapters' = [c \in Channel |-> IF c \in L THEN f[c] ELSE Absent]
       /\ proc' = [p \in Pid |-> IF p \in Range(f) THEN "up" ELSE proc[p]]
       /\ script' = [p \in Pid |-> IF p \in Range(f)
                                   THEN CHOOSE c \in L : f[c] = p
                                   ELSE script[p]]
  /\ running' = TRUE
  /\ monitor' = "top"
  /\ UNCHANGED <<doomed, owner, monitorVars, deaths>>

StopBegin ==
  /\ owner = "idle"
  /\ running' = FALSE
  /\ owner' = "stop_take"
  /\ UNCHANGED <<doomed, monitorVars, procVars, adapters, monitor>>

(* Mutant: adapters_ is copied, not moved.                                 *)
StopTake_Copies ==
  /\ owner = "stop_take"
  /\ doomed' = {adapters[c] : c \in Channel} \cap Pid
  /\ owner' = "stop_kill"
  /\ UNCHANGED <<running, monitorVars, procVars, adapters, monitor>>

(* adapters_ is moved to a local list under adapters_mu_; kill_adapter     *)
(* will skip the entries that are not running.                             *)
StopTake ==
  /\ owner = "stop_take"
  /\ doomed' = {adapters[c] : c \in Channel} \cap Pid
  /\ adapters' = [c \in Channel |-> Absent]
  /\ owner' = "stop_kill"
  /\ UNCHANGED <<running, monitorVars, procVars, monitor>>

(* kill_adapter: the process ends, if need be by force, and is waited for. *)
StopKill ==
  /\ owner = "stop_kill"
  /\ \E p \in doomed :
       /\ doomed' = doomed \ {p}
       /\ proc' = [proc EXCEPT ![p] = "free"]
  /\ UNCHANGED <<running, owner, monitorVars, script, deaths, adapters,
                 monitor>>

StopKilled ==
  /\ owner = "stop_kill"
  /\ doomed = {}
  /\ owner' = "stop_join"
  /\ UNCHANGED <<running, doomed, monitorVars, procVars, adapters, monitor>>

(* The monitor, if there is one, is joined and its thread object reset.    *)
StopJoin ==
  /\ owner = "stop_join"
  /\ monitor \in {"none", "ended"}
  /\ monitor' = "none"
  /\ owner' = "idle"
  /\ UNCHANGED <<running, doomed, monitorVars, procVars, adapters>>

-----------------------------------------------------------------------------
(* monitor_loop *)

MonitorTop ==
  /\ monitor = "top"
  /\ monitor' = IF running THEN "sleep" ELSE "ended"
  /\ UNCHANGED <<ownerVars, monitorVars, procVars, adapters>>

(* The 10 seconds of sleep are over and running_ is read again.            *)
MonitorWake ==
  /\ monitor = "sleep"
  /\ monitor' = IF running THEN "scan" ELSE "ended"
  /\ UNCHANGED <<ownerVars, monitorVars, procVars, adapters>>

(* Mutant: an adapter is restarted whether it has exited or not.           *)
Exited_All == {c \in Channel : adapters[c] \in Pid}

Exited == {c \in Channel : adapters[c] \in Pid /\ ~LooksAlive(adapters[c])}

(* The adapters that died are marked under adapters_mu_, and remembered.   *)
(* A Stop may have begun, or taken adapters_ away, since running_ was read.*)
MonitorScan ==
  /\ monitor = "scan"
  /\ restarts' = Exited
  /\ adapters' = [c \in Channel |-> IF c \in Exited THEN NoPid
                                    ELSE adapters[c]]
  /\ monitor' = "names"
  /\ UNCHANGED <<ownerVars, current, procVars>>

(* The loop over restart_names ends, or running_ is seen false.            *)
MonitorDone ==
  /\ monitor = "names"
  /\ restarts = {} \/ ~running
  /\ monitor' = "top"
  /\ restarts' = {}
  /\ UNCHANGED <<ownerVars, current, procVars, adapters>>

MonitorPause ==
  /\ monitor = "names"
  /\ running
  /\ \E c \in restarts : current' = c /\ restarts' = restarts \ {c}
  /\ monitor' = "pause"
  /\ UNCHANGED <<ownerVars, procVars, adapters>>

(* The pause of 3 seconds is over and running_ is read again.              *)
MonitorCheck ==
  /\ monitor = "pause"
  /\ IF running
     THEN monitor' = "relaunch" /\ UNCHANGED <<restarts, current>>
     ELSE monitor' = "top" /\ restarts' = {} /\ current' = NoChannel
  /\ UNCHANGED <<ownerVars, procVars, adapters>>

(* The entry is still there and still not running: launch_adapter.         *)
MonitorRelaunch ==
  /\ monitor = "relaunch"
  /\ adapters[current] = NoPid
  /\ \E p \in FreshPid :
       /\ adapters' = [adapters EXCEPT ![current] = p]
       /\ proc' = [proc EXCEPT ![p] = "up"]
       /\ script' = [script EXCEPT ![p] = current]
  /\ monitor' = "names"
  /\ current' = NoChannel
  /\ UNCHANGED <<ownerVars, restarts, deaths>>

(* Mutant: the monitor gives up after a failed launch.                     *)
MonitorSkip_Ends ==
  /\ monitor = "relaunch"
  /\ adapters[current] = NoPid => LaunchFails
  /\ monitor' = "ended"
  /\ current' = NoChannel
  /\ UNCHANGED <<ownerVars, restarts, procVars, adapters>>

(* The entry is gone, or launch_adapter fails: the adapter stays down, for *)
(* the scan passes over entries that are not running.                      *)
MonitorSkip ==
  /\ monitor = "relaunch"
  /\ adapters[current] = NoPid => LaunchFails
  /\ monitor' = "names"
  /\ current' = NoChannel
  /\ UNCHANGED <<ownerVars, restarts, procVars, adapters>>

-----------------------------------------------------------------------------
(* An adapter process exits by itself.                                     *)
Dies(p) ==
  /\ proc[p] = "up"
  /\ deaths < MaxDeaths
  /\ deaths' = deaths + 1
  /\ proc' = [proc EXCEPT ![p] = "dead"]
  /\ UNCHANGED <<ownerVars, monitorVars, script, adapters, monitor>>

-----------------------------------------------------------------------------
Init ==
  /\ running = FALSE
  /\ adapters = [c \in Channel |-> Absent]
  /\ doomed = {}
  /\ owner = "idle"
  /\ monitor = "none"
  /\ restarts = {}
  /\ current = NoChannel
  /\ proc = [p \in Pid |-> "free"]
  /\ script = [p \in Pid |-> NoChannel]
  /\ deaths = 0

StopStep == StopTake \/ StopKill \/ StopKilled \/ StopJoin

MonitorStep == \/ MonitorTop \/ MonitorWake \/ MonitorScan \/ MonitorDone
               \/ MonitorPause \/ MonitorCheck \/ MonitorRelaunch
               \/ MonitorSkip

Next == \/ Start \/ StopBegin \/ StopStep \/ MonitorStep
        \/ \E p \in Pid : Dies(p)

Spec == Init /\ [][Next]_vars

(* A Stop that has begun goes on, and so does the monitor thread: its      *)
(* sleeps end.  Nobody has to call Start or Stop.                          *)
FairSpec == Spec /\ WF_vars(StopStep) /\ WF_vars(MonitorStep)

-----------------------------------------------------------------------------
(* Properties *)

(* Types; the monitor exists whenever the manager runs.                    *)
TypeOK ==
  /\ running \in BOOLEAN
  /\ adapters \in [Channel -> Pid \cup {NoPid, Absent}]
  /\ doomed \subseteq Pid
  /\ owner \in OwnerPc
  /\ monitor \in MonitorPc
  /\ restarts \subseteq Channel
  /\ current \in Channel \cup {NoChannel}
  /\ monitor \in {"pause", "relaunch"} => current \in Channel
  /\ proc \in [Pid -> {"free", "up", "dead"}]
  /\ script \in [Pid -> Channel \cup {NoChannel}]
  /\ deaths \in 0 .. MaxDeaths

(* "Stop all running adapters": when Stop has returned no adapter process  *)
(* runs, although the monitor may have been restarting one.                *)
StopLeavesNone ==
  owner = "idle" /\ ~running => \A p \in Pid : proc[p] # "up"

(* A channel is never served by two adapter processes at once, which would *)
(* answer every message twice.                                             *)
OnePerChannel ==
  \A p, q \in Pid :
    proc[p] = "up" /\ proc[q] = "up" /\ script[p] = script[q] => p = q

(* A dead process that the list of adapters still shows as running.        *)
Dead(c) == adapters[c] \in Pid /\ proc[adapters[c]] = "dead"

(* Where a dead child is seen as dead, the monitor notices every adapter   *)
(* that exited, for as long as the manager runs and whatever became of     *)
(* earlier restarts.                                                       *)
CrashNoticed == \A c \in Channel : Dead(c) ~> ~Dead(c)
=============================================================================
