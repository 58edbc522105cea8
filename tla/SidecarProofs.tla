---------------------------- MODULE SidecarProofs ----------------------------
(***************************************************************************)
(* Proofs about the plugin sidecar: for any number of calling threads,     *)
(* process ids, rpc ids and restarts, and whatever kill(pid, 0) says of a  *)
(* dead child, the manager never has two live processes apart from one     *)
(* that a Stop left behind, and a reply belongs to the Call that reads it  *)
(* unless a read was cut off.                                              *)
(*                                                                         *)
(* That one process runs at a time depends on where the two threads are:   *)
(* spawn_sidecar overwrites pid_, so every place that may spawn must know  *)
(* that pid_ names no live process.  Safe says it of both threads, Phases  *)
(* and Handover say which positions of the two exclude each other.         *)
(***************************************************************************)
EXTENDS Sidecar, SequenceTheorems, TLAPS

Stopping == {"stop_kill", "stop_wait", "stop_join", "stop_close"}

Restarting == {"backoff", "close", "spawn"}

\* Every live process that no Stop left behind is the one pid_ names.
Tracked == \A p \in Pid : Alive(p) /\ p \notin left => p = pid

\* running_ and stopping_ against the position of the two threads: a monitor
\* exists only while the manager runs or is being stopped, and a Call of the
\* monitor is its ping.
Phases ==
  /\ running => owner \in {"idle", "aborted"}
  /\ owner \in Stopping => stopping
  /\ owner = "start_accept" \/ (owner = "idle" /\ ~running)
       => monitor \in {"none", "ended"}
  /\ owner = "stop_close" => monitor = "none"
  /\ call[Mon] # "idle" => monitor = "ping"
  /\ monitor \in Restarting \cup {"accept"} => restart_count < max_restarts

\* Which process each thread has in hand, and that pid_ is free for the next.
Handover ==
  /\ owner = "start_accept" => child # NoPid /\ pid = child
  /\ monitor = "accept" => child # NoPid /\ pid \in {child, NoPid}
  /\ owner = "stop_wait" => /\ victim # NoPid
                            /\ pid \in {victim, NoPid}
                            /\ monitor \notin Restarting
  /\ monitor \in Restarting => pid = NoPid
  /\ owner = "idle" /\ ~running => pid = NoPid \/ pid \in left \/ ~Alive(pid)

\* What an uncut connection carries: nothing, or the request of the one Call
\* that holds ipc_mu_, or its answer.
Own ==
  \/ wire.torn
  \/ wire.todo = {} /\ wire.answers = <<>>
  \/ /\ holder # NoThread
     /\ \/ wire.todo = {req} /\ wire.answers = <<>>
        \/ wire.todo = {} /\ wire.answers = <<req>>

Inv == TypeOK /\ Tracked /\ Phases /\ Handover /\ Own

-----------------------------------------------------------------------------
\* One element appended to the empty sequence.
LEMMA AppendToNone ==
  ASSUME NEW S, NEW e \in S
  PROVE  Append(<<>>, e) = <<e>>
<1> DEFINE a == Append(<<>>, e)
<1>1. <<>> \in Seq(S)
  OBVIOUS
<1>2. Len(<<>>) = 0
  OBVIOUS
<1>3. a \in Seq(S) /\ Len(a) = Len(<<>>) + 1 /\ a[Len(<<>>) + 1] = e
  BY <1>1, AppendProperties
<1>4. Len(a) = 1 /\ a[1] = e
  BY <1>2, <1>3
<1>5. <<e>> \in Seq(S) /\ Len(<<e>>) = 1 /\ <<e>>[1] = e
  OBVIOUS
<1> HIDE DEF a
<1>6. a = <<e>>
  BY <1>3, <1>4, <1>5, SeqEqual
<1> QED
  BY <1>6 DEF a

\* The start of the program satisfies the invariant.
LEMMA Start == Init => Inv
<1> SUFFICES ASSUME Init
             PROVE  Inv
  OBVIOUS
<1> USE SidecarAssumption DEF Init
<1>1. wire \in Wire
  BY DEF Quiet, Wire
<1>2. TypeOK
  <2>1. restart_count \in 0 .. max_restarts /\ failures \in 0 .. MaxFailures
    OBVIOUS
  <2>2. \A t \in Threads : call[t] = "wait" <=> holder = t
    BY DEF Threads
  <2>3. /\ call \in [Threads -> {"idle", "lock", "wait"}]
        /\ proc \in [Pid -> {"free", "starting", "up", "dead"}]
    OBVIOUS
  <2> QED
    BY <1>1, <2>1, <2>2, <2>3 DEF TypeOK, OwnerPc, MonitorPc
<1>3. Tracked /\ Phases /\ Handover
  BY DEF Tracked, Phases, Handover, Alive, Stopping, Restarting, Threads
<1>4. Own
  BY DEF Own, Quiet
<1> QED
  BY <1>2, <1>3, <1>4 DEF Inv

-----------------------------------------------------------------------------
(* Call *)

\* A Call, of whatever thread, only moves its own place, ipc_mu_, the handle
\* and what is on the wire; the monitor's ends with the monitor at "top".
LEMMA CallKeeps ==
  ASSUME Inv, NEW t \in Threads, CallStep(t)
  PROVE  Inv'
<1> USE SidecarAssumption DEF Inv
<1>1. CASE CallBegin(t)
  BY <1>1
  DEF CallBegin, MayCall, managerVars, threadVars, procVars, TypeOK, Tracked,
      Phases,
      Handover, Own, Alive, Threads, Wire
<1>2. CASE CallCannotConnect(t)
  BY <1>2
  DEF CallCannotConnect, Locks, Return, managerVars, procVars, TypeOK, Tracked,
      Phases,
      Handover, Own, Alive, Threads, Wire, MonitorPc, Stopping, Restarting
<1>3. CASE CallWrite(t)
  BY <1>3
  DEF CallWrite, Locks, managerVars, threadVars, procVars, TypeOK, Tracked,
      Phases,
      Handover, Own, Alive, Threads, Wire
<1>4. CASE CallWriteFails(t)
  BY <1>4
  DEF CallWriteFails, Locks, Return, Close, Quiet, procVars, TypeOK, Tracked,
      Phases,
      Handover, Own, Alive, Threads, Wire, MonitorPc, Stopping, Restarting
<1>5. CASE CallReply(t)
  <2> USE DEF CallReply, Return, managerVars, procVars
  <2>1. wire' \in Wire
    <3>1. wire.answers \in Seq(Rpc) /\ wire.answers # <<>>
      BY <1>5 DEF TypeOK, Wire
    <3>2. Tail(wire.answers) \in Seq(Rpc)
      BY <3>1
    <3> QED
      BY <1>5, <3>2 DEF TypeOK, Wire
  <2>2. TypeOK'
    BY <1>5, <2>1 DEF TypeOK, Threads, MonitorPc
  <2>3. Tracked' /\ Phases' /\ Handover'
    BY <1>5 DEF TypeOK, Tracked, Phases, Handover, Alive, Threads, Stopping,
                Restarting
  <2>4. Own'
    BY <1>5 DEF TypeOK, Own, Wire
  <2> QED
    BY <2>2, <2>3, <2>4
<1>6. CASE CallTimeout(t)
  BY <1>6
  DEF CallTimeout, Return, Close, Quiet, procVars, TypeOK, Tracked, Phases,
      Handover, Own, Alive, Threads, Wire, MonitorPc, Stopping, Restarting
<1>7. CASE CallPartial(t)
  BY ZenonT(60), <1>7
  DEF CallPartial, Return, managerVars, procVars, TypeOK, Tracked, Phases,
      Handover, Own, Alive, Threads, Wire, MonitorPc, Stopping, Restarting
<1> QED
  BY <1>1, <1>2, <1>3, <1>4, <1>5, <1>6, <1>7 DEF CallStep

-----------------------------------------------------------------------------
(* Start, Stop and the destructor *)

\* Start, Stop and the destructor keep the invariant: they spawn only while
\* no monitor restarts, and stop only while the monitor cannot spawn unseen.
LEMMA OwnerKeeps ==
  ASSUME Inv, OwnerStep
  PROVE  Inv'
<1> USE SidecarAssumption DEF Inv, Alive, Stopping, Restarting
<1>1. CASE StartSpawn
  BY <1>1
  DEF StartSpawn, Spawn, FreshPid, callVars, TypeOK, Tracked, Phases, Handover,
      Own, OwnerPc
<1>2. CASE StartAccepted
  <2> USE DEF StartAccepted, Accepted, Quiet
  <2>1. TypeOK'
    <3>1. wire' \in Wire
      BY <1>2 DEF Wire
    <3>2. restart_count' \in 0 .. max_restarts /\ failures' \in 0 .. MaxFailures
      BY <1>2 DEF TypeOK
    <3>3. {pid', handle', victim', child'} \subseteq Pid \cup {NoPid}
      BY <1>2 DEF TypeOK
    <3>4. /\ proc' \in [Pid -> {"free", "starting", "up", "dead"}]
          /\ owner' \in OwnerPc /\ monitor' \in MonitorPc
          /\ {running', stopping'} \subseteq BOOLEAN
      BY <1>2 DEF TypeOK, OwnerPc, MonitorPc
    <3> QED
      BY <1>2, <3>1, <3>2, <3>3, <3>4 DEF TypeOK
  <2>2. Tracked'
    BY <1>2 DEF TypeOK, Tracked, Handover
  <2>3. Phases' /\ Handover'
    BY <1>2 DEF TypeOK, Phases, Handover
  <2>4. Own'
    BY <1>2 DEF Own
  <2> QED
    BY <2>1, <2>2, <2>3, <2>4
<1>3. CASE StartNotAccepted
  BY <1>3
  DEF StartNotAccepted, NotAccepted, TypeOK, Tracked, Phases, Handover, Own,
      OwnerPc
<1>4. CASE StopBegin
  BY <1>4
  DEF StopBegin, callVars, procVars, TypeOK, Tracked, Phases, Handover, Own,
      OwnerPc
<1>5. CASE StopKill
  BY <1>5
  DEF StopKill, managerVars, callVars, procVars, TypeOK, Tracked, Phases,
      Handover, Own, OwnerPc
<1>6. CASE StopWaited
  BY <1>6
  DEF StopWaited, callVars, TypeOK, Tracked, Phases, Handover, Own, OwnerPc
<1>7. CASE StopJoin
  BY <1>7
  DEF StopJoin, managerVars, callVars, procVars, TypeOK, Tracked, Phases,
      Handover, Own, OwnerPc, MonitorPc
<1>8. CASE StopClose
  BY <1>8
  DEF StopClose, Close, Quiet, TypeOK, Tracked, Phases, Handover, Own, OwnerPc,
      Wire
<1>9. CASE Destroy
  BY <1>9
  DEF Destroy, managerVars, callVars, procVars, TypeOK, Tracked, Phases,
      Handover, Own, OwnerPc
<1> QED
  BY <1>1, <1>2, <1>3, <1>4, <1>5, <1>6, <1>7, <1>8, <1>9 DEF OwnerStep

-----------------------------------------------------------------------------
(* monitor_loop *)

\* The monitor loop keeps it: pid_ is cleared before every restart.
LEMMA MonitorKeeps ==
  ASSUME Inv, MonitorStep
  PROVE  Inv'
<1> USE SidecarAssumption DEF Inv, Alive, Stopping, Restarting
<1>1. CASE MonitorTop
  BY <1>1
  DEF MonitorTop, managerVars, callVars, procVars, TypeOK, Tracked, Phases,
      Handover, Own, MonitorPc
<1>2. CASE MonitorWake
  <2> USE DEF MonitorWake, IsRunning, LooksAlive, callVars, procVars
  <2>1. TypeOK'
    BY <1>2 DEF TypeOK, MonitorPc
  <2>2. Tracked'
    BY <1>2 DEF TypeOK, Tracked
  <2>3. Phases'
    BY <1>2 DEF TypeOK, Phases, MonitorPc
  <2>4. Handover'
    BY <1>2 DEF TypeOK, Phases, Handover
  <2>5. Own'
    BY <1>2 DEF Own
  <2> QED
    BY <2>1, <2>2, <2>3, <2>4, <2>5
<1>3. CASE CallNotRunning
  BY <1>3
  DEF CallNotRunning, MayCall, managerVars, callVars, procVars, TypeOK,
      Tracked, Phases, Handover, Own, MonitorPc
<1>4. CASE MonitorBackoff
  BY <1>4
  DEF MonitorBackoff, managerVars, callVars, procVars, TypeOK, Tracked, Phases,
      Handover, Own, MonitorPc
<1>5. CASE MonitorClose
  BY <1>5
  DEF MonitorClose, Close, Quiet, procVars, TypeOK, Tracked, Phases, Handover,
      Own, MonitorPc, Wire
<1>6. CASE MonitorSpawn
  BY <1>6
  DEF MonitorSpawn, Spawn, FreshPid, callVars, TypeOK, Tracked, Phases,
      Handover, Own, MonitorPc
<1>7. CASE MonitorSpawnFails
  BY <1>7
  DEF MonitorSpawnFails, managerVars, callVars, procVars, TypeOK, Tracked,
      Phases, Handover, Own, MonitorPc
<1>8. CASE MonitorAccepted
  BY <1>8
  DEF MonitorAccepted, Accepted, Quiet, TypeOK, Tracked, Phases, Handover, Own,
      MonitorPc, Wire
<1>9. CASE MonitorNotAccepted
  BY <1>9
  DEF MonitorNotAccepted, NotAccepted, TypeOK, Tracked, Phases, Handover, Own,
      MonitorPc
<1> QED
  BY <1>1, <1>2, <1>3, <1>4, <1>5, <1>6, <1>7, <1>8, <1>9 DEF MonitorStep

-----------------------------------------------------------------------------
(* The sidecar process *)

\* The sidecar answers, shuts down or dies.
LEMMA ProcessKeeps ==
  ASSUME Inv, NEW p \in Pid, Answer(p) \/ NoticesClose(p) \/ Dies(p)
  PROVE  Inv'
<1> USE SidecarAssumption DEF Inv, Alive
<1>1. CASE Answer(p)
  <2> USE DEF Answer, managerVars, threadVars, procVars
  <2>1. PICK id \in wire.todo :
          wire' = [wire EXCEPT !.answers = Append(@, id), !.todo = @ \ {id}]
    BY <1>1
  <2>2. wire.answers \in Seq(Rpc) /\ id \in Rpc
    BY <2>1 DEF TypeOK, Wire
  <2>3. Append(wire.answers, id) \in Seq(Rpc)
    BY <2>2, AppendProperties
  <2>4. wire' \in Wire
    BY <2>1, <2>3 DEF TypeOK, Wire
  <2>5. TypeOK'
    BY <1>1, <2>4 DEF TypeOK
  <2>6. Tracked' /\ Phases' /\ Handover'
    BY <1>1 DEF Tracked, Phases, Handover
  <2>7. Own'
    <3>1. /\ wire'.todo = wire.todo \ {id} /\ wire'.answers = Append(wire.answers, id)
          /\ wire'.torn = wire.torn
      BY <2>1 DEF TypeOK, Wire
    <3>2. ~wire.torn => /\ holder # NoThread /\ wire.todo = {req} /\ id = req
                        /\ wire.answers = <<>>
      BY <2>1 DEF Own
    <3>3. Append(<<>>, id) = <<id>>
      BY <2>2, AppendToNone
    <3> QED
      BY <1>1, <3>1, <3>2, <3>3 DEF Own
  <2> QED
    BY <2>5, <2>6, <2>7
<1>2. CASE NoticesClose(p)
  BY <1>2
  DEF NoticesClose, managerVars, threadVars, callVars, TypeOK, Tracked, Phases,
      Handover, Own
<1>3. CASE Dies(p)
  BY <1>3
  DEF Dies, managerVars, threadVars, callVars, TypeOK, Tracked, Phases,
      Handover, Own
<1> QED
  BY <1>1, <1>2, <1>3

-----------------------------------------------------------------------------
\* Nothing of the invariant is outside the variables.
LEMMA Stutter == Inv /\ UNCHANGED vars => Inv'
  BY DEF vars, managerVars, threadVars, callVars, procVars, Inv, TypeOK, Tracked, Phases,
     Handover, Own, Alive

\* The invariant holds in every reachable state.
LEMMA Invariance == Spec => []Inv
<1>1. Init => Inv
  BY Start
<1>2. Inv /\ [Next]_vars => Inv'
  <2> SUFFICES ASSUME Inv, [Next]_vars
               PROVE  Inv'
    OBVIOUS
  <2>1. CASE UNCHANGED vars
    BY <2>1, Stutter
  <2>2. CASE Next
    BY <2>2, CallKeeps, OwnerKeeps, MonitorKeeps, ProcessKeeps
    DEF Next, ProcStep
  <2> QED
    BY <2>1, <2>2
<1> QED
  BY <1>1, <1>2, PTL DEF Spec

\* Whatever calls time out, however often the sidecar dies and is started
\* again, and even if a Stop comes while the monitor restarts it, never two
\* sidecar processes run, apart from one that a Stop left behind
\* (SidecarManager::spawn_sidecar, kill_sidecar and monitor_loop).
THEOREM OneSidecarAlways == Spec => []ProcessesSound
<1>1. Inv => ProcessesSound
  BY DEF Inv, ProcessesSound, OneProcess, Tracked
<1> QED
  BY <1>1, Invariance, PTL

\* A Call gets the answer to its own request, whatever timed out, died or was
\* restarted before, unless a read on this connection was cut off in the
\* middle of a line (SidecarManager::Call does not compare ids).
THEOREM RepliesAreOwn == Spec => ResponseIsOwn
<1>1. Inv /\ [Next]_vars
        => [\A t \in Threads :
              CallReply(t) => Head(wire.answers) = req \/ wire.torn]_vars
  BY DEF Inv, Own, CallReply
<1> QED
  BY <1>1, Invariance, PTL DEF Spec, ResponseIsOwn
=============================================================================
