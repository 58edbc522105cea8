----------------------- MODULE ChannelAdaptersProofs -----------------------
(***************************************************************************)
(* Proofs about ChannelAdapters: for any number of channels, processes and *)
(* deaths, and on either platform, a Stop leaves no adapter process behind *)
(* and no channel ever has two of them.                                    *)
(***************************************************************************)
EXTENDS ChannelAdapters, TLAPS

(* Every adapter process that runs can still be found by a Stop.           *)
Owned ==
  \A p \in Pid : proc[p] = "up" => p \in doomed \/ \E c \in Channel : adapters[c] = p

(* A listed process serves the channel it is listed for.                   *)
ServesIt == \A c \in Channel : adapters[c] \in Pid => script[adapters[c]] = c

(* The list is empty from the moment Stop took it until the next Start,    *)
(* and processes wait to be killed only while Stop kills.                  *)
Phases ==
  /\ running => owner = "idle"
  /\ doomed # {} => owner = "stop_kill"
  /\ owner \in {"stop_kill", "stop_join"} \/ (owner = "idle" /\ ~running)
       => \A c \in Channel : adapters[c] = Absent

Inv == TypeOK /\ Owned /\ ServesIt /\ Phases /\ OnePerChannel

(* The manager as constructed, with nothing launched.                      *)
LEMMA InitInv == Init => Inv
<1> SUFFICES ASSUME Init PROVE Inv
  OBVIOUS
<1> USE AdapterAssumption DEF Init
<1>1. TypeOK
  <2>1. running \in BOOLEAN
    BY Zenon
  <2>2. /\ adapters \in [Channel -> Pid \cup {NoPid, Absent}]
        /\ proc \in [Pid -> {"free", "up", "dead"}]
        /\ script \in [Pid -> Channel \cup {NoChannel}]
        /\ deaths \in 0 .. MaxDeaths
    OBVIOUS
  <2> QED
    BY <2>1, <2>2 DEF TypeOK, OwnerPc, MonitorPc
<1>2. Owned /\ ServesIt
  BY DEF Owned, ServesIt
<1>3. Phases
  BY DEF Phases
<1>4. OnePerChannel
  BY DEF OnePerChannel
<1> QED
  BY <1>1, <1>2, <1>3, <1>4 DEF Inv

(* Start launches each channel's process under a fresh id.                 *)
LEMMA StartInv == Inv /\ Start => Inv'
<1> SUFFICES ASSUME Inv, Start PROVE Inv'
  OBVIOUS
<1> USE AdapterAssumption
<1>1. PICK L \in SUBSET Channel : \E f \in [L -> FreshPid] :
       /\ \A c, d \in L : f[c] = f[d] => c = d
       /\ adapters' = [c \in Channel |-> IF c \in L THEN f[c] ELSE Absent]
       /\ proc' = [p \in Pid |-> IF p \in Range(f) THEN "up" ELSE proc[p]]
       /\ script' = [p \in Pid |-> IF p \in Range(f)
                                   THEN CHOOSE c \in L : f[c] = p
                                   ELSE script[p]]
  BY DEF Start
<1>2. PICK f \in [L -> FreshPid] :
       /\ \A c, d \in L : f[c] = f[d] => c = d
       /\ adapters' = [c \in Channel |-> IF c \in L THEN f[c] ELSE Absent]
       /\ proc' = [p \in Pid |-> IF p \in Range(f) THEN "up" ELSE proc[p]]
       /\ script' = [p \in Pid |-> IF p \in Range(f)
                                   THEN CHOOSE c \in L : f[c] = p
                                   ELSE script[p]]
  BY <1>1
<1>3. /\ Range(f) \subseteq Pid
      /\ \A c \in L : f[c] \in Range(f)
      /\ \A p \in Range(f) : \E c \in L : f[c] = p
  BY DEF Range, FreshPid
<1>4. \A c \in L : (CHOOSE d \in L : f[d] = f[c]) = c
  BY <1>2
<1>5. \A p \in Range(f) : (CHOOSE c \in L : f[c] = p) \in L
  BY <1>3
<1>6. \A p \in Pid : proc[p] # "up"
  BY DEF Inv, Owned, Phases, Start
<1>7. /\ running' = TRUE /\ monitor' = "top" /\ owner = "idle" /\ ~running
      /\ UNCHANGED <<doomed, owner, restarts, current, deaths>>
  BY DEF Start, monitorVars
<1>8. \A c \in L : script'[f[c]] = c
  BY <1>2, <1>3, <1>4
<1>9. TypeOK'
  <2>1. adapters' \in [Channel -> Pid \cup {NoPid, Absent}]
    BY <1>2, <1>3
  <2>2. script' \in [Pid -> Channel \cup {NoChannel}]
    BY <1>2, <1>5 DEF Inv, TypeOK
  <2>3. proc' \in [Pid -> {"free", "up", "dead"}]
    BY <1>2 DEF Inv, TypeOK
  <2> QED
    BY <1>7, <2>1, <2>2, <2>3 DEF Inv, TypeOK, OwnerPc, MonitorPc
<1>10. Owned'
  BY <1>2, <1>3, <1>6 DEF Owned
<1>11. ServesIt'
  BY <1>2, <1>8 DEF ServesIt
<1>12. Phases'
  BY <1>7 DEF Inv, Phases
<1>13. OnePerChannel'
  BY <1>2, <1>3, <1>6, <1>8 DEF OnePerChannel
<1> QED
  BY <1>9, <1>10, <1>11, <1>12, <1>13 DEF Inv

(* Stop clears the flag, takes the list, kills and joins.                  *)
LEMMA StopInv == Inv /\ (StopBegin \/ StopStep) => Inv'
<1> USE AdapterAssumption
    DEF Inv, TypeOK, Owned, ServesIt, Phases, OnePerChannel, OwnerPc,
        MonitorPc, monitorVars, procVars
<1>1. ASSUME Inv, StopBegin PROVE Inv'
  <2>1. running' \in BOOLEAN /\ ~running'
    BY <1>1, Zenon DEF StopBegin
  <2>2. /\ owner' = "stop_take"
        /\ UNCHANGED <<doomed, monitorVars, procVars, adapters, monitor>>
    BY <1>1 DEF StopBegin
  <2>3. doomed = {}
    BY <1>1 DEF StopBegin
  <2> QED
    BY <1>1, <2>1, <2>2, <2>3
<1>2. Inv /\ StopTake => Inv'
  BY DEF StopTake
<1>3. Inv /\ StopKill => Inv'
  BY DEF StopKill
<1>4. Inv /\ StopKilled => Inv'
  BY DEF StopKilled
<1>5. Inv /\ StopJoin => Inv'
  BY DEF StopJoin
<1> QED
  BY <1>1, <1>2, <1>3, <1>4, <1>5 DEF StopStep

(* The monitor forgets only processes that are gone, and it launches a     *)
(* process only for an entry that is still listed.                         *)
LEMMA MonitorInv == Inv /\ MonitorStep => Inv'
<1> USE AdapterAssumption
    DEF Inv, TypeOK, Owned, ServesIt, Phases, OnePerChannel, OwnerPc,
        MonitorPc, monitorVars, procVars, ownerVars
<1>1. Inv /\ MonitorTop => Inv'
  BY DEF MonitorTop
<1>2. Inv /\ MonitorWake => Inv'
  BY DEF MonitorWake
<1>3. Inv /\ MonitorScan => Inv'
  BY DEF MonitorScan, Exited, LooksAlive
<1>4. Inv /\ MonitorDone => Inv'
  BY DEF MonitorDone
<1>5. Inv /\ MonitorPause => Inv'
  BY DEF MonitorPause
<1>6. Inv /\ MonitorCheck => Inv'
  BY DEF MonitorCheck
<1>7. Inv /\ MonitorRelaunch => Inv'
  BY DEF MonitorRelaunch, FreshPid, Named
<1>8. Inv /\ MonitorSkip => Inv'
  BY DEF MonitorSkip
<1> QED
  BY <1>1, <1>2, <1>3, <1>4, <1>5, <1>6, <1>7, <1>8 DEF MonitorStep

(* A process that dies, and a step that changes nothing.                   *)
LEMMA OtherInv == Inv /\ ((\E p \in Pid : Dies(p)) \/ UNCHANGED vars) => Inv'
  BY AdapterAssumption
     DEF Dies, vars, Inv, TypeOK, Owned, ServesIt, Phases, OnePerChannel,
         OwnerPc, MonitorPc, monitorVars, procVars, ownerVars

(* Inv holds in every reachable state.                                     *)
LEMMA AlwaysInv == Spec => []Inv
<1>1. Inv /\ [Next]_vars => Inv'
  BY StartInv, StopInv, MonitorInv, OtherInv DEF Next
<1> QED
  BY InitInv, <1>1, PTL DEF Spec

(* All variables of ChannelAdapterManager keep their types.                *)
THEOREM TypeCorrect == Spec => []TypeOK
<1>1. Inv => TypeOK
  BY DEF Inv
<1> QED
  BY AlwaysInv, <1>1, PTL

(* ChannelAdapterManager::Stop: whatever the monitor was doing, no adapter *)
(* process runs when it has returned.                                      *)
THEOREM StopIsComplete == Spec => []StopLeavesNone
<1>1. ASSUME Inv PROVE StopLeavesNone
  <2> SUFFICES ASSUME owner = "idle", ~running,
                      NEW p \in Pid, proc[p] = "up"
               PROVE  FALSE
    BY DEF StopLeavesNone
  <2>1. doomed = {} /\ \A c \in Channel : adapters[c] = Absent
    BY <1>1 DEF Inv, Phases
  <2> QED
    BY <1>1, <2>1, AdapterAssumption DEF Inv, Owned
<1> QED
  BY AlwaysInv, <1>1, PTL

(* monitor_loop: a restart never puts a second process beside one that     *)
(* still serves the channel.                                               *)
THEOREM NeverTwoAdapters == Spec => []OnePerChannel
<1>1. Inv => OnePerChannel
  BY DEF Inv
<1> QED
  BY AlwaysInv, <1>1, PTL
=============================================================================
