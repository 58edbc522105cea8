------------------------------- MODULE Plugins -------------------------------
(***************************************************************************)
(* The plugin system around the sidecar (src/plugins): discovery and the    *)
(* enabling rules, what the sidecar reports, calls into it, native hooks.   *)
(* The sidecar process itself is module Sidecar; here it is there or not.   *)
(*                                                                         *)
(* A candidate is [id, origin, ok]: ok says that its manifest parses.  A    *)
(* hook handler answers a patch of one key or throws; a result is the       *)
(* handler whose patch the key has in the end.                              *)
(***************************************************************************)
EXTENDS Integers, FiniteSets, Sequences, SequencesExt

CONSTANTS
  PluginThread,    \* threads that call plugins and fire hooks
  PluginFolders,   \* what the folders hold, in the order they are scanned
  PluginConfigs,   \* [enabled, deny, allow, slot, entries]
  PluginDefaults,  \* kBundledEnabledByDefault
  PluginNames,     \* per id of a folder: the ids its module may report for itself
  HookPlugins,     \* plugins with native handlers
  HookPriority,    \* their priority
  MaxHooks         \* bound: handlers of a hook

ASSUME HookAssumption ==
  /\ HookPriority \in [HookPlugins -> Int]
  /\ "sidecar" \notin HookPlugins

VARIABLES
  plConfig,    \* the configuration the system was initialised with
  plRecords,   \* plugins_ by id
  plSidecar,   \* sidecar_: none, running or dead, and the plugins in it
  plCall,      \* per thread: a call into the sidecar
  hkHandlers,  \* hooks_[name]
  hkFire       \* per thread: a hook being fired

pluginVars == <<plConfig, plRecords, plSidecar, plCall, hkHandlers, hkFire>>

(***************************************************************************)
(* PluginRegistry.                                                         *)
(***************************************************************************)
\* Mutant: the memory slot is looked at first.
should_enable_SlotFirst(id, origin, c) ==
  \/ c.slot = id
  \/ /\ c.enabled /\ id \notin c.deny /\ (c.allow = {} \/ id \in c.allow)
     /\ IF id \in DOMAIN c.entries THEN c.entries[id] ELSE origin # "bundled" \/ id \in PluginDefaults

should_enable(id, origin, c) ==
  /\ c.enabled /\ id \notin c.deny /\ (c.allow = {} \/ id \in c.allow)
  /\ \/ c.slot = id
     \/ IF id \in DOMAIN c.entries THEN c.entries[id] ELSE origin # "bundled" \/ id \in PluginDefaults

\* scan_directory leaves out what has no manifest that parses.
Candidates == SelectSeq(PluginFolders, LAMBDA c : c.ok)

Found == {Candidates[i].id : i \in DOMAIN Candidates}

\* Discover: of the candidates of an id the first one counts.
Discover(c) ==
  LET first(id) == Candidates[CHOOSE i \in DOMAIN Candidates :
                     Candidates[i].id = id /\ \A j \in 1 .. i - 1 : Candidates[j].id # id]
  IN  [id \in Found |->
         [origin |-> first(id).origin, enabled |-> should_enable(id, first(id).origin, c), tools |-> FALSE]]

EnabledPluginIds(records) == {id \in DOMAIN records : records[id].enabled}

\* Mutant: a plugin that is reported is on.
UpdateFromSidecar_Enables(records, reported) ==
  [id \in DOMAIN records \cup reported |->
     IF id \in reported THEN [origin |-> "config", enabled |-> TRUE, tools |-> TRUE]
     ELSE records[id]]

\* UpdateFromSidecar: the plugins it reports get their capabilities, and those the
\* registry does not know are added, as enabled, without a look at the configuration.
UpdateFromSidecar(records, reported) ==
  [id \in DOMAIN records \cup reported |->
     IF id \notin DOMAIN records THEN [origin |-> "config", enabled |-> TRUE, tools |-> TRUE]
     ELSE [records[id] EXCEPT !.tools = @ \/ id \in reported]]

(***************************************************************************)
(* PluginSystem.                                                           *)
(***************************************************************************)
NoSidecar == [state |-> "none", loaded |-> {}]

\* The sidecar loads those of the enabled plugins that it can, and reports each by
\* the id that its module gives (loadPlugin), which may be another one.
Loads(records) ==
  UNION {{name \in [loaded -> UNION {PluginNames[id] : id \in loaded}] :
            \A id \in loaded : name[id] \in PluginNames[id]} :
         loaded \in SUBSET EnabledPluginIds(records)}

\* Initialize: the sidecar is started when a plugin is enabled and its script is
\* found.
Initialize(c, script, starts, listed) ==
  LET records == Discover(c)
  IN  /\ plConfig.state = "new"
      /\ plConfig' = [state |-> "up", config |-> c]
      /\ IF EnabledPluginIds(records) = {} \/ ~ script \/ ~ starts
           THEN plRecords' = records /\ UNCHANGED plSidecar
           ELSE \E name \in Loads(records) :
                  LET reported == {name[id] : id \in DOMAIN name}
                  IN  /\ plSidecar' = [state |-> "running", loaded |-> DOMAIN name]
                      /\ plRecords' = IF listed THEN UpdateFromSidecar(records, reported)
                                      ELSE records
      /\ UNCHANGED <<plCall, hkHandlers, hkFire>>

\* Shutdown fires gateway_stop, stops the sidecar and drops it, also from the
\* signal thread and while calls are under way.
Shutdown ==
  /\ plConfig.state = "up"
  /\ plConfig' = [plConfig EXCEPT !.state = "down"]
  /\ plSidecar' = NoSidecar
  /\ UNCHANGED <<plRecords, plCall, hkHandlers, hkFire>>

SidecarDies ==
  /\ plSidecar.state = "running"
  /\ plSidecar' = [plSidecar EXCEPT !.state = "dead"]
  /\ UNCHANGED <<plConfig, plRecords, plCall, hkHandlers, hkFire>>

\* CallTool and the other calls: sidecar_ is checked and then used.
CheckSidecar(t) ==
  /\ plCall[t] # "checked" /\ plConfig.state # "new"
  /\ plCall' = [plCall EXCEPT ![t] = IF plSidecar.state = "running" THEN "checked" ELSE "unavailable"]
  /\ UNCHANGED <<plConfig, plRecords, plSidecar, hkHandlers, hkFire>>

\* With Shutdown between the two the pointer is null: the outcome is undefined.
CallSidecar(t, ok) ==
  /\ plCall[t] = "checked"
  /\ ok => plSidecar.state = "running"
  /\ plCall' = [plCall EXCEPT ![t] = IF plSidecar.state = "none" THEN "undefined"
                                     ELSE IF ok THEN "result" ELSE "error"]
  /\ UNCHANGED <<plConfig, plRecords, plSidecar, hkHandlers, hkFire>>

(***************************************************************************)
(* HookManager.                                                            *)
(***************************************************************************)
\* Mutant: the handlers stay in the order they came.
RegisterHook_Unsorted(p) ==
  /\ Len(hkHandlers) < MaxHooks
  /\ hkHandlers' = Append(hkHandlers, p)
  /\ UNCHANGED <<plConfig, plRecords, plSidecar, plCall, hkFire>>

\* Highest priority first; std::sort leaves the order of equals open.
RegisterHook(p) ==
  LET n == Len(hkHandlers) + 1
      all == Append(hkHandlers, p)
  IN  /\ Len(hkHandlers) < MaxHooks
      /\ \E s \in [1 .. n -> 1 .. n] :
           /\ \A i, j \in 1 .. n : s[i] = s[j] => i = j
           /\ \A i, j \in 1 .. n : i < j => HookPriority[all[s[i]]] >= HookPriority[all[s[j]]]
           /\ hkHandlers' = [i \in 1 .. n |-> all[s[i]]]
      /\ UNCHANGED <<plConfig, plRecords, plSidecar, plCall, hkFire>>

\* Those of a plugin go, the others keep their order.
UnregisterHook(p) ==
  LET rest == {i \in DOMAIN hkHandlers : hkHandlers[i] # p}
      n == Cardinality(rest)
  IN  /\ rest # DOMAIN hkHandlers
      /\ \E s \in [1 .. n -> rest] :
           /\ \A i, j \in 1 .. n : i < j => s[i] < s[j]
           /\ hkHandlers' = [i \in 1 .. n |-> hkHandlers[s[i]]]
      /\ UNCHANGED <<plConfig, plRecords, plSidecar, plCall, hkFire>>

ClearHooks ==
  /\ hkHandlers # <<>>
  /\ hkHandlers' = <<>>
  /\ UNCHANGED <<plConfig, plRecords, plSidecar, plCall, hkFire>>

NoFire == [pc |-> "idle", mode |-> "void", list |-> <<>>, left |-> {}, answered |-> {}, result |-> "none"]

\* Fire copies the handlers under the lock.
Fire(t, mode) ==
  /\ hkFire[t].pc = "idle" /\ hkHandlers # <<>>
  /\ hkFire' = [hkFire EXCEPT ![t] = [NoFire EXCEPT !.pc = "run", !.mode = mode, !.list = hkHandlers,
                                                    !.left = DOMAIN hkHandlers]]
  /\ UNCHANGED <<plConfig, plRecords, plSidecar, plCall, hkHandlers>>

\* FireVoid runs them in parallel, FireModifying and FireSync one after the other,
\* merging what they answer; one that throws is left out.
RunHandler(t, i, throws) ==
  LET f == hkFire[t]
  IN  /\ f.pc = "run" /\ i \in f.left
      /\ f.mode # "void" => \A j \in f.left : i <= j
      /\ hkFire' = [hkFire EXCEPT ![t] =
           [f EXCEPT !.left = @ \ {i}, !.answered = IF throws THEN @ ELSE @ \cup {f.list[i]},
                     !.result = IF throws \/ f.mode = "void" THEN @ ELSE f.list[i]]]
      /\ UNCHANGED <<plConfig, plRecords, plSidecar, plCall, hkHandlers>>

\* ForwardToSidecar: an answer of the sidecar is merged last.
ForwardToSidecar(t, ok) ==
  LET f == hkFire[t]
  IN  /\ f.pc = "run" /\ f.left = {}
      /\ ok => plSidecar.state = "running"
      /\ hkFire' = [hkFire EXCEPT ![t] = [f EXCEPT !.pc = "done",
           !.answered = IF ok THEN @ \cup {"sidecar"} ELSE @,
           !.result = IF ok /\ f.mode # "void" THEN "sidecar" ELSE @]]
      /\ UNCHANGED <<plConfig, plRecords, plSidecar, plCall, hkHandlers>>

FireReturns(t) ==
  /\ hkFire[t].pc = "done"
  /\ hkFire' = [hkFire EXCEPT ![t] = NoFire]
  /\ UNCHANGED <<plConfig, plRecords, plSidecar, plCall, hkHandlers>>

-----------------------------------------------------------------------------
PluginsInit(c) ==
  /\ plConfig = [state |-> "new", config |-> c]
  /\ plRecords = [id \in {} |-> {}]
  /\ plSidecar = NoSidecar
  /\ plCall = [t \in PluginThread |-> "idle"]
  /\ hkHandlers = <<>>
  /\ hkFire = [t \in PluginThread |-> NoFire]

PluginsNext ==
  \/ \E script, starts, listed \in BOOLEAN : Initialize(plConfig.config, script, starts, listed)
  \/ Shutdown \/ SidecarDies \/ ClearHooks
  \/ \E p \in HookPlugins : RegisterHook(p) \/ UnregisterHook(p)
  \/ \E t \in PluginThread :
       \/ CheckSidecar(t) \/ (\E ok \in BOOLEAN : CallSidecar(t, ok))
       \/ (\E mode \in {"void", "modifying"} : Fire(t, mode)) \/ FireReturns(t)
       \/ \E i \in 1 .. MaxHooks, throws \in BOOLEAN : RunHandler(t, i, throws)
       \/ \E ok \in BOOLEAN : ForwardToSidecar(t, ok)

-----------------------------------------------------------------------------
\* The configuration's word on an id: every other rule only takes away.
MayLoad(id, c) == c.enabled /\ id \notin c.deny /\ (c.allow = {} \/ id \in c.allow)

\* Of the plugins found in folders, what the configuration forbids is neither on
\* nor in the sidecar, whichever folder a plugin was found in, whichever slot names
\* it and whatever the modules call themselves, be it the id of a plugin that is
\* denied.  An id that no folder has gets on, denied or not, only by the word of a
\* module that the configuration lets run (plugin_registry.cpp:139, 345,
\* plugin_system.cpp:65, plugin-loader.ts:184).
DeniedStaysOff ==
  LET c == plConfig.config
  IN  /\ plSidecar.loaded \subseteq Found
      /\ \A id \in EnabledPluginIds(plRecords) \cup plSidecar.loaded :
           \/ MayLoad(id, c)
           \/ id \notin Found /\ \E p \in Found : MayLoad(p, c) /\ id \in PluginNames[p]

\* A modifying hook ends with the answer of the sidecar if there is one, else with
\* that of the lowest priority among the handlers that answered, although handlers
\* come, go and throw while it runs (hook_manager.cpp:66, 80, 147).
LastAnswerWins ==
  \A t \in PluginThread :
    LET f == hkFire[t]
    IN  f.pc = "done" /\ f.mode # "void" =>
          IF "sidecar" \in f.answered THEN f.result = "sidecar"
          ELSE IF f.answered = {} THEN f.result = "none"
          ELSE f.result \in f.answered /\ \A p \in f.answered : HookPriority[f.result] <= HookPriority[p]

\* Configuration and priorities decide, not the order of events: the parts above.
PluginsSound == DeniedStaysOff /\ LastAnswerWins
=============================================================================
