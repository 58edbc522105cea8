----------------------------- MODULE MCServices -----------------------------
(***************************************************************************)
(* The services around the agents, for TLC: tools, credentials, plugins,   *)
(* configuration, skills and the browser, which share no state.  A         *)
(* behaviour is one of a single machine, chosen in the initial state and   *)
(* named by `which'; the variables of the others stay as they were, so     *)
(* that what is explored is the sum of the machines and not their product. *)
(***************************************************************************)
EXTENDS ToolRuntime, Toolbox, Auth, Plugins, GatewayProcess, Skills, Browser, TLC

VARIABLE which

Machine == {"exec", "process", "toolbox", "auth", "plugins", "config", "life",
            "hot", "install", "browser"}

\* Parameters of a machine that are all tried when it is the one that runs.
Of(machines, values) ==
  IF which \in machines THEN values ELSE {CHOOSE v \in values : TRUE}

-----------------------------------------------------------------------------
(* ToolRuntime: strict and lax configurations, and one without exec.       *)
MCToolConfigs ==
  {[exec |-> TRUE, ask |-> "on-miss", allow |-> {"ls"}, fallback |-> "denied"],
   [exec |-> TRUE, ask |-> "always", allow |-> {"ls"}, fallback |-> "approved"],
   [exec |-> TRUE, ask |-> "on-miss", allow |-> {}, fallback |-> "denied"],
   [exec |-> FALSE, ask |-> "off", allow |-> {}, fallback |-> "denied"]}

(* Two of them to start with; a reload goes to any.                        *)
MCFirstToolConfigs ==
  {g \in MCToolConfigs : g.exec /\ (g.ask = "always" \/ g.allow = {})}

(* Toolbox: two servers whose qualified tool names collide, and chains that *)
(* retry, continue and stop.                                               *)
MCMcpServers == (<<"a">> :> <<<<"b", "c">>, <<"d">>>>)
                  @@ (<<"a", "b">> :> <<<<"c">>>>)

MCPermissions ==
  {[allow |-> {}, deny |-> {}],
   [allow |-> {<<"group", "fs">>, <<"mcp", <<"a">>, <<"*">>>>},
    deny  |-> {<<"tool", "write">>}],
   [allow |-> {}, deny |-> {<<"mcp", <<"a", "b">>, <<"c">>>>}]}

ChainStep(tool, path, text) ==
  [tool |-> tool, action |-> "add", path |-> path, text |-> text]

InHome(tool, text) == ChainStep(tool, <<"home", "ws", "f">>, text)

MCChains ==
  {[policy |-> "retry", max_retries |-> 2, steps |->
      <<InHome(<<"web_search">>, <<"q">>), InHome(<<"edit">>, <<"prev">>),
        InHome(<<"read">>, <<>>)>>],
   [policy |-> "continue", max_retries |-> 1, steps |->
      <<InHome(<<"edit">>, <<"step0", "x">>),
        InHome(<<"mcp", "a", "b", "c">>, <<"prev">>),
        InHome(<<"write">>, <<"step0">>)>>],
   [policy |-> "retry", max_retries |-> 0, steps |->
      <<InHome(<<"web_fetch">>, <<>>)>>],
   [policy |-> "stop", max_retries |-> 1, steps |->
      <<InHome(<<"web_fetch">>, <<>>), InHome(<<"apply_patch">>, <<>>),
        ChainStep(<<"read">>, <<"home", "ws", "..", "etc">>, <<>>)>>],
   [policy |-> "continue", max_retries |-> 1, steps |->
      <<InHome(<<"cron">>, <<>>), InHome(<<"sessions_send">>, <<>>),
        InHome(<<"spawn_subagent">>, <<>>),
        ChainStep(<<"memory_get">>, <<"..">>, <<>>)>>]}

-----------------------------------------------------------------------------
(* Plugins: two of three are found twice, and one is broken where it is    *)
(* found first; the module of another may take a name of its own.          *)
Candidate(id, origin, ok) == [id |-> id, origin |-> origin, ok |-> ok]

MCPluginFolders ==
  <<Candidate("p", "config", FALSE), Candidate("q", "workspace", TRUE),
    Candidate("p", "global", TRUE), Candidate("q", "bundled", TRUE),
    Candidate("r", "bundled", TRUE)>>

PluginsOf(enabled, deny, allow, slot, entries) ==
  [enabled |-> enabled, deny |-> deny, allow |-> allow, slot |-> slot,
   entries |-> entries]

NoEntries == [id \in {} |-> TRUE]

MCPluginConfigs ==
  {PluginsOf(TRUE, {}, {}, "none", NoEntries),
   PluginsOf(TRUE, {"q"}, {"p", "q"}, "q", [id \in {"p"} |-> FALSE]),
   PluginsOf(TRUE, {"p", "x"}, {}, "r", NoEntries),
   PluginsOf(FALSE, {}, {}, "q", NoEntries)}

MCPluginNames == [p |-> {"p"}, q |-> {"p", "x"}, r |-> {"r"}]

MCHookPriority == [low |-> 0, high |-> 5]

(* GatewayProcess: a fresh installation and one with a configuration.      *)
MCConfigFiles == {[state |-> "good", root |-> [Empty EXCEPT !["agent"] = "a"]],
                  [state |-> "none", root |-> Empty]}

(* Skills: two files of one name, one of which lacks a binary, and a third. *)
SkillOf(dir, folder, name, key, always, needs, installs) ==
  [dir |-> dir, folder |-> folder, name |-> name, key |-> key,
   always |-> always, needs |-> needs, installs |-> installs]

Instruction(bin, method, valid) ==
  [bin |-> bin, method |-> method, valid |-> valid]

MCSkillFiles ==
  "a" :> SkillOf(1, "pdf", "", "", FALSE, {"pdftool"},
           <<Instruction("pdftool", "apt", TRUE), Instruction("gs", "brew", TRUE)>>)
  @@ "b" :> SkillOf(2, "pdf", "pdf", "pdfkey", TRUE, {},
           <<Instruction("gs", "brew", TRUE), Instruction("x", "cargo", TRUE),
             Instruction("pdftool", "download", TRUE)>>)
  @@ "c" :> SkillOf(2, "web", "web", "webkey", FALSE, {},
           <<Instruction("curl", "go", FALSE), Instruction("gs", "node", TRUE)>>)

-----------------------------------------------------------------------------
Symmetry == Permutations(ToolThread)

ServicesInit ==
  /\ which \in Machine
  /\ \E g \in Of({"exec"}, MCFirstToolConfigs) : ExecInit(g)
  /\ ProcInit
  /\ ToolboxInit
  /\ \E p \in Of({"auth"}, {"codex", "copilot"}) : AuthInit(p)
  /\ \E c \in Of({"plugins"}, PluginConfigs) : PluginsInit(c)
  /\ \E f \in Of({"config", "life"}, MCConfigFiles) : GpInit(f)
  /\ \E present \in {IF which = "hot" THEN {"b"} ELSE DOMAIN SkillFiles},
        bins \in Of({"install"}, SUBSET {"pdftool", "gs"}) :
       SkillsInit(present, bins)
  /\ BrowserInit

toolVars == <<execVars, procVars, toolboxVars, browserVars>>
hostVars == <<authVars, pluginVars, gpVars, skillVars>>

ToolsNext ==
  /\ \/ /\ which = "exec" /\ ExecNext
        /\ UNCHANGED <<procVars, toolboxVars, browserVars>>
     \/ /\ which = "process" /\ ProcNext
        /\ UNCHANGED <<execVars, toolboxVars, browserVars>>
     \/ /\ which = "toolbox" /\ ToolboxNext
        /\ UNCHANGED <<execVars, procVars, browserVars>>
     \/ /\ which = "browser" /\ BrowserNext
        /\ UNCHANGED <<execVars, procVars, toolboxVars>>
  /\ UNCHANGED <<which, hostVars>>

HostNext ==
  /\ \/ /\ which = "auth" /\ AuthNext
        /\ UNCHANGED <<pluginVars, gpVars, skillVars>>
     \/ /\ which = "plugins" /\ PluginsNext
        /\ UNCHANGED <<authVars, gpVars, skillVars>>
     \/ /\ which = "config" /\ ConfigNext
        /\ UNCHANGED <<authVars, pluginVars, skillVars>>
     \/ /\ which = "life" /\ LifeNext
        /\ UNCHANGED <<authVars, pluginVars, skillVars>>
     \/ /\ which = "hot" /\ HotNext
        /\ UNCHANGED <<authVars, pluginVars, gpVars>>
     \/ /\ which = "install" /\ InstallNext
        /\ UNCHANGED <<authVars, pluginVars, gpVars>>
  /\ UNCHANGED <<which, toolVars>>

ServicesSpec ==
  ServicesInit /\ [][ToolsNext \/ HostNext]_<<which, toolVars, hostVars>>
=============================================================================
