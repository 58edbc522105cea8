------------------------------- MODULE Toolbox -------------------------------
(***************************************************************************)
(* The tool registry (src/tools/tool_registry.cpp) with its permission      *)
(* lists (src/security/tool_permissions.cpp), the tools of MCP servers      *)
(* (src/mcp) and the chain executor (src/tools/tool_chain.cpp).             *)
(*                                                                         *)
(* A name is the sequence of its parts between double underscores, so that *)
(* MakeQualifiedName is concatenation and two servers can meet in one name.*)
(* A text is a sequence of tokens: words, and the template references      *)
(* "prev" ({{prev.result}}), "step0", ... ({{steps[0].result}}).             *)
(***************************************************************************)
EXTENDS Naturals, FiniteSets, Sequences, SequencesExt

CONSTANTS
  McpServers,    \* server name -> the tool names it offers
  Permissions,   \* configurations: [allow, deny], sets of entries
  Chains,        \* chain definitions: [policy, max_retries, steps]
  MaxDiscover    \* bound: discoveries of MCP tools

\* Numbered from 1 to its length.
IsVector(s) == s \in Seq(Range(s))

ASSUME ToolboxAssumption ==
  /\ MaxDiscover \in Nat
  /\ IsFiniteSet(DOMAIN McpServers)
  /\ \A s \in DOMAIN McpServers : IsVector(McpServers[s])
  /\ \A c \in Chains : /\ c.policy \in {"stop", "continue", "retry"}
                       /\ c.max_retries \in Nat
                       /\ IsVector(c.steps)

VARIABLES
  tools,       \* tools_: names with a handler
  schemas,     \* tool_schemas_: names, in order
  external,    \* external_tools_
  checker,     \* permission_checker_: the configuration it was built from
  mcpTool,     \* tool_to_server_, tool_to_original_name_: name -> [server, tool]
  mcpClients,  \* clients_
  discoveries,
  disk,        \* the text of a file in the workspace
  chain        \* a chain under way

toolboxVars == <<tools, schemas, external, checker, mcpTool, mcpClients, discoveries, disk, chain>>

(***************************************************************************)
(* Permissions.                                                            *)
(***************************************************************************)
kGroups == [fs |-> {"read", "write", "edit"}, runtime |-> {"exec"},
            all |-> {"read", "write", "edit", "exec", "message"}]

\* The tools that the group: and tool: entries name.
ListedTools(entries) ==
  UNION ({IF e[2] \in DOMAIN kGroups THEN {<<n>> : n \in kGroups[e[2]]} ELSE {}
            : e \in {x \in entries : x[1] = "group"}}
         \cup {{<<e[2]>>} : e \in {x \in entries : x[1] = "tool"}})

IsToolAllowed(p, name) ==
  /\ name \notin ListedTools(p.deny)
  /\ p.allow = {} \/ <<"group", "all">> \in p.allow \/ name \in ListedTools(p.allow)

IsMcpToolAllowed(p, server, tool) ==
  LET named == {<<"mcp", server, tool>>, <<"mcp", server, <<"*">>>>}
  IN  /\ named \cap p.deny = {}
      /\ p.allow = {} \/ <<"mcp", "*">> \in p.allow \/ named \cap p.allow # {}

\* A name that no MCP server has any more resolves to an empty server and tool.
McpOf(name) == IF name \in DOMAIN mcpTool THEN mcpTool[name] ELSE [server |-> <<>>, tool |-> <<>>]

check_permission(name) ==
  IF name \in external
    THEN IsMcpToolAllowed(checker, McpOf(name).server, McpOf(name).tool)
    ELSE IsToolAllowed(checker, name)

\* std::remove_if: the elements in keep, in their order.
Filtered(s, keep) ==
  LET f[i \in 0 .. Len(s)] ==
        IF i = 0 THEN <<>> ELSE IF s[i] \in keep THEN Append(f[i - 1], s[i]) ELSE f[i - 1]
  IN  f[Len(s)]

\* What the model is told about.
GetToolSchemas == Filtered(schemas, {n \in Range(schemas) : check_permission(n)})

(***************************************************************************)
(* Registration.                                                           *)
(***************************************************************************)
\* Mutant: the old schema stays.
Registered_Twice(ss, name) == Append(ss, name)

Registered(ss, name) == Append(Filtered(ss, Range(ss) \ {name}), name)

RegisteredAll(ss, names) ==
  LET f[i \in 0 .. Len(names)] == IF i = 0 THEN ss ELSE Registered(f[i - 1], names[i])
  IN  f[Len(names)]

BuiltinTools == <<<<"read">>, <<"write">>, <<"edit">>, <<"exec">>, <<"bash">>,
  <<"apply_patch">>, <<"process">>, <<"message">>, <<"web_search">>, <<"web_fetch">>,
  <<"memory_search">>, <<"memory_get">>>>

\* The first thing the gateway does with its registry.
RegisterBuiltinTools ==
  /\ tools = {}
  /\ tools' = Range(BuiltinTools)
  /\ schemas' = RegisteredAll(schemas, BuiltinTools)
  /\ UNCHANGED <<external, checker, mcpTool, mcpClients, discoveries, disk, chain>>

\* The tools that come with a manager, in the order in which the gateway sets them.
ManagerTools == <<<<"chain">>, <<"skill">>, <<"spawn_subagent">>, <<"cron">>,
                  <<"sessions_list">>, <<"sessions_history">>, <<"sessions_send">>>>

SetManager ==
  LET left == SelectSeq(ManagerTools, LAMBDA n : n \notin tools)
  IN  /\ left # <<>>
      /\ tools' = tools \cup {Head(left)}
      /\ schemas' = Registered(schemas, Head(left))
      /\ UNCHANGED <<external, checker, mcpTool, mcpClients, discoveries, disk, chain>>

SetPermissionChecker(p) ==
  /\ checker # p
  /\ checker' = p
  /\ UNCHANGED <<tools, schemas, external, mcpTool, mcpClients, discoveries, disk, chain>>

\* mcp__{server}__{tool}.
MakeQualifiedName(server, tool) == <<"mcp">> \o server \o tool

\* DiscoverTools for the servers that answer, in the order of the configuration
\* (of two tools with one qualified name the last one wins), and RegisterInto.
\* What a server no longer offers stays.
Discovered(order) ==
  LET at == UNION {{<<i, j>> : j \in DOMAIN McpServers[order[i]]} : i \in DOMAIN order}
      found(p) == [server |-> order[p[1]], tool |-> McpServers[order[p[1]]][p[2]]]
      named(n) == {p \in at : MakeQualifiedName(found(p).server, found(p).tool) = n}
      Later(p, q) == p[1] < q[1] \/ (p[1] = q[1] /\ p[2] < q[2])
      names == {MakeQualifiedName(found(p).server, found(p).tool) : p \in at}
  IN  [n \in names \cup DOMAIN mcpTool |->
         IF n \in names
           THEN found(CHOOSE p \in named(n) : \A q \in named(n) : ~ Later(p, q))
           ELSE mcpTool[n]]

DiscoverTools(order) ==
  /\ discoveries < MaxDiscover
  /\ discoveries' = discoveries + 1
  /\ mcpTool' = Discovered(order)
  /\ mcpClients' = mcpClients \cup {order[i] : i \in DOMAIN order}
  /\ \E ns \in SetToSeqs(DOMAIN mcpTool') : schemas' = RegisteredAll(schemas, ns)
  /\ external' = external \cup DOMAIN mcpTool'
  /\ tools' = tools \cup DOMAIN mcpTool'
  /\ UNCHANGED <<checker, disk, chain>>

(***************************************************************************)
(* Tools.  The outcomes of a call: it throws, or it returns a text, and    *)
(* leaves a text on disk.                                                  *)
(***************************************************************************)
Throws == [ok |-> FALSE, result |-> <<>>, disk |-> disk]
Returns(text) == [ok |-> TRUE, result |-> text, disk |-> disk]

\* Paths are sequences of components; weakly_canonical collapses "..".
Canonical(path) ==
  FoldLeft(LAMBDA p, c : IF c = ".." THEN (IF p = <<>> THEN p ELSE Front(p)) ELSE Append(p, c), <<>>, path)

ValidateFilePath(path, workspace) == IsPrefix(Canonical(workspace), Canonical(path))

Workspace == <<"home", "ws">>

read_file_tool(path)        == IF ValidateFilePath(path, Workspace) THEN Returns(disk) ELSE Throws
write_file_tool(path, text) == IF ValidateFilePath(path, Workspace)
                                 THEN [Returns(<<"wrote">>) EXCEPT !.disk = text] ELSE Throws

\* The first "old" is replaced by the text; without one the call throws.
edit_file_tool(path, text) ==
  LET at == {i \in DOMAIN disk : disk[i] = "old"}
      i  == CHOOSE j \in at : \A k \in at : j <= k
  IN  IF ValidateFilePath(path, Workspace) /\ at # {}
        THEN [Returns(<<"edited">>) EXCEPT
                !.disk = SubSeq(disk, 1, i - 1) \o text \o SubSeq(disk, i + 1, Len(disk))]
        ELSE Throws

\* No line of a patch is ever taken for a file header (the code compares a longer
\* prefix of the line with a shorter literal), so no file is touched.
apply_patch_tool(marked) == IF marked THEN Returns(<<"applied 0">>) ELSE Throws

\* web_search asks the providers that have a key, and DuckDuckGo, in this order;
\* DuckDuckGo without results is passed over in silence.
Cascade == <<"brave", "tavily", "perplexity", "duckduckgo", "grok">>
web_search_tool(keys, answers) ==
  LET asked == SelectSeq(Cascade, LAMBDA p : p = "duckduckgo" \/ p \in keys)
      good  == SelectSeq(asked, LAMBDA p : p \in answers)
  IN  IF good = <<>> THEN Throws ELSE Returns(<<Head(good)>>)

\* web_fetch: the scheme and the host are checked, then the status (0: no answer).
web_fetch_tool(scheme, host, status, long) ==
  IF scheme \in {"http", "https"} /\ host # "private" /\ status \in 1 .. 399
    THEN Returns(IF long THEN <<"page", "truncated">> ELSE <<"page">>) ELSE Throws

\* MCPServer::HandleRequest on tools/call, as MCPClient::CallTool sees it.
HandleCallTool(server, tool, runs) ==
  IF \E i \in DOMAIN McpServers[server] : McpServers[server][i] = tool /\ runs
    THEN [error |-> "none"] ELSE [error |-> "tool"]

\* MCPToolManager::ExecuteTool: the server must be known and answer without error.
McpExecute(name, up, runs) ==
  IF /\ name \in DOMAIN mcpTool /\ mcpTool[name].server \in mcpClients /\ up
     /\ HandleCallTool(mcpTool[name].server, mcpTool[name].tool, runs).error = "none"
    THEN Returns(<<"answer">>) ELSE Throws

\* cron add needs a schedule and a message, remove and run an id; run only
\* reports: nothing is triggered.
cron_tool(action, given) ==
  IF \/ action \in {"list", "status"}
     \/ action = "add" /\ {"schedule", "message"} \subseteq given
     \/ action \in {"remove", "run"} /\ "id" \in given
    THEN Returns(<<"cron", action>>) ELSE Throws

\* sessions_list, sessions_history and sessions_send, by their required parameters.
SessionNeeds == [sessions_list |-> {}, sessions_history |-> {"sessionKey"},
                 sessions_send |-> {"sessionKey", "message"}]
sessions_tool(name, given) ==
  IF SessionNeeds[name] \subseteq given THEN Returns(<<name>>) ELSE Throws

\* spawn_subagent needs a task; a refused spawn is a result, not an error.
spawn_tool(given) == IF "task" \in given THEN Returns(<<"spawn">>) ELSE Throws

\* memory_get stays in the workspace and needs the file.
memory_get_tool(path, exists) ==
  IF ValidateFilePath(Workspace \o path, Workspace) /\ exists THEN Returns(disk) ELSE Throws

\* ToolRegistry::ExecuteTool.
Outcomes(step, text) ==
  IF step.tool \notin tools \/ ~ check_permission(step.tool) THEN {Throws}
  ELSE CASE step.tool = <<"read">>  -> {read_file_tool(step.path)}
         [] step.tool = <<"write">> -> {write_file_tool(step.path, text)}
         [] step.tool = <<"edit">>  -> {edit_file_tool(step.path, text)}
         [] step.tool = <<"apply_patch">> -> {apply_patch_tool(m) : m \in BOOLEAN}
         [] step.tool = <<"web_search">> ->
              {web_search_tool(k, a) : k \in SUBSET {"brave", "grok"},
                                       a \in SUBSET {"brave", "duckduckgo", "grok"}}
         [] step.tool = <<"web_fetch">> ->
              {web_fetch_tool("https", h, s, b) : h \in {"public", "private"}, s \in {0, 200, 404}, b \in BOOLEAN}
         [] step.tool = <<"cron">> ->
              {cron_tool(step.action, g) : g \in SUBSET {"schedule", "message", "id"}}
         [] step.tool[1] \in DOMAIN SessionNeeds ->
              {sessions_tool(step.tool[1], g) : g \in SUBSET {"sessionKey", "message"}}
         [] step.tool = <<"spawn_subagent">> -> {spawn_tool(g) : g \in SUBSET {"task"}}
         [] step.tool = <<"memory_get">> -> {memory_get_tool(step.path, x) : x \in BOOLEAN}
         [] step.tool \in external -> {McpExecute(step.tool, u, r) : u, r \in BOOLEAN}
         [] OTHER -> {Throws, Returns(<<"done">>)}

(***************************************************************************)
(* Chains.                                                                 *)
(***************************************************************************)
NoChain == [on |-> FALSE, def |-> [policy |-> "stop", max_retries |-> 1, steps |-> <<>>],
            results |-> <<>>, attempts |-> 0, calls |-> <<>>, success |-> TRUE,
            final |-> <<>>, done |-> FALSE]

\* resolve_string: first every {{prev.result}}, then every {{steps[N].result}},
\* the ones in inserted text too; a step that has not run is empty text.
StepToken == [step0 |-> 0, step1 |-> 1, step2 |-> 2]
Replace(text, is(_), by(_)) ==
  FlattenSeq([i \in DOMAIN text |-> IF is(text[i]) THEN by(text[i]) ELSE <<text[i]>>])
resolve_string(text, results) ==
  Replace(Replace(text, LAMBDA t : t = "prev",
                  LAMBDA t : IF results = <<>> THEN <<>> ELSE Last(results).result),
          LAMBDA t : t \in DOMAIN StepToken,
          LAMBDA t : IF StepToken[t] < Len(results) THEN results[StepToken[t] + 1].result ELSE <<>>)

MaxAttempts(def) == IF def.policy = "retry" THEN def.max_retries ELSE 1

BeginChain(def) ==
  /\ ~ chain.on
  /\ chain' = [NoChain EXCEPT !.on = TRUE, !.def = def]
  /\ UNCHANGED <<tools, schemas, external, checker, mcpTool, mcpClients, discoveries, disk>>

\* The step's result is recorded; a failed step ends the chain unless its policy
\* is to continue, and the last good result is the chain's.
StepDone(c, r) ==
  LET results == Append(c.results, r)
      good    == {i \in DOMAIN results : results[i].ok}
      stop    == ~ r.ok /\ c.def.policy # "continue"
      end     == stop \/ Len(results) = Len(c.def.steps)
  IN  [c EXCEPT !.results = results, !.attempts = 0, !.success = @ /\ r.ok, !.done = end,
                !.final = IF stop THEN <<"stopped">>
                          ELSE IF end /\ good # {}
                            THEN results[CHOOSE i \in good : \A j \in good : j <= i].result ELSE @]

\* Mutant: one attempt more than max_retries.
ChainCall_OneMore ==
  LET i == Len(chain.results) + 1  step == chain.def.steps[i]
      text == resolve_string(step.text, chain.results)
  IN  /\ chain.on /\ ~ chain.done /\ i <= Len(chain.def.steps)
      /\ \E o \in Outcomes(step, text) :
           LET c == [chain EXCEPT !.attempts = @ + 1, !.calls = Append(@, [step |-> i, ok |-> o.ok, text |-> text])]
           IN  /\ disk' = o.disk
               /\ chain' = IF o.ok \/ c.attempts = MaxAttempts(chain.def) + 1
                             THEN StepDone(c, [ok |-> o.ok, result |-> o.result]) ELSE c
      /\ UNCHANGED <<tools, schemas, external, checker, mcpTool, mcpClients, discoveries>>

\* One call of a step's tool; a step without attempts fails at once.
ChainCall ==
  LET i == Len(chain.results) + 1  step == chain.def.steps[i]
      text == resolve_string(step.text, chain.results)
  IN  /\ chain.on /\ ~ chain.done /\ i <= Len(chain.def.steps)
      /\ IF MaxAttempts(chain.def) = 0
           THEN chain' = StepDone(chain, [ok |-> FALSE, result |-> <<>>]) /\ UNCHANGED disk
           ELSE \E o \in Outcomes(step, text) :
             LET c == [chain EXCEPT !.attempts = @ + 1, !.calls = Append(@, [step |-> i, ok |-> o.ok, text |-> text])]
             IN  /\ disk' = o.disk
                 /\ chain' = IF o.ok \/ c.attempts = MaxAttempts(chain.def)
                               THEN StepDone(c, [ok |-> o.ok, result |-> o.result]) ELSE c
      /\ UNCHANGED <<tools, schemas, external, checker, mcpTool, mcpClients, discoveries>>

-----------------------------------------------------------------------------
ToolboxInit ==
  /\ tools = {} /\ schemas = <<>>
  /\ external = {} /\ checker = [allow |-> {}, deny |-> {}]
  /\ mcpTool = <<>> /\ mcpClients = {} /\ discoveries = 0
  /\ disk = <<"old", "old">> /\ chain = NoChain

ToolboxNext ==
  \/ RegisterBuiltinTools
  \/ /\ tools # {}
     /\ \/ SetManager
        \/ \E p \in Permissions : SetPermissionChecker(p)
        \/ \E order \in SetToAllKPermutations(DOMAIN McpServers) : DiscoverTools(order)
        \/ \E c \in Chains : BeginChain(c)
        \/ ChainCall

-----------------------------------------------------------------------------
\* What the model is offered can be run and is offered once, whatever is
\* registered again after a reload: the schemas and the handlers have the same
\* names, and of an MCP tool the server that would run it is one the permission
\* lists allow (tool_registry.cpp:109, 643, 661, 690).
OfferedRuns ==
  /\ \A i, j \in DOMAIN schemas : schemas[i] = schemas[j] => i = j
  /\ Range(schemas) = tools
  /\ \A n \in Range(GetToolSchemas) \cap external :
       LET m == mcpTool[n]
       IN  m.server \in mcpClients /\ IsMcpToolAllowed(checker, m.server, m.tool)

\* A chain calls no step again that succeeded and none more often than its policy
\* says, goes on after a failure only if told to, and reports success only if
\* every step succeeded (tool_chain.cpp:78).
ChainReport ==
  LET of(i) == {k \in DOMAIN chain.calls : chain.calls[k].step = i}
  IN  chain.on =>
        /\ \A i \in DOMAIN chain.def.steps :
             /\ Cardinality(of(i)) <= MaxAttempts(chain.def)
             /\ \A k, l \in of(i) : k < l => ~ chain.calls[k].ok
        /\ chain.done /\ chain.success =>
             \A i \in DOMAIN chain.def.steps : \E k \in of(i) : chain.calls[k].ok
        /\ chain.def.policy # "continue" =>
             \A i \in DOMAIN chain.results : ~ chain.results[i].ok => i = Len(chain.results) /\ chain.done

\* What the tools report is what they can do and did: the parts above.
ToolboxSound == OfferedRuns /\ ChainReport
=============================================================================
