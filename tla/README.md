# QuantClaw: a TLA+ verification project

QuantClaw is a C++ agent gateway: clients connect over WebSocket, submit
requests to language-model agents, and the gateway runs agent loops that call
providers, tools, plugins (a Node sidecar process) and sub-agents, keeps session
transcripts on disk, and schedules cron jobs. This directory models the parts of
it whose correctness depends on concurrency, ordering, limits and failures.
Source paths below are relative to `src/src`, headers to `src/include/quantclaw`.

## 1. Inventory

| Component (source) | State | Operations | What is hard | What makes it correct |
|---|---|---|---|---|
| Command queue (`gateway/command_queue.cpp`) | lanes per session (pending deque, active command, settings), `active_count_`, id map, worker threads | Submit, Cancel, AbortSession, ConfigureSession, SetConfig, dispatcher pass, execute_command, Start, Stop | dispatcher, workers and clients interleave; interrupts forget a run that still executes | exact accounting, concurrency limit, one run per session, order, no message dropped without a trace or delivered twice, Stop joins everything |
| Gateway server (`gateway/gateway_server.cpp`), rate limiter and roles (`security/`) | connections, auth flags, request windows, threads of slow requests | open, close, message, hello, dispatch, Stop | a connection closes while its request runs; slow methods run on threads of their own | a request is answered once, limits hold in every window, Stop joins every thread |
| Gateway client (`gateway/gateway_client.cpp`) | pending calls, link, hello state | Connect, Call, Disconnect, socket thread | deadlines race answers; two mutexes | a call gets its own answer, and ends |
| Gateway process and configuration (`cli/gateway_commands.cpp`, `core/config.cpp`, `platform/service_unix.cpp`) | the file, what is in force, the watcher, the unit | start, reload by RPC, SIGUSR1 and watcher, config.set, shutdown, install | the file changes while it is read; two reloads interleave | what runs is what the file says |
| Agent loop (`core/agent_loop.cpp`) and failover (`providers/failover_resolver.cpp`, `cooldown_tracker.cpp`) | stop flag, cooldown per key, session pins, probe times | ProcessMessage(Stream), Stop, Resolve, RecordSuccess, RecordFailure, TryProbe | resolve and record are separate steps of several sessions | no key in cooldown is called unless it is the probe; calls are bounded |
| Context (`core/default_context_engine.cpp`, `context_pruner.cpp`, `multi_stage_compaction.cpp`) | the request of a turn | Assemble, CompactOverflow, Prune, compaction | thresholds count positions in lists that were just shortened | recent results reach the model, order and newest message are kept |
| Providers (`providers/*.cpp`) | request, half received stream | replay of a history, answer, stream, errors | cut histories, equal ids, chunks anywhere | results follow their calls, every call delivered once |
| Provider authentication (`auth/`, `cli/model_auth_commands.cpp`) | credential files, logins under way, runtime cache | login (browser, device), logout, refresh, save | a refresh races a login; a crash between write and rename; late callbacks | a login stays until logout |
| Session manager (`session/session_manager.cpp`) and its handlers | store, transcripts on disk | GetOrCreate, Append, GetHistory, Delete, Reset, Save/Load store | several files, truncating writes, a running agent appends after a reset | what was appended is in the current or an archived transcript |
| Session maintenance (`session/session_maintenance.cpp`) | files on disk | prune, cap entries, rotate, disk budget | nothing constructs it | |
| Cron scheduler (`core/cron_scheduler.cpp`) | job list, thread, cron.json | Add, Remove, Update, Load, Save, loop | the loop keeps raw job pointers while the list changes | the job that was due runs, once per due time, but for passes an edit disturbs |
| Sub-agents (`core/subagent.cpp`) | runs, children per parent | Spawn, Complete, Fail, Cancel, Cleanup | limit check and insertion are separate lock regions | lists and run table agree, the limit is exceeded by the racing threads at most |
| Tools (`tools/tool_registry.cpp`, `tool_chain.cpp`), permissions (`security/tool_permissions.cpp`), MCP (`mcp/`) | handlers, schemas, permission lists, servers, background processes | register, discover, execute, chains | registered again by reloads, names collide | what is offered can be run, chains stop as told |
| Exec approval (`security/exec_approval.cpp`) | pending and resolved requests, allow list | RequestApproval, Resolve, PruneExpired, Configure | an operator's answer races the caller's fallback; a reload between two reads | commands run as the configuration allows, one decision per request |
| Browser tool (`tools/browser_tool.cpp`) | browser process, socket, command ids, replies | initialize, navigate, evaluate, close | replies to calls that gave up | a call takes its own reply, nothing is kept |
| Plugin system and hooks (`plugins/`) | plugin records, sidecar handle, handlers | discovery, enabling, Initialize, Shutdown, Call, Fire, Register | four sources of enabling rules; handlers come and go | denied plugins stay off, the last answer wins |
| Sidecar manager (`plugins/sidecar_manager.cpp`) | child process, connection, monitor thread, restart count | Start, Stop, Call, monitor loop | crash, back-off, a call that times out | own answers only; Stop leaves no process |
| Skills (`skill/`) | loaded list, known files and names, watcher, installation | scan, watch, update, install | scan and watcher find the same skill | announced once; success is success |
| Channel adapters (`channels/adapter_manager.cpp`) | child processes, monitor thread | Start, Stop, monitor loop | a relaunch fails; Stop races the monitor | every configured adapter runs or is retried; Stop leaves none |
| Memory search, prompts, usage, channel policy, CLI, web API, platform | | | HTTP, files, parsing, scoring | |
| `src/ui`, `src/website`, TypeScript adapters, `src/sidecar` | | | other processes | |

Interactions: the gateway server calls the RPC handlers on a connection's thread
(or on one thread per slow request); handlers call the session manager, the
agent loop, the cron scheduler and the command queue; the command queue's workers
call the agent loop and the session manager and send responses through the
server; the agent loop asks the context engine for the request, the failover
resolver for a provider, the tool registry for tools, and those reach sub-agents
(which call back into an agent loop), execution approval, MCP servers and, through
the plugin system, the sidecar.

## 2. Modules and the code

Every module states in its header which files it translates; `PROJECT.json` maps
each definition to its lines. Common conventions: everything the code does while
it holds a mutex is one action; what it does between two lock regions is split at
the unlock. Program counters (`pc`, `owner`, `monitor`, `loop`) say where a thread
is. Variables marked "history" are not in the program. Bounds are constants named
`Max...`. A definition whose comment begins with "Mutant:" is a wrong version of
the definition below it; nothing of the specification uses it.

| Module | Code | State and actions |
|---|---|---|
| `CommandQueue` | `gateway/command_queue.cpp`, `rpchandler/rpc_handler_queue.cpp` | `lanes`, `command_to_session`, `active_count`, `workers`, a phase per command. Submit in five modes with overflow policies, Cancel, AbortSession, ConfigureSession, SetConfig; one dispatcher scan; SpawnWorker, ExecutorReturns, CompleteCommand; Start, Stop in three steps |
| `Mailbox`, `CommandQueueMailbox` | what the queue promises | The abstract specification: messages of a session wait, are handed over in batches, in order, one batch at a time, each once. `CommandQueueMailbox` gives the refinement mapping |
| `Gateway` | `gateway/gateway_server.cpp`, `gateway_client.cpp`, `protocol.hpp`, `security/rate_limiter.cpp`, `rbac.cpp` | connections, links with frames in both directions, request windows, threads of slow requests; the client's two mutexes, callers and socket thread. A "peer" is any other program that uses the gateway |
| `GatewayProcess` | `cli/gateway_commands.cpp`, `core/config.cpp`, `core/signal_handler.cpp`, `rpc_handler_config.cpp`, `platform/service_unix.cpp` | the file, its writers in two steps (truncate, write), reloads by RPC, watcher and signal in steps, shutdown by signal handler and main, the service unit |
| `AgentFailover` | `core/agent_loop.cpp`, `providers/failover_resolver.cpp`, `cooldown_tracker.cpp` | cooldown entries, profiles, pins, `mu_`, one turn per loop; the questions of a resolution one by one, outcomes of a call, RecordSuccess in its two regions, Stop, SetProfiles, clock |
| `Context` | `core/default_context_engine.cpp`, `context_pruner.cpp`, `multi_stage_compaction.cpp` and their use in a turn | the session's messages, the request, what the turn adds; tool rounds, overflow, end of turn |
| `Providers` | `providers/openai_provider.cpp`, `anthropic_provider.cpp`, `openai_codex_provider.cpp`, `stream_normalization.cpp` | the payload of a history; a stream of half lines put together to text and calls, the end of a transfer |
| `Auth` | `auth/`, `cli/model_auth_commands.cpp`, `providers/github_copilot_provider.cpp` | files as paths to inodes, one Save in steps, refresh with rotating tokens, login by browser (callback, pasted code) and by device, logout, crashes |
| `Sessions` | `session/session_manager.cpp`, `rpc_handler_agent.cpp`, `rpc_handler_openclaw.cpp`, `rpc_handler_session.cpp`, `web/api_routes.cpp` | store in memory and on disk, transcripts as lines, archive, a handler per thread; the calls of an agent request one by one, /compact, reset, delete, patch, crash in a write, restart |
| `CronScheduler` | `core/cron_scheduler.cpp`, `rpc_handler_cron.cpp`, set-up in `gateway_commands.cpp` | the vector's buffer, its size, the freed buffer that pointers may still name, `cron.json`; AddJob and its save, the read and the write of `cron.update`, RemoveJob, the loop's pass, Start, Stop, crash, restart |
| `Subagents` | `core/subagent.cpp`, `spawn_subagent` of the tool registry | run table, children lists, a stack of nested runs per thread; the two lock regions of Spawn with a limit of any sign, the runner's return, Complete, Fail, Cancel, Cleanup |
| `ToolRuntime` | `security/exec_approval.cpp`, exec and process tools of `tools/tool_registry.cpp` | a call of exec step by step against Configure, operator and expiry; background commands: start, list, poll (find, check, wait, get, release, assign, mark), kill, clear, remove, and what becomes of a session then |
| `Toolbox` | `tools/tool_registry.cpp`, `tools/tool_chain.cpp`, `security/tool_permissions.cpp`, `mcp/`, `security/sandbox.cpp` | handlers, schemas, MCP tools and servers, the checker; every built-in tool by the checks that decide its outcome; chains with retries, policies and template references |
| `Browser` | `tools/browser_tool.cpp` | initialize in steps, the socket, command ids, waiting calls and replies, close |
| `Plugins` | `plugins/plugin_registry.cpp`, `plugin_system.cpp`, `hook_manager.cpp` | candidates and enabling rules, the sidecar's report under the ids its modules give, calls against Shutdown, handlers and firing |
| `Sidecar` | `plugins/sidecar_manager.cpp`, `platform/ipc_tcp.cpp`, `process_unix.cpp`, `src/sidecar` as a process | manager members, `holder` of `ipc_mu_`, requests and answers on the wire, processes; Start, Stop, destructor, Call, monitor, deaths |
| `Skills` | `skill/skill_loader_meta.cpp`, `skill_loader_full.cpp`, `skill_parse_file.cpp`, `skill_hot_install.cpp`, `skill_install_deps.cpp`, `rpc_handler_skill.cpp` | files, the loader's list, scan and watcher step by step, updates, installation by instruction, to the PATH or by download |
| `ChannelAdapters` | `channels/adapter_manager.cpp` | `adapters_`, Stop's list, the monitor's restart list, processes; Start, Stop (take, kill, join), monitor (scan, pause, relaunch or skip), deaths |
| `CommandQueueProofs`, `GatewayProofs`, `AgentFailoverProofs`, `CronSchedulerProofs`, `SidecarProofs`, `ChannelAdaptersProofs` | | theorems about the module each is named after, with their proofs; `CommandQueueProofs` also proves the refinement of `Mailbox` |
| `ConversationProofs`, `ServicesProofs` | | theorems about `Sessions`, `Subagents`, `Context` and `Providers`; about `ToolRuntime`, `Toolbox`, `Browser`, `GatewayProcess`, `Auth`, `Plugins` and `Skills` |
| `MC...` | | instances for TLC. `MCConversation` and `MCServices` hold several machines that share no state: a behaviour belongs to the one that `which` names, so what is explored is their sum and not their product |

Undefined behaviour: in `CronScheduler` a pointer into a freed or shifted buffer
reads what was last written there; the other outcome, a crash, is possible at any
time. In `AgentFailover` every turn has an `AgentLoop` of its own: two turns on one
object race on plain strings, see section 6.

## 3. Runs

Passing runs:

| Run | Instance | What it shows |
|---|---|---|
| `queue_safety` | 2 sessions, 3 commands, 2 slots, all modes, Cancel of every id, AbortSession | accounting, no orphaned active lane, cancelled commands never run, no message delivered twice, order of starts, a quiet queue after Stop, with interrupts and aborts included |
| `queue_collect` | 2 sessions, 3 commands, collect mode, cap and concurrency raised at run time, fairness | the queue implements `Mailbox`; one run per session, the limit; a pending command is served unless newer ones of other sessions overtake it, Stop returns |
| `gateway_serve` | client with 2 callers or a peer with 4 frames; 2 connections, 3 ids, 3 ticks; limits of 3 in 2 s and 2 in 1 s | `AnswersMatch`: a call gets its own answer, a request is answered once and after its events; `LimitsHold` in every window, and RetryAfter is the least time that is enough, the edge of the window excepted |
| `agent_failover` | 2 turns of one session, 2 profiles, fallback model, 2 iterations, 1 overflow retry, a clock step of 30 s (a probe) or 60 s (the end of a cooldown), Retry-After 60 s or none | `CooldownKept`: cooldowns and the probe interval hold across turns; `TurnSound`: outcomes are charged to the key that was called, calls are bounded |
| `cron_calm` | 2 jobs, 1 client, 2 minutes, 1 crash, every edit also under a pass, fairness | `JobsSound`: the file follows the list; removed jobs stay removed, due jobs run; a pass that no edit disturbs runs what is due, and no due time is run twice but by a disturbed pass or the one after it |
| `sidecar_serve` | 2 process ids, 1 caller and the monitor, 2 rpc ids, 1 restart, 2 deaths, fairness | `ProcessesSound`: one process at a time; no call gets another call's answer, a dead sidecar is replaced or the manager gives up, Stop returns |
| `adapters_manage` | 2 channels, 3 process ids, 2 deaths, failing launches, fairness | Stop leaves no process, never two for a channel, a death is noticed |
| `conversation` | `Sessions`: 1 conversation with 2 spellings, 2 session ids, 2 request threads, 4 messages, 1 crash. `Context`: up to 7 messages, 2 overflow retries. `Providers`: every history of up to 4 of 6 kinds of messages, 6 streams cut into chunks of up to 4 half lines. `Subagents`: 2 threads, 2 parents, 3 runs, limits 0 and 1 | `TranscriptsKept`: no message vanishes from disk, no transcript without a session, a crash costs one message beside its own. `RequestsSound`: replies stand below their questions; exact context for a request that is alone. `ContextSound`: results are cut by age only, order and newest message kept, a chunk of a summary fits unless it is one message or all of fewer than eight. `ProvidersSound`: results follow their calls, chunks do not matter, streamed calls have distinct ids; `CallsDelivered`: every complete call of a whole answer is delivered once. `RunsTracked`: lists and run table agree, the limit (at least one) is exceeded by the racing threads less one |
| `services` | `ToolRuntime`: 2 threads, 2 approvals, 4 configurations and 1 reload, 2 processes. `Toolbox`: 2 servers whose names collide, 3 permission lists, 5 chains. `Auth`: 1 gateway thread and the command line, 3 tokens, 1 failure. `Plugins`: 3 plugins, one of which may report a name no folder has, 5 folders, 4 configurations, 2 hook handlers. `GatewayProcess`: 3 file changes. `Skills`: 3 files, two of one name, one with a download. `Browser`: 2 threads, 2 commands, 1 lost connection | `ToolsSafe`, `ToolboxSound`, `AuthSafe`, `PluginsSound`, `ConfigCaughtUp`, `SkillsSound`, `RepliesMatched`: see below |

Several properties are conjunctions of named parts; each part is stated and commented
in its module. Those of `services`: `ToolsSafe` (a command of exec runs without a
question only by an ask mode and an allow list that were in force during the call,
perhaps in two configurations; a request is resolved once and the caller acts on what
it recorded; the output of a background command is lost only to clear and to two calls
that are in `future.get()` at once), `ToolboxSound` (schemas and handlers agree
whatever is registered again; a chain respects attempts and policies and reports
success only then), `AuthSafe` (a login stays until logout through failures and
crashes, a stored refresh token is valid, the exchanged code belongs to this login),
`PluginsSound` (a plugin found in a folder and denied is neither on nor in the
sidecar, and an id no folder has comes on only by the word of a module that may run;
the answer of a modifying hook is that of the sidecar or of the lowest priority),
`ConfigCaughtUp` (an idle watcher is right), `SkillsSound` (between two
SetKnownMetadatas nobody is told of a skill twice; after an installation that reports
success every binary it knows a method for is on the PATH or, for a download, was
fetched), `RepliesMatched` (the session's maps hold what waiting calls need, and a
call takes its own reply).

Violations (each property is what a text of the repository says):

| Run | Text | What happens |
|---|---|---|
| `queue_interrupt` | per-session queue that enforces serialization (`gateway/command_queue.hpp:97`) | an interrupt forgets a run that still executes, and the next command starts beside it |
| `gateway_deadlock` | a synchronous call with a timeout (`gateway/gateway_client.hpp:35`) | at its deadline a call holds its own mutex and takes the table's, while the socket thread holds the table's and takes the call's (`gateway_client.cpp:103`, `:246`) |
| `sidecar_zombie` | crash restart (`plugins/sidecar_manager.hpp:41`) | on POSIX a child nobody waited for still answers `kill(pid, 0)`, so the crash is not noticed |

Why these bounds: the queue's hard cases need two sessions (the limit) and three
commands (active, pending, newer); the gateway's a call that expires, the answer
that is late and the link that replaces the lost one; the sidecar's a process that
dies, its successor and a late reply; sessions two requests that meet and one crash
between any two writes; failover two turns, so that one records while the other
resolves, and one step of the clock; approval two threads of which one is asked
while the other's request expires; credentials a refresh and a login on one file
and one failure; a login, its callback and a second one; skills two files of one
name and one edit. The 24 h decay of the failure count and the error kinds other
than `rate_limit` are in `AgentFailover` but outside its run.
Deadlock checking is off where clients may simply stop calling or a bound is
used up. In `gateway_serve` the instance is either the client or a peer, since the
two share nothing but the server's tables, which are kept per connection. In `cron_calm`
clients add, remove and update jobs at every step of the scheduler's pass, and the
buffer may grow under it: `disturbed` is a history variable that says whether an edit
has touched what the pass still points to, and no guard of the model reads it.
`queue_collect` has no starvation to show, since three commands run out: its liveness
property says by its own words (`Overtaken`) that newer commands of other sessions may
come first for ever.

## 4. Fairness

`CommandQueue`: weak fairness of the dispatcher, of each worker, of the debounce
clock and of a Stop that has begun: threads the system schedules, executors that
return (`AgentExecutor` must block until the run completes) and a `wait_for` with
a 100 ms timeout. Nobody has to submit or stop. `Gateway` (for `CallEnds`): the
socket thread goes on with the frame it has, and each caller with its call; a call
that waits reaches its deadline. `CronScheduler`: the loop, the
clock, and a gateway that is started again after a crash. `Sidecar`: each thread
that is not blocked; a call ends at its deadline, so no answer is assumed. Strong
fairness only where a thread waits for `ipc_mu_` while others call again and
again, and for a sidecar that is spawned again and again: it connects some time.
`ChannelAdapters`: a Stop that has begun and the monitor, whose sleeps end.
The other modules are checked for safety only.

## 5. Refinement and proofs

`CommandQueueMailbox` instantiates `Mailbox` with what the lanes hold:
`waiting` is the text of a session's pending commands, `active` what its runs
carry, `handled` what ended runs carried. `ImplementsMailbox` says that every step
of the queue, its restarts and changes of limits included, is a step of the mailbox
or a stutter, in collect mode without cancellation. Summaries and collections
neither drop a message as a whole nor repeat nor reorder one; but the abstract
queue has `Room` for so many uncut messages per session, the smallest cap in force,
and when more wait the oldest are cut to what a summary keeps of them, their first 150
characters (`short`). With interrupts it is false (`queue_interrupt`).

All proofs are for arbitrary sets of sessions, channels, callers, processes and
ids, arbitrary limits and configurations, and unbounded queues and histories within
the bounds that are constants too. They assume what the modules assume of their
constants (TLC evaluates it on every run) and nothing else, with two exceptions
that stand in the theorem as a hypothesis:

| Assumption | Why the code justifies it |
|---|---|
| `GatewayAssumption`: windows of at least a second, natural limits | `RateLimiter::Config`; the gateway uses 60 s (`cli/gateway_commands.cpp:255`) |
| `PeerAssumption`: what other programs send is a request frame, whose id is 0 in the model | `Parse` rejects any other text and changes nothing; ids of peers need only differ from the client's |
| `SetupAssumption` of `CronScheduler`: the first file is absent or a list of entries with distinct ids | ids are 8 random bytes; the file is written by the scheduler only |
| `ToolAssumption`: tool configurations have one of the three ask modes and a fallback | `AskModeFromString` maps any other text to `on-miss`, and any fallback but `approve` is `denied` |
| `ChainAssumption`, `LimitsAssumption` of `AgentFailover`: a chain of at least one model, profiles of known type | the primary model is always the first of the chain |
| `SessionsAssumption`: the spellings of a key normalise to it and a key to itself, limits are at least one; the values that stand for an absent entry and a torn store are no entry and no store | `NormalizeSessionKey`; the limits are literals of the callers; the two values exist in the model only |
| `ReloaderAssumption` of `GatewayProcess`: the threads of connections are not the watcher's, the signal handler's or the command line's | they are different threads or processes |
| `AuthAssumption`: the command line is no gateway thread, the threads are finitely many | the command line is a process of its own; with finitely many writers there is always a free inode |
| `HookAssumption` of `Plugins`: priorities are integers; the name that stands for the sidecar's answer is no plugin's | `HookRegistration::priority` is an `int`; the name exists in the model only |
| `ToolboxAssumption`: finitely many MCP servers, whose tools are a list, as are the steps of a chain; one of three policies, natural retries | the configuration and the JSON of a chain are finite lists; any other text is `stop_on_error` (`tool_chain.cpp:154`). A negative count of retries behaves as zero |
| `ContextAssumption`: the three ages at which the pruner acts are at least one, the other limits natural | the pruner takes at least one (`context_pruner.cpp:80`); `compact_keep_recent` is 20 unless the configuration sets it, see section 6 for 0 |
| `ProvidersAssumption`: histories, results and answers are lists; the role `tool` is only given to messages with results; the index of a fragment is natural | `Message` and its writers; the provider skips a fragment with a negative index (`openai_provider.cpp:533`) |
| `SkillsAssumption`: finitely many SKILL.md, whose installs are a list | they are files in directories; `SkillMetadata` keeps a vector |
| hypothesis `NoInterrupts` of `SerializedWithoutInterrupts` | without it the property is false: `queue_interrupt` |
| `LimitsAssumption`, `ThreadAssumption` of `Subagents`: limits are integers, zero and negative ones included; the threads are finitely many | `max_children` and `max_depth` are `int` and read from the file unchecked |
| hypothesis `CollectsOnly` of `MailboxImplemented`: the lanes collect, summarise what they drop, and have a cap of at least `Room` | the defaults of `QueueConfig`, as in `queue_collect`; the other modes promise something else |

Each safety property below follows from an inductive invariant that TLC checked on
the instance of its run before it was proved. What the invariant adds is what the
code relies on and never writes down.

`CommandQueueProofs`. `TypeCorrect` needs `Typed`: every lane is well-formed and
holds only ids already issued, or Submit's new id could not be known to be the
newest. On top of it `Owned` is inductive: a pending command is mapped, waits in
the lane of its own session, has never run, was not cancelled and is newer than
everything its session ever started; an active command is a live run of its
session. From `Owned` follow `PendingAlwaysMapped`, `NoOrphanLane` and
`CancelExcludesRun`, and, with the order of ids in each deque, `RunsInOrder`.
`ActiveCountCorrect` and `ConcurrencyLimited` count: a scan starts as many runs as
it activates lanes, because different lanes have different front commands.
`StopIsQuiet` needs `Joinable`: every worker that has not finished has its handle in
`workers_` or in Stop's list. `SerializedWithoutInterrupts` assumes that no client
interrupts or aborts and shows that every live run is the active command of its
lane. `NothingDeliveredTwice` needs `Delivery`: a message is held by one carrier
only, where a carrier is a pending command or a run, which a summary and a drain
keep because they move what they take. `MailboxImplemented` is the refinement. Its
invariant joins `Owned`, `Delivery`, the fact that a live run is active, and
`Collecting` (every lane is in collect mode). A Submit is Mailbox's Send whatever
the cap makes of it, because what a lane drops is carried on in its summary, and what
is cut there is older than what is not, unless the lane has room for one command only;
a scan
is a Begin for every session it serves at once, and takes all that waits; a
completion is an End; all else leaves the three images as they were.

`GatewayProofs`. `LimitsAlwaysHold`: a window lacks a prefix of the requests that were
let through, all of them too old to count (`IsWindow`), and so requests that are a
limit apart in number are a window apart in time (`Spaced`); counting the requests of
any window then is arithmetic, as is the answer of RetryAfter on both sides of the
edge. `AnswersAlwaysMatch` has four layers: links are used in order and only the
client's carry frames to it (`LinkInv`); on each connection a request id is in one
place, in the frames, at a handler thread or answered (`WireInv`); whatever carries an
id, on the wire, at a thread or at the socket thread, is about the method of the call
with that id (`AskedInv`); and the ids of the client's calls and of the table of
pending calls differ.

`AgentFailoverProofs`. `TurnsAlwaysSound` needs `Paid`: every call of a turn but the
first was paid for by an iteration or by an overflow retry, in each of the five ways
in which a call can end and a resolution can return. `CooldownAlwaysKept` needs, for
every profile a scan has collected, that it was free at some moment of this
resolution (`FreedOK`), since the choice comes after the questions, and that the
entry of a key in cooldown remembers the last failure or probe (`TrackerOK`). The
powers of 5 in `ComputeCooldown` are a table, because the prover has no
exponentiation.

`CronSchedulerProofs`. `JobsAlwaysSound` and `RemovedForGood`: the slots of the
buffer hold issued ids that were not removed, each once, and the file is what the
slots say unless a save is under way or was cut off (`StoreInv`, `LifeInv`), with
what the loop's pointers may name (`PassInv`). `DueTimesRunOnce`, with
clients that edit anything at any time: unless an edit has touched what a pass points
to, what it still has to visit is in the live buffer, was due and is visited once, and
a job's latest run lies before its next one except between the run and the write of
`next_run` (`PassIsCalm`); the first pass after a disturbed one collects again what
was run already, and leaves nothing of it (`Open`, `CalmInv`).

`SidecarProofs`. `OneSidecarAlways`: `pid_` names every live process that no Stop
left behind (`Tracked`); that stays so because whoever may spawn knows that `pid_`
names none (`Handover`), and because the positions of the owner and the monitor
exclude each other where both could (`Phases`). It holds whether or not
`kill(pid, 0)` finds a dead child. `RepliesAreOwn`: a connection on which no read
was cut off carries nothing but the request, or the answer, of the one Call that
holds `ipc_mu_` (`Own`).

`ChannelAdaptersProofs`. `StopIsComplete` and `NeverTwoAdapters` rest on one
inductive invariant: a running process is named exactly once, by an entry of
`adapters_` or by Stop's list (`Owned`), it serves the channel of its entry
(`ServesIt`), and the phases of owner and monitor exclude a relaunch after Stop
has taken the list (`Phases`).

`ConversationProofs`, about `Sessions`. `TranscriptsAreKept`, and `RequestsAlwaysSound`
with its two parts `RepliesFollow` and `ContextIsExact`, rest on one invariant,
`SessionsInv`. Once saved, `sessions.json` is
`store_`, and its ids were given out, each to one key (`StoreOK`). Whichever of the
two a restart finds names every transcript (`FilesNamed`); both hold until a start
has replaced a torn store by an empty one, which section 6 describes. Messages are
numbered in the order they are sent (`Numbered`). A line that a crash cut off holds no
message that was appended (`CutLines`), and the unreadable messages with the
transcripts that end in a cut line are never more than the crashes (`CutsCounted`, a
potential: the next append to such a transcript turns the one into the other). The
question of a request stays in its transcript until the session moves
(`QuestionKept`), and is the last message as long as nobody else wrote
(`QuestionLast`). What `GetHistory` returns is a recursive function over the lines;
`KeptExists` and `KeptPrefix` establish it for every transcript by induction in the
form in which it needs no operator as a parameter (`Least` and `Induction`, from
`WFMin`).

About `Subagents`, `RunsTrackedAlways` adds to the property that no run exists under
an id that was not generated yet; its bound on children counts the threads between
the check of the limit and the insertion, and for a limit below one all children a
parent ever had, since its list is made by the first and never taken away.

About `Context`, `ContextAlwaysSound`: between turns the history is a conversation,
its messages numbered as they were said, and in a turn the request is one for it
(`ContextHolds`). `IsRequest` says of a request that it begins with the prompt and
ends with the newest message, that spoken messages rise, and that each is the message
of the history, its results cut by age and by nothing else (`Respects`). Pruning,
compaction in one pass or in chunks, and the window guard each keep this, however
often an overflow repeats them. An age is the number of assistant messages after a
message, so `Respects` is arithmetic on cardinalities; the recursive functions are
followed by `Induction`.

About `Providers`, `ProvidersAlwaysSound` has three parts. `ReplayAlwaysPaired`: the ids
a payload still waits for are those of the message of the assistant which only results
have followed so far (`Awaited`), so a result that is let through has its call above it
(`Paired`). `ChunksNeverMatter`: the answer so far is what its whole lines say, whatever
half line waits (`UnderWay`), since a line does the same to two streams that agree
(`StepSame`, `HandlingAgrees`). `IdsAlwaysDistinct`: `EnsureUniqueToolCallId` always
finds an id (`FreshId`, by the pigeonhole principle); the calls a pass over the
fragments finishes have ids of their own and note them (`Completed`), and what the
caller was told is noted (`IdsFor`).

`ServicesProofs`. `RepliesAlwaysMatched`: ids of calls in flight were handed out,
one to each, and what is on the wire or stored under an id is about the operation of
its call. `ToolsAlwaysSafe`: each call has seen a configuration with the ask mode in
force and one that allows what the allow list allows, in each phase of a reload
(`ConfigInv`); a request that waits is pending or was resolved by somebody else
(`RecordInv`); the output of a session whose future was moved from is in it, or with
the one call that is between `get()` and the assignment, or was cleared, or two calls
were in `get()` at once (`SessionOk`, `CallOk`, joined in `ProcInv`).

`ToolboxAlwaysSound`: schemas are a list without repetitions of the tools that have a
handler, and a tool of an MCP server leads to a server that is connected (`OfferedOk`),
through registration, discovery in any order of the servers and renamed collisions. In a
chain, the calls made for a step that is over are at most the attempts its policy gives
it and only the last may have succeeded (`ChainSteps`); those of the step under way have
all failed and are as many as its attempts (`ChainNow`).

`ConfigCatchesUp`, for any first file and for the reloads and the life of the process
in one behaviour, which the run takes apart: file times only grow, and no thread
reloads for a process that is gone (`GpTimes`); whoever knows the file, because the
process booted with it, the watcher recorded its time or is about to (`KnowsFile`),
runs with what it says, or some reload under way has read it and has not reached
that part yet (`OnTheWay`). Two reloads that read different files at the same time
break the last step, and the property excepts them.

`AuthAlwaysSafe`: unless two writers met, the writer of a file has the temporary
inode to itself and finds in it what it wrote (`OwnInode`), which needs that path and
temporary path never name one inode (`PathsApart`) and that a new file gets an inode
nobody has open; that there is one is a count of the actors. The refresh token of the
record on disk, or of the one that replaces it, is valid (`RefreshValid`).

`PluginsAlwaysSound`: the handlers, and every copy a firing hook has taken, are sorted
by priority, so no handler still to run has a higher priority than one that has
answered, and the result is the lowest answered so far (`FireOK`). Modules may report
any id, that of another plugin or one that is found nowhere: the sidecar's report turns
on only ids the registry does not know, and a module that reports was let run by the
configuration (`InitializeAllowed`).

`SkillsAlwaysSound`, for hot installation and the installation of dependencies in one
behaviour, which the run takes apart: whoever made a name known, scan or watcher, is
the only one that tells of it and has not done so while it is about to (`Announced`),
since both look again under the lock of `known_names_`; what a scan chose before a
SetKnownMetadatas and tells after it is set apart. The instructions an
installation has passed without a failure have their binaries on the PATH or, the
downloads, fetched (`Passed`).

Only model-checked: liveness (`PendingServed`, `StopReturns`, `CrashRestart`,
`CallEnds`, `DueJobRuns`, `CrashNoticed`) and `ENABLED`, which the prover does not
cover; and `CallsDelivered`, which holds of the answers an API gives and not of every
sequence of lines, and whose definition uses `SelectSeq` and `FlattenSeq`, of which the
prover knows nothing beyond what the definition says of one input. Where a proof needs
recursion, the model has a recursive function, which can be reasoned about with
`Induction`; folds cannot, because their theorems take operators as parameters.

## 6. Deviations met while modelling

Where the code does something else than a comment, a name or its evident purpose,
the model does what the code does. Beside the three violations above:

- Queue: an interrupting command is queued behind older pending ones
  (`command_queue.cpp:364`, comment `:235`). A steering message becomes a run of
  its own (`:375`, comment `:373`). Handles of finished workers are never pruned,
  since a finished thread is still joinable (`:565`). An override is lost when its
  idle lane is erased (`:573`). Followup discards all other pending commands
  (`:553`). The collected messages are not read by the gateway's executor
  (`gateway_commands.cpp:383`), and no handler of the gateway calls Submit. Ids of
  drained commands stay mapped. A summary keeps 150 characters of a message
  (`:174`). The scan takes lanes in the order of the map and breaks off at the limit
  (`:522`), so clients who never stop submitting to early lanes starve a later one.
- Cron: AddJob during a pass may free the buffer the pass's pointers lead to
  (`cron_scheduler.cpp:348`), so the pass marks a dead copy and the live job runs
  again; RemoveJob shifts the elements under them (`:356`). The storage path is
  only remembered when the file could be read at start, so jobs of a fresh
  installation are never saved (`gateway_commands.cpp:316`, `cron_scheduler.hpp:69`).
  `next_run` of a job updated during its run is overwritten from the old schedule
  (`:365`). Of two concurrent `cron.update` calls one is lost
  (`rpc_handler_cron.cpp:193`). The gateway never calls Start
  (`gateway_commands.cpp:314`). `NoDoubleRun` bounds what an edit under a pass
  does: that pass may run any job, and the next one may repeat a run.
- Gateway: RetryAfter answers 0 when the oldest request is exactly as old as the
  window, while `purge_old` still keeps it, so a retry at once is refused again
  (`rate_limiter.cpp:72`, `:112`). finished handler threads stay in their list until Stop
  (`gateway_server.cpp:464`). A connection is used after the lock it was found
  under is released (`:376`); this is safe because one thread serves a connection.
- Configuration: the `exec` section, once removed from the file, stays in force.
  Options of the command line are lost on reload. Of two concurrent `config.set` one
  is lost. The `.bak` file is written and never read, and the file is written in
  place. A `tools` section that is no object makes the whole file fail. SIGHUP is
  ignored although the unit's ExecReload sends it. The signal callback runs on
  whichever thread takes the signal, which may be one that it then joins. The pid
  file is not written on Unix. A writer that is killed leaves a torn file, and then
  the process keeps its old configuration or starts with the defaults. The object form
  of `agents.defaults.model` overrides the model of `agent` (`config.cpp:456`).
- Sub-agents: a limit of zero lets the first spawn of a parent through, since only a
  parent that has a list is looked at (`subagent.cpp:75`). The tool passes depth 0
  always (`tool_registry.cpp:394`). Racing spawns exceed the children limit
  (`subagent.cpp:122`). A cancelled run becomes completed when its runner returns
  (`:167`). A run that returns no text stays running for ever and keeps its slot
  (`:143`). CleanupCompleted has no caller.
- Sidecar: response ids are not compared, so the rest of a line that was cut off
  at a deadline is taken for the next answer (`sidecar_manager.cpp:159`). When the
  monitor has given up, Stop returns without joining it, and destroying or
  restarting the manager ends the program (`:75`, `:194`). A Stop during a respawn
  leaves a process until it notices the closed connection (`:289`). Failed
  restarts are not counted (`:218`). `heartbeat_timeout_count` is unused.
- Plugins: `FireAsync` uses the mode of Fire, not always void as its comment says.
  An id the registry does not know, reported by a module, is enabled without a look at
  `deny` or `allow` (`plugin_registry.cpp:139`, `plugin-loader.ts:184`).
  `UnregisterHook` reads a list after erasing it (`hook_manager.cpp:253`). A call
  takes the sidecar's handle before Shutdown resets it (`plugin_system.cpp:115`).
- Adapters: deaths are not noticed on POSIX (`adapter_manager.cpp:228`). A failed
  relaunch is never repeated (`:258`). The fallback to node is unreachable on
  POSIX (`:97`).
- Sessions: with two requests in a session each may drop the other's message from
  its context, as "the one we just added" (`rpc_handler_agent.cpp:122`). A torn
  `sessions.json` loses all keys (`session_manager.cpp:487`). A torn transcript
  line swallows the next message (`:287`). A reply that arrives after a reset
  lands in the new conversation. /compact is not atomic
  (`rpc_handler_agent.cpp:62`); `sessions.compact` saves nothing
  (`rpc_handler_session.cpp:225`).
- Context: nothing calls SetSummaryFn, so the multi-stage compaction never runs in the
  gateway; fewer than eight messages are summarised in one pass whatever their size
  (`multi_stage_compaction.cpp:107`). CompactOverflow does not shrink requests of four
  messages or less and may repeat the prompt; a second one strips the summary of the
  first. With `compact_keep_recent` 0 the question itself would be left out.
- Providers: an OpenAI stream without `[DONE]` gives no end and drops the calls that
  are pending. A whole OpenAI answer keeps equal ids. Anthropic's unparsable
  arguments become `{}`. After partial text, a failover repeats it.
- Agent loop and failover: the gateway's one `AgentLoop` serves all sessions, so
  a turn that starts clears another's stop request (`agent_loop.cpp:196`), a Stop
  ends all turns, and the members that say whom to charge are shared. A model that
  does not exist gets no cooldown "to fall back immediately"
  (`cooldown_tracker.cpp:128`), but without a cooldown the next resolution returns
  the same model. With auth profiles every resolution makes a new provider object,
  so a failover never counts as a retry: there is no pause, and up to
  `max_iterations_` calls are made (`agent_loop.cpp:369`). When all keys are in
  cooldown the registry's own key is called without asking the tracker (`:165`).
  The table for timeouts says 30, 60, 120, 300 s, the code gives 30, 150, 300 s
  (`cooldown_tracker.cpp:133`). A success of an older call erases a cooldown that
  a newer failure has set. Nothing in the gateway sets a resolver.
- Authentication: all saves of a provider share one temporary file without a lock, so
  a refresh that meets a login whose write fails leaves no login
  (`provider_auth.cpp:157`). Logging out of Copilot keeps the cached token
  (README.md:297 of the repository). The Copilot provider returns a reference to a
  member that is used after its lock is released.
- Approval and tools: RequestApproval takes the fallback at once when nobody answers,
  though "Blocks until resolved or timeout" (`exec_approval.hpp:110`); its handler
  runs under the manager's own mutex (`exec_approval.cpp:186`). No line of a patch is
  taken for a header, so `apply_patch` changes nothing (`tool_registry.cpp:847`). The
  cron tool's "run" only reports. `edit` reads and writes without a lock. Two MCP
  servers can meet in one tool name, and the tools of a removed server stay. The
  `process` tool starts its command without sandbox or approval
  (`tool_registry.cpp:1029`), so `ToolsSafe` speaks of exec only. Two calls of poll or
  list that meet in `future.get()` lose the output (`:1015`, `:1077`), and clear drops
  it. Ask mode and allow list are read without the lock of Configure, so they may be
  of two configurations (`exec_approval.cpp:153`). Template references in inserted
  text are expanded too.
- Browser: a failed command gives `{}`, so navigation and clicks report success. The
  check for 172.16.0.0/12 covers all of 172. A second initialize leaks the first
  process. Nothing creates a BrowserSession.
- Skills: ScanForNewSkills records all files first, so it finds only those that
  appear while it runs (`skill_hot_install.hpp:82`). Nothing constructs
  SkillHotInstall. `skills.update` stores under the skill's key where the loader
  looks for its name, and nothing scans again. A skill whose binaries are missing is
  hidden from the installation that would bring them. A download goes to
  `~/.quantclaw/bin`, which the check for a binary does not search, so it is fetched
  again each time and never opens the gate (`skill_install_deps.cpp:133`, `:258`).
  StopWatching does not wait for a scan, and a SetKnownMetadatas during one makes it
  tell of skills that have become known.
- Session maintenance: a failed rename still truncates, archives of one second
  replace each other, and `sessions.json` counts as a transcript
  (`session_maintenance.cpp:339`).

Hazards known and covered by no property, because the code as it is does not hold
there or cannot go wrong: `rpc_handler_agent.cpp:122`, `exec_approval.cpp:186`,
`adapter_manager.cpp:258`, `agent_loop.cpp:196`, `cron_scheduler.cpp:365`,
`sidecar_manager.cpp:75` and `:81`, `provider_auth.cpp:157` (all above), and
`gateway_server.cpp:376`.

## 7. Not modelled

`PROJECT.json` lists every component with its reason. In short: memory search is
floating-point scoring; prompt builder, message commands, usage and the rest of the
command line assemble or print text; channel policy and session maintenance have no
caller; the platform layer and HTTP routes are seen through their callers; the
TypeScript parts are processes of their own. Of the modelled components the JSON
framing, status queries, logging, time stamps, builds for other systems and the
fields of messages that no decision looks at are left out. `Gateway` has the scopes of
roles, because a call without one is answered with PERMISSION_DENIED; no property is
about who may do what.
