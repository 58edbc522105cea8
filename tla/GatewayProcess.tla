---------------------------- MODULE GatewayProcess ----------------------------
(***************************************************************************)
(* The gateway process and its configuration: `quantclaw gateway run`       *)
(* (src/cli/gateway_commands.cpp), the configuration file                   *)
(* (src/core/config.cpp), the reloads by RPC, by SIGUSR1 and by the file    *)
(* watcher, the signal handler and the user service.                        *)
(*                                                                         *)
(* A file holds sections; a section is a value or "none".  Every change of  *)
(* the file gives it another modification time.  Nothing locks the file or  *)
(* the shared configuration: two reloads interleave at the steps below.     *)
(***************************************************************************)
EXTENDS Naturals, FiniteSets

CONSTANTS
  RpcThread,   \* threads of connections
  Paths,       \* the sections that config.set writes
  MaxChanges   \* bound: changes of the file's modification time

ASSUME ReloaderAssumption == RpcThread \cap {"watcher", "signal", "cli"} = {}

Sections == {"llm", "agent", "defaults", "primary", "allow", "exec"}
Reloader == RpcThread \cup {"watcher", "signal"}
Writer == RpcThread \cup {"cli"}

VARIABLES
  gpFile,     \* the file: state "none", "torn" or "good", its sections and mtime, the state of .bak
  gpThread,   \* per thread: where it is in a write or a reload
  gpRunning,  \* what is in force: config, and what the agent loop, the tools and approval got
  gpProc,     \* the process: its state, and what its watcher knows
  gpStop,     \* the shutdown: the parts still up, where handler and main are
  gpUnit      \* the unit file of the service

gpVars == <<gpFile, gpThread, gpRunning, gpProc, gpStop, gpUnit>>

Empty == [s \in Sections |-> "none"]
IdleThread == [pc |-> "idle", value |-> Empty]
Parts == {"adapters", "http", "plugins", "queue", "server"}
NotStopping == [up |-> {}, requested |-> FALSE, on |-> "nobody", handler |-> 0, main |-> 0]

\* FromJsonExpanded, the agent by its model: agent replaces agents.defaults, and either
\* of them llm; a model that agents.defaults gives as an object ("primary") replaces
\* them all, that of agent too.
FromJson(root) ==
  [agent |-> IF root["primary"] # "none" THEN root["primary"]
             ELSE IF root["agent"] # "none" THEN root["agent"]
             ELSE IF root["defaults"] # "none" THEN root["defaults"]
             ELSE IF root["llm"] # "none" THEN root["llm"] ELSE "default",
   allow |-> root["allow"],
   exec  |-> root["exec"]]

DefaultConfig == FromJson(Empty)

NothingRuns == [config |-> DefaultConfig, agent |-> "default", allow |-> "none", exec |-> "none"]
ProcOff == [state |-> "off", loaded |-> 0, mtime |-> 0, current |-> 0, missed |-> FALSE, raced |-> FALSE]

Readable == gpFile.state = "good"

GpInit(file) ==
  /\ gpFile = [state |-> file.state, root |-> file.root, mtime |-> 0, bak |-> "none"]
  /\ gpThread = [t \in Reloader \cup Writer |-> IdleThread]
  /\ gpRunning = NothingRuns
  /\ gpProc = ProcOff
  /\ gpStop = NotStopping
  /\ gpUnit = "absent"

Dead == /\ gpProc' = ProcOff
        /\ gpThread' = [t \in DOMAIN gpThread |-> IF t = "cli" THEN gpThread[t] ELSE IdleThread]
        /\ gpStop' = NotStopping
        /\ gpRunning' = NothingRuns
        /\ UNCHANGED <<gpFile, gpUnit>>

Goes(t, pc) == gpThread' = [gpThread EXCEPT ![t].pc = pc]

(***************************************************************************)
(* Start.                                                                  *)
(***************************************************************************)
\* ForegroundCommand: the file, or the defaults when it is missing or does not
\* parse; every part gets its configuration.
Boot ==
  LET c == IF Readable THEN FromJson(gpFile.root) ELSE DefaultConfig
  IN  /\ gpProc.state = "off"
      /\ gpProc' = [gpProc EXCEPT !.state = "wiring", !.loaded = gpFile.mtime, !.missed = FALSE, !.raced = FALSE]
      /\ gpRunning' = [config |-> c, agent |-> c.agent, allow |-> c.allow, exec |-> c.exec]
      /\ gpStop' = [NotStopping EXCEPT !.up = {"plugins", "queue"}]
      /\ UNCHANGED <<gpFile, gpThread, gpUnit>>

\* server.Start, then the HTTP server and the adapters; without the port the
\* process ends.
StartServer(ok) ==
  /\ gpProc.state = "wiring"
  /\ IF ok THEN /\ gpProc' = [gpProc EXCEPT !.state = "serving"]
                /\ gpStop' = [gpStop EXCEPT !.up = Parts]
                /\ UNCHANGED <<gpFile, gpThread, gpRunning, gpUnit>>
           ELSE Dead

\* The signal handler is installed and the watcher starts from the time the file
\* has now; a missing file leaves the time unset.
StartWatcher ==
  /\ gpProc.state = "serving"
  /\ gpProc' = [gpProc EXCEPT !.state = "up", !.mtime = IF gpFile.state = "none" THEN 0 ELSE gpFile.mtime,
                              !.missed = gpFile.mtime # gpProc.loaded, !.loaded = 0]
  /\ UNCHANGED <<gpFile, gpThread, gpRunning, gpStop, gpUnit>>

(***************************************************************************)
(* Writes.                                                                 *)
(***************************************************************************)
\* SetValue and UnsetValue read the file; one that does not parse ends the
\* request with an error, one that is missing is empty.
ReadForWrite(t, path, value) ==
  /\ gpThread[t].pc = "idle" /\ gpFile.mtime + 1 < MaxChanges
  /\ t \in RpcThread => gpProc.state \in {"serving", "up"}
  /\ gpFile.state # "torn"
  /\ value = "none" => (Readable /\ t = "cli")
  /\ gpThread' = [gpThread EXCEPT ![t] = [pc |-> "read", value |-> [gpFile.root EXCEPT ![path] = value]]]
  /\ UNCHANGED <<gpFile, gpRunning, gpProc, gpStop, gpUnit>>

\* write_json_file copies the file to .bak and opens it, which empties it...
Truncate(t) ==
  /\ gpThread[t].pc = "read" /\ gpFile.mtime < MaxChanges
  /\ gpFile' = [state |-> "torn", root |-> Empty, mtime |-> gpFile.mtime + 1,
                 bak |-> IF gpFile.state = "none" THEN gpFile.bak ELSE gpFile.state]
  /\ Goes(t, "opened")
  /\ UNCHANGED <<gpRunning, gpProc, gpStop, gpUnit>>

\* ... and writes it; config.set then reloads.
Write(t) ==
  /\ gpThread[t].pc = "opened" /\ gpFile.mtime < MaxChanges
  /\ gpFile' = [state |-> "good", root |-> gpThread[t].value, mtime |-> gpFile.mtime + 1,
                 bak |-> gpFile.bak]
  /\ Goes(t, IF t \in RpcThread THEN "load" ELSE "idle")
  /\ UNCHANGED <<gpRunning, gpProc, gpStop, gpUnit>>

\* `quantclaw config set` is stopped before it has written.
CliKilled ==
  /\ gpThread["cli"].pc \in {"read", "opened"}
  /\ gpThread' = [gpThread EXCEPT !["cli"] = IdleThread]
  /\ UNCHANGED <<gpFile, gpRunning, gpProc, gpStop, gpUnit>>

(***************************************************************************)
(* Reloads.                                                                *)
(***************************************************************************)
\* config.reload, or SIGUSR1 on the main thread.
StartReload(t) ==
  /\ t # "watcher" /\ gpThread[t].pc = "idle"
  /\ gpProc.state \in (IF t = "signal" THEN {"up"} ELSE {"serving", "up"})
  /\ Goes(t, "load")
  /\ UNCHANGED <<gpFile, gpRunning, gpProc, gpStop, gpUnit>>

\* The watcher compares the file's time with the one it knows.
Watch ==
  /\ gpProc.state = "up" /\ gpThread["watcher"].pc = "idle"
  /\ ~ gpStop.requested
  /\ gpFile.state # "none" /\ gpFile.mtime # gpProc.mtime
  /\ gpProc' = [gpProc EXCEPT !.current = gpFile.mtime]
  /\ Goes("watcher", "load")
  /\ UNCHANGED <<gpFile, gpRunning, gpStop, gpUnit>>

\* What a reload that ends leaves behind: the watcher keeps the time it read before.
After(t) == IF t = "watcher" THEN "record" ELSE "idle"

InReload(t) == gpThread[t].pc \in {"assign", "agent", "allow", "exec"}

\* LoadFromFile; whatever it throws is caught and the configuration stays.  Another
\* reload that has read something else and is not done yet is a race.
LoadConfig(t) ==
  LET others == {u \in Reloader \ {t} : InReload(u)}
  IN  /\ gpThread[t].pc = "load"
      /\ IF Readable
           THEN /\ gpThread' = [gpThread EXCEPT ![t] = [pc |-> "assign", value |-> gpFile.root]]
                /\ gpProc' = [gpProc EXCEPT
                     !.raced = (others # {} /\ (@ \/ \E u \in others : gpThread[u].value # gpFile.root)),
                     !.missed = FALSE]
           ELSE Goes(t, After(t)) /\ UNCHANGED gpProc
      /\ UNCHANGED <<gpFile, gpRunning, gpStop, gpUnit>>

\* reload_fn: config is assigned, and each part is given its share of config as it
\* is at that moment; approval only when the section is there.
Apply(t) ==
  LET c == gpRunning.config
  IN  /\ \/ /\ gpThread[t].pc = "assign" /\ Goes(t, "agent")
            /\ gpRunning' = [gpRunning EXCEPT !.config = FromJson(gpThread[t].value)]
         \/ /\ gpThread[t].pc = "agent" /\ Goes(t, "allow")
            /\ gpRunning' = [gpRunning EXCEPT !.agent = c.agent]
         \/ /\ gpThread[t].pc = "allow" /\ Goes(t, "exec")
            /\ gpRunning' = [gpRunning EXCEPT !.allow = c.allow]
         \/ /\ gpThread[t].pc = "exec"
            /\ gpThread' = [gpThread EXCEPT ![t] = [pc |-> After(t), value |-> Empty]]
            /\ gpRunning' = [gpRunning EXCEPT !.exec = IF c.exec = "none" THEN @ ELSE c.exec]
      /\ UNCHANGED <<gpFile, gpProc, gpStop, gpUnit>>

\* Mutant: the time is taken after the reload.
RecordTime_Now ==
  /\ gpThread["watcher"].pc = "record"
  /\ gpProc' = [gpProc EXCEPT !.mtime = gpFile.mtime, !.current = 0]
  /\ Goes("watcher", "idle")
  /\ UNCHANGED <<gpFile, gpRunning, gpStop, gpUnit>>

RecordTime ==
  /\ gpThread["watcher"].pc = "record"
  /\ gpProc' = [gpProc EXCEPT !.mtime = gpProc.current, !.current = 0]
  /\ Goes("watcher", "idle")
  /\ UNCHANGED <<gpFile, gpRunning, gpStop, gpUnit>>

(***************************************************************************)
(* Signals and the end of the process.                                     *)
(***************************************************************************)
\* SIGINT and SIGTERM: the first runs the callback on the thread that gets it, the
\* second ends the process at once.
Terminate(on) ==
  /\ gpProc.state = "up"
  /\ IF gpStop.requested THEN Dead
     ELSE /\ gpStop' = [gpStop EXCEPT !.requested = TRUE, !.on = on, !.handler = 1]
          /\ UNCHANGED <<gpFile, gpThread, gpRunning, gpProc, gpUnit>>

\* The callback's and main's ways down; both stop the adapters, HTTP, the plugins
\* and the server, and main the command queue too.
CallbackStops == <<"adapters", "http", "plugins", "server">>
MainStops == <<"adapters", "http", "plugins", "queue", "server">>

StopInCallback ==
  /\ gpStop.handler \in 1 .. 4
  /\ gpStop' = [gpStop EXCEPT !.up = @ \ {CallbackStops[gpStop.handler]},
                              !.handler = IF @ = 4 THEN 0 ELSE @ + 1]
  /\ UNCHANGED <<gpFile, gpThread, gpRunning, gpProc, gpUnit>>

\* Main sees the flag, when it is not itself in the handler, and joins the watcher.
JoinWatcher ==
  /\ gpStop.requested /\ gpStop.main = 0
  /\ gpThread["watcher"].pc = "idle" /\ gpThread["signal"].pc = "idle"
  /\ gpStop.on \in {"main", "watcher"} => gpStop.handler = 0
  /\ gpStop' = [gpStop EXCEPT !.main = 1]
  /\ UNCHANGED <<gpFile, gpThread, gpRunning, gpProc, gpUnit>>

StopInMain ==
  /\ gpStop.main \in 1 .. 5
  /\ gpStop' = [gpStop EXCEPT !.up = @ \ {MainStops[gpStop.main]}, !.main = @ + 1]
  /\ UNCHANGED <<gpFile, gpThread, gpRunning, gpProc, gpUnit>>

\* ForegroundCommand returns and the process is gone, whatever its threads do.
Exit == gpStop.main = 6 /\ Dead

Killed == gpProc.state # "off" /\ Dead

(***************************************************************************)
(* The service.                                                            *)
(***************************************************************************)
\* ServiceManager::install: a write that fails leaves a file that is no unit.
Install(ok) ==
  /\ gpUnit' = IF ok THEN "unit" ELSE "broken"
  /\ UNCHANGED <<gpFile, gpThread, gpRunning, gpProc, gpStop>>

\* uninstall removes the unit whether or not the stop before it worked.
Uninstall ==
  /\ gpUnit # "absent" /\ gpUnit' = "absent"
  /\ UNCHANGED <<gpFile, gpThread, gpRunning, gpProc, gpStop>>

\* systemctl start; a unit that is active already stays as it is.
ServiceStart == gpUnit = "unit" /\ Boot

\* systemctl stop sends SIGTERM; one that is restarted is started again when it is off.
ServiceStop == gpUnit = "unit" /\ Terminate("main")

\* The file and the reloads, over starts and crashes of the gateway; SIGUSR1 runs the
\* same function as config.reload and is left to LifeNext.
ConfigNext ==
  \/ Boot \/ StartWatcher \/ Watch \/ RecordTime \/ CliKilled \/ Killed
  \/ \E ok \in BOOLEAN : StartServer(ok)
  \/ \E t \in Writer, p \in Paths, v \in {"b", "none"} : ReadForWrite(t, p, v)
  \/ \E t \in Writer : Truncate(t) \/ Write(t)
  \/ \E t \in Reloader \ {"signal"} : StartReload(t) \/ LoadConfig(t) \/ Apply(t)

\* The life of the process, with the reloads it may be in when it ends.
LifeNext ==
  \/ Boot \/ StartWatcher \/ Killed \/ Exit
  \/ \E ok \in BOOLEAN : StartServer(ok) \/ Install(ok)
  \/ StartReload("signal") \/ LoadConfig("signal") \/ Apply("signal")
  \/ \E on \in {"main", "watcher", "other"} : Terminate(on)
  \/ StopInCallback \/ JoinWatcher \/ StopInMain
  \/ Uninstall \/ ServiceStart \/ ServiceStop

(***************************************************************************)
(* Properties.                                                             *)
(***************************************************************************)
\* A watcher that has nothing to do is right: when the time it knows is the file's,
\* no reload is under way and the file parses, the agent, the permissions and (where
\* the file has the section) approval run with what the file says, unless the file
\* changed while the gateway started or two reloads that read different files
\* overlapped.
ConfigCaughtUp ==
  LET file == FromJson(gpFile.root)
  IN  (/\ gpProc.state = "up" /\ Readable /\ gpProc.mtime = gpFile.mtime
       /\ ~ gpProc.missed /\ ~ gpProc.raced
       /\ \A t \in Reloader : gpThread[t].pc \notin {"load", "assign", "agent", "allow", "exec", "record"})
        => /\ gpRunning.agent = file.agent /\ gpRunning.allow = file.allow
           /\ file.exec # "none" => gpRunning.exec = file.exec
===============================================================================
