---------------------------- MODULE CommandQueue ----------------------------
(***************************************************************************)
(* The gateway's command queue (src/gateway/command_queue.cpp): one lane   *)
(* per session holding pending commands and at most one active command, a  *)
(* dispatcher thread that moves commands from lanes to worker threads under *)
(* a global concurrency limit, and the client operations Submit, Cancel,   *)
(* AbortSession, ConfigureSession and SetConfig.                           *)
(*                                                                         *)
(* Every step that the code performs under mu_ is one action.  The steps   *)
(* between two lock regions (spawning the workers after the scan, running  *)
(* the executor, joining threads in Stop) are actions of their own.        *)
(*                                                                         *)
(* A command is its id; ids are handed out in submission order, so the     *)
(* order of ids is the order in which Submit took the lock.                *)
(***************************************************************************)
EXTENDS Integers, Sequences, FiniteSets

CONSTANTS
  Session,       \* session keys
  MaxCommands,   \* bound: how many commands are ever submitted
  InitConfig,    \* the QueueConfig the queue is constructed with
  Configs,       \* the QueueConfigs SetConfig may install
  Overrides,     \* the arguments ConfigureSession may be called with
  SubmitModes,   \* the modes clients pass to Submit
  Cancellable,   \* the command ids clients may name in Cancel
  Abortable,     \* the sessions clients may name in AbortSession
  NoCommand      \* the empty std::optional<QueuedCommand>

Ids == 1 .. MaxCommands

QueueMode == {"collect", "followup", "steer", "steer-backlog", "interrupt"}

DropPolicy == {"summarize", "drop-oldest", "reject"}

QueueConfig == [max_concurrent : Int, debounce : Int, cap : Int,
                drop : DropPolicy, default_mode : QueueMode]

(* ConfigureSession keeps a setting when it is given -1 (or "" for drop).  *)
Override == [mode : QueueMode, debounce : Int, cap : Int,
             drop : DropPolicy \cup {""}]

ASSUME CommandsAssumption == MaxCommands \in Nat

ASSUME SessionAssumption == IsFiniteSet(Session) /\ Session # {}

ASSUME ConfigAssumption ==
  /\ InitConfig \in QueueConfig
  /\ Configs \subseteq QueueConfig
  /\ Overrides \subseteq Override

ASSUME ClientAssumption ==
  /\ SubmitModes \subseteq QueueMode
  /\ Cancellable \subseteq Ids
  /\ Abortable \subseteq Session
  /\ NoCommand \notin Ids

VARIABLES
  config,        \* config_
  lanes,         \* lanes_: a SessionLane per key, exists = FALSE when absent
  command_to_session, \* ids mapped by command_to_session_ (value: session)
  active_count,  \* active_count_
  workers,       \* thread handles in workers_, named by the command they run
  running,       \* running_
  dispatcher,    \* "none" or "loop": the dispatcher thread
  owner,         \* where the thread that calls Start and Stop is
  joining,       \* Stop's workers_to_join
  thread,        \* per command: the phase of the worker that runs it
  session,       \* per command: session_key
  mode,          \* per command: mode as resolved by Submit
  text,          \* per command: the submitted messages its message holds
                 \* something of
  short,         \* messages of which a summary kept the first 150 characters
  collected,     \* per command: the messages in params["collectedMessages"]
  nextId,        \* generate_id
  ripe,          \* ids up to this one were enqueued at least debounce_ms ago
  cancelled      \* history: ids for which Cancel returned true

(* The variables of the queue object, of its threads and of the commands,  *)
(* and the history variable.                                               *)
queueVars   == <<config, lanes, command_to_session>>
threadVars  == <<active_count, workers, running, dispatcher, owner, joining,
                 thread>>
commandVars == <<session, mode, text, short, collected, nextId, ripe>>
historyVars == <<cancelled>>
vars == <<queueVars, threadVars, commandVars, historyVars>>

Phase == {"none", "todo", "running", "answered", "done"}

Lane == [exists : BOOLEAN, mode : QueueMode, debounce : Int, cap : Int,
         drop : DropPolicy, pending : Seq(Ids), active : Ids \cup {NoCommand}]

-----------------------------------------------------------------------------
(* Derived state *)

(* The commands whose run was dispatched and has not released its lane.    *)
Live == {c \in Ids : thread[c] \in {"todo", "running", "answered"}}

(* The dispatcher's local vector to_dispatch.                              *)
ToDispatch == {c \in Ids : thread[c] = "todo"}

Elements(q) == {q[i] : i \in 1 .. Len(q)}

Pending(s) == Elements(lanes[s].pending)

HasActive(l) == l.active # NoCommand

IsIdle(l) == l.active = NoCommand /\ l.pending = <<>>

-----------------------------------------------------------------------------
(* SessionLane *)

(* A lane that get_lane builds from the current configuration.             *)
NewLane(cfg) ==
  [exists |-> TRUE, mode |-> cfg.default_mode, debounce |-> cfg.debounce,
   cap |-> cfg.cap, drop |-> cfg.drop, pending |-> <<>>, active |-> NoCommand]

AbsentLane == [NewLane(InitConfig) EXCEPT !.exists = FALSE]

get_lane(s) == IF lanes[s].exists THEN lanes[s] ELSE NewLane(config)

(* Mutant: push_front.                                                     *)
Enqueue_Front(l, c) == [l EXCEPT !.pending = <<c>> \o @]

Enqueue(l, c) == [l EXCEPT !.pending = Append(@, c)]

(* Mutant: TryActivate does not look at active_command_.                   *)
CanActivate_IgnoresActive(l) ==
  /\ l.exists
  /\ l.pending # <<>>
  /\ l.debounce > 0 => Head(l.pending) <= ripe

(* TryActivate's conditions: something pending, nothing active, and the    *)
(* front enqueued at least debounce_ms ago.                                *)
CanActivate(l) ==
  /\ l.exists
  /\ l.active = NoCommand
  /\ l.pending # <<>>
  /\ l.debounce > 0 => Head(l.pending) <= ripe

(* Mutant: active_command_ is not reset.                                   *)
CompleteActive_NoReset(l) == l

CompleteActive(l) == [l EXCEPT !.active = NoCommand]

(* InterruptActive forgets the active command and pops pending commands    *)
(* from the front until at most one is left.                               *)
InterruptActive(l) ==
  [l EXCEPT !.active = NoCommand,
            !.pending = IF Len(@) > 1 THEN <<@[Len(@)]>> ELSE @]

(* Mutant: the command is found but not erased.                            *)
CancelPending_NoErase(l, c) == l

(* CancelPending erases the command from the pending deque.                *)
CancelPending(l, c) ==
  LET q == l.pending
      i == CHOOSE j \in 1 .. Len(q) : q[j] = c
  IN  [l EXCEPT !.pending = SubSeq(q, 1, i - 1) \o SubSeq(q, i + 1, Len(q))]

(* How many passes ApplyCapOverflow's loop makes: down to cap, but a single *)
(* pass when cap <= 0.                                                     *)
OverCap(l) ==
  IF Len(l.pending) <= l.cap THEN 0
  ELSE IF l.cap <= 0 THEN 1 ELSE Len(l.pending) - l.cap

(* ApplyCapOverflow.  Summarising keeps the oldest command and merges the  *)
(* ones after it into its message, which becomes a list of the beginnings  *)
(* of all of them; with a single pending command it does nothing.  The     *)
(* other policies pop from the front or from the back.                     *)
ApplyCapOverflow(l) ==
  LET q == l.pending
      n == Len(q)
      k == OverCap(l)
  IN  [l EXCEPT !.pending =
         CASE l.drop = "summarize"   -> SubSeq(q, 1, 1) \o SubSeq(q, k + 2, n)
           [] l.drop = "drop-oldest" -> SubSeq(q, k + 1, n)
           [] l.drop = "reject"      -> SubSeq(q, 1, n - k)]

(* The ids ApplyCapOverflow returns.                                       *)
DroppedIds(l) ==
  Elements(l.pending) \ Elements(ApplyCapOverflow(l).pending)

(* Mutant: the summary does not include the merged message.                *)
TextAfterOverflow_NoMerge(l, t) == t

(* The messages each command holds after ApplyCapOverflow on lane l.       *)
TextAfterOverflow(l, t) ==
  IF l.drop = "summarize" /\ l.pending # <<>>
  THEN [t EXCEPT ![Head(l.pending)] = @ \cup UNION {t[d] : d \in DroppedIds(l)}]
  ELSE t

(* The messages that are cut to 150 characters after ApplyCapOverflow: the *)
(* summary cuts the message it starts from and each one it merges.         *)
ShortAfterOverflow(l, t, sh) ==
  IF l.drop = "summarize" /\ DroppedIds(l) # {}
  THEN sh \cup UNION {t[d] : d \in DroppedIds(l) \cup {Head(l.pending)}} ELSE sh

-----------------------------------------------------------------------------
(* Client operations *)

(* Submit resolves the mode against the lane, drops the active command in  *)
(* interrupt mode, and enqueues.  Only the path that is not steering an    *)
(* active run applies the cap.                                             *)
ResolvedMode(l, m) == IF m = "collect" THEN l.mode ELSE m

Submit(s, m) ==
  LET c        == nextId
      lane0    == get_lane(s)
      md       == ResolvedMode(lane0, m)
      lane1    == IF md = "interrupt" /\ HasActive(lane0)
                  THEN InterruptActive(lane0) ELSE lane0
      lane2    == Enqueue(lane1, c)
      steering == md \in {"steer", "steer-backlog"} /\ HasActive(lane1)
      text1    == [text EXCEPT ![c] = {c}]
  IN  /\ nextId <= MaxCommands
      /\ nextId' = nextId + 1
      /\ session' = [session EXCEPT ![c] = s]
      /\ mode' = [mode EXCEPT ![c] = md]
      /\ \/ /\ steering
            /\ lanes' = [lanes EXCEPT ![s] = lane2]
            /\ command_to_session' = command_to_session \cup {c}
            /\ text' = text1
            /\ UNCHANGED short
         \/ /\ ~steering
            /\ lanes' = [lanes EXCEPT ![s] = ApplyCapOverflow(lane2)]
            /\ command_to_session' =
                 (command_to_session \cup {c}) \ DroppedIds(lane2)
            /\ text' = TextAfterOverflow(lane2, text1)
            /\ short' = ShortAfterOverflow(lane2, text1, short)
      /\ UNCHANGED <<config, threadVars, collected, ripe, cancelled>>

(* Cancel returns false, but still forgets the id, when the id is mapped   *)
(* and no longer pending.                                                  *)
Cancel(c) ==
  LET s    == session[c]
      lane == get_lane(s)
  IN  /\ c \in command_to_session
      /\ command_to_session' = command_to_session \ {c}
      /\ \/ /\ c \in Elements(lane.pending)
            /\ lanes' = [lanes EXCEPT ![s] = CancelPending(lane, c)]
            /\ cancelled' = cancelled \cup {c}
         \/ /\ c \notin Elements(lane.pending)
            /\ lanes' = [lanes EXCEPT ![s] = lane]
            /\ UNCHANGED cancelled
      /\ UNCHANGED <<config, threadVars, commandVars>>

AbortSession(s) ==
  /\ lanes[s].exists
  /\ lanes' = [lanes EXCEPT ![s] = InterruptActive(@)]
  /\ command_to_session' = command_to_session \ {lanes[s].active}
  /\ UNCHANGED <<config, threadVars, commandVars, historyVars>>

ConfigureSession(s, o) ==
  LET lane == get_lane(s)
  IN  /\ lanes' = [lanes EXCEPT ![s] =
           [lane EXCEPT !.mode = o.mode,
                        !.debounce = IF o.debounce >= 0 THEN o.debounce ELSE @,
                        !.cap = IF o.cap >= 0 THEN o.cap ELSE @,
                        !.drop = IF o.drop # "" THEN o.drop ELSE @]]
      /\ UNCHANGED <<config, command_to_session, threadVars, commandVars,
                     historyVars>>

SetConfig(cfg) ==
  /\ config' = cfg
  /\ UNCHANGED <<lanes, command_to_session, threadVars, commandVars,
                 historyVars>>

-----------------------------------------------------------------------------
(* The dispatcher thread and the workers *)

Activatable == {s \in Session : CanActivate(lanes[s])}

(* Mutant: the limit is tested with > instead of >=.                       *)
FreeSlots_OffByOne == IF active_count <= config.max_concurrent
                      THEN config.max_concurrent - active_count + 1 ELSE 0

FreeSlots == IF active_count < config.max_concurrent
             THEN config.max_concurrent - active_count ELSE 0

(* The lanes a scan may activate: it goes through the lanes in the hash    *)
(* map's order and stops at the concurrency limit.                         *)
ScanChoices ==
  {D \in SUBSET Activatable :
     Cardinality(D) = IF Cardinality(Activatable) < FreeSlots
                      THEN Cardinality(Activatable) ELSE FreeSlots}

(* What is left pending behind the activated front: nothing in collect     *)
(* mode, and nothing in followup mode if more than one command was left.   *)
Drains(m, rest) == m = "collect" \/ (m = "followup" /\ Len(rest) > 1)

(* Mutant: the drained commands stay in the deque.                         *)
Activate_NoClear(l) ==
  [l EXCEPT !.active = Head(l.pending), !.pending = Tail(l.pending)]

Activate(l) ==
  LET rest == Tail(l.pending)
  IN  [l EXCEPT !.active = Head(l.pending),
                !.pending = IF Drains(mode[Head(l.pending)], rest)
                            THEN <<>> ELSE rest]

(* One pass of dispatcher_loop under mu_: activate lanes, then erase the   *)
(* idle ones.  wait_for's timeout lets a pass start at any time.           *)
DispatcherScan ==
  /\ dispatcher = "loop"
  /\ running
  /\ ToDispatch = {}
  /\ \E D \in ScanChoices :
       LET started == {Head(lanes[s].pending) : s \in D}
       IN  /\ active_count' = active_count + Cardinality(D)
           /\ lanes' = [s \in Session |->
                          IF s \in D THEN Activate(lanes[s])
                          ELSE IF IsIdle(lanes[s]) THEN AbsentLane
                          ELSE lanes[s]]
           /\ thread' = [c \in Ids |-> IF c \in started THEN "todo"
                                       ELSE thread[c]]
           /\ collected' = [c \in Ids |->
                IF c \in started /\ mode[c] = "collect"
                THEN UNION {text[d] : d \in Pending(session[c]) \ {c}}
                ELSE collected[c]]
           /\ command_to_session' = command_to_session \ started
  /\ UNCHANGED <<config, workers, running, dispatcher, owner, joining,
                 session, mode, text, short, nextId, ripe, historyVars>>

(* After the scan, each command of to_dispatch gets a worker thread.       *)
SpawnWorker(c) ==
  /\ thread[c] = "todo"
  /\ thread' = [thread EXCEPT ![c] = "running"]
  /\ workers' = workers \cup {c}
  /\ UNCHANGED <<queueVars, active_count, running, dispatcher, owner, joining,
                 commandVars, historyVars>>

(* Mutant: the dispatcher leaves only when every lane is empty.            *)
DispatcherExit_WhenDrained ==
  /\ dispatcher = "loop"
  /\ ~running
  /\ ToDispatch = {}
  /\ \A s \in Session : lanes[s].pending = <<>>
  /\ dispatcher' = "none"
  /\ UNCHANGED <<queueVars, active_count, workers, running, owner, joining,
                 thread, commandVars, historyVars>>

(* The loop test after a pass sees running_ = false.                       *)
DispatcherExit ==
  /\ dispatcher = "loop"
  /\ ~running
  /\ ToDispatch = {}
  /\ dispatcher' = "none"
  /\ UNCHANGED <<queueVars, active_count, workers, running, owner, joining,
                 thread, commandVars, historyVars>>

(* execute_command up to the response: the executor returned or threw.     *)
ExecutorReturns(c) ==
  /\ thread[c] = "running"
  /\ thread' = [thread EXCEPT ![c] = "answered"]
  /\ UNCHANGED <<queueVars, active_count, workers, running, dispatcher, owner,
                 joining, commandVars, historyVars>>

(* Mutant: the count is only decremented for a lane that is still active.  *)
CompleteCommand_OnlyIfActive(c) ==
  /\ thread[c] = "answered"
  /\ thread' = [thread EXCEPT ![c] = "done"]
  /\ lanes' = [lanes EXCEPT ![session[c]] =
                 IF @.exists THEN CompleteActive(@) ELSE @]
  /\ active_count' = IF HasActive(lanes[session[c]]) THEN active_count - 1
                     ELSE active_count
  /\ UNCHANGED <<config, command_to_session, workers, running, dispatcher,
                 owner, joining, commandVars, historyVars>>

(* execute_command's last lock region: whatever is active in the lane is   *)
(* completed.                                                              *)
CompleteCommand(c) ==
  /\ thread[c] = "answered"
  /\ thread' = [thread EXCEPT ![c] = "done"]
  /\ lanes' = [lanes EXCEPT ![session[c]] =
                 IF @.exists THEN CompleteActive(@) ELSE @]
  /\ active_count' = active_count - 1
  /\ UNCHANGED <<config, command_to_session, workers, running, dispatcher,
                 owner, joining, commandVars, historyVars>>

(* Time passes until the front of lane s has waited debounce_ms, and with  *)
(* it every command enqueued before.  The clock is read only for the front *)
(* of a lane with nothing active, so it need not advance at other times.   *)
DebounceElapses(s) ==
  /\ lanes[s].active = NoCommand
  /\ lanes[s].pending # <<>>
  /\ lanes[s].debounce > 0
  /\ Head(lanes[s].pending) > ripe
  /\ ripe' = Head(lanes[s].pending)
  /\ UNCHANGED <<queueVars, threadVars, session, mode, text, short, collected,
                 nextId, historyVars>>

-----------------------------------------------------------------------------
(* The owner thread: Start and Stop *)

Start ==
  /\ owner = "idle"
  /\ ~running
  /\ running' = TRUE
  /\ dispatcher' = "loop"
  /\ UNCHANGED <<queueVars, active_count, workers, owner, joining, thread,
                 commandVars, historyVars>>

StopBegin ==
  /\ owner = "idle"
  /\ running
  /\ running' = FALSE
  /\ owner' = "join_dispatcher"
  /\ UNCHANGED <<queueVars, active_count, workers, dispatcher, joining, thread,
                 commandVars, historyVars>>

(* The dispatcher was joined; workers_ is swapped out under mu_.           *)
StopSwapWorkers ==
  /\ owner = "join_dispatcher"
  /\ dispatcher = "none"
  /\ joining' = workers
  /\ workers' = {}
  /\ owner' = "join_workers"
  /\ UNCHANGED <<queueVars, active_count, running, dispatcher, thread,
                 commandVars, historyVars>>

(* Mutant: Stop does not join the workers.                                 *)
StopReturn_NoJoin ==
  /\ owner = "join_workers"
  /\ joining' = {}
  /\ owner' = "idle"
  /\ UNCHANGED <<queueVars, active_count, workers, running, dispatcher, thread,
                 commandVars, historyVars>>

StopReturn ==
  /\ owner = "join_workers"
  /\ \A c \in joining : thread[c] = "done"
  /\ joining' = {}
  /\ owner' = "idle"
  /\ UNCHANGED <<queueVars, active_count, workers, running, dispatcher, thread,
                 commandVars, historyVars>>

-----------------------------------------------------------------------------
Init ==
  /\ config = InitConfig
  /\ lanes = [s \in Session |-> AbsentLane]
  /\ command_to_session = {}
  /\ active_count = 0
  /\ workers = {}
  /\ running = FALSE
  /\ dispatcher = "none"
  /\ owner = "idle"
  /\ joining = {}
  /\ thread = [c \in Ids |-> "none"]
  /\ session = [c \in Ids |-> CHOOSE s \in Session : TRUE]
  /\ mode = [c \in Ids |-> "collect"]
  /\ text = [c \in Ids |-> {}]
  /\ short = {}
  /\ collected = [c \in Ids |-> {}]
  /\ nextId = 1
  /\ ripe = 0
  /\ cancelled = {}

ClientNext ==
  \/ \E s \in Session, m \in SubmitModes : Submit(s, m)
  \/ \E c \in Cancellable : Cancel(c)
  \/ \E s \in Abortable : AbortSession(s)
  \/ \E s \in Session, o \in Overrides : ConfigureSession(s, o)
  \/ \E cfg \in Configs : SetConfig(cfg)

WorkerNext ==
  \E c \in Ids : SpawnWorker(c) \/ ExecutorReturns(c) \/ CompleteCommand(c)

Next ==
  \/ ClientNext
  \/ DispatcherScan
  \/ DispatcherExit
  \/ WorkerNext
  \/ \E s \in Session : DebounceElapses(s)
  \/ Start
  \/ StopBegin
  \/ StopSwapWorkers
  \/ StopReturn

Spec == Init /\ [][Next]_vars

(* The threads the operating system schedules, executors that return       *)
(* (AgentExecutor must block until the run completes) and the clock.       *)
Fairness ==
  /\ WF_vars(DispatcherScan)
  /\ WF_vars(DispatcherExit)
  /\ \A c \in Ids : /\ WF_vars(SpawnWorker(c))
                     /\ WF_vars(ExecutorReturns(c))
                     /\ WF_vars(CompleteCommand(c))
  /\ \A s \in Session : WF_vars(DebounceElapses(s))
  /\ WF_vars(StopSwapWorkers)
  /\ WF_vars(StopReturn)

FairSpec == Spec /\ Fairness

-----------------------------------------------------------------------------
(* Properties *)

TypeOK ==
  /\ config \in QueueConfig
  /\ lanes \in [Session -> Lane]
  /\ command_to_session \subseteq Ids
  /\ active_count \in Int
  /\ workers \subseteq Ids
  /\ running \in BOOLEAN
  /\ dispatcher \in {"none", "loop"}
  /\ owner \in {"idle", "join_dispatcher", "join_workers"}
  /\ joining \subseteq Ids
  /\ thread \in [Ids -> Phase]
  /\ session \in [Ids -> Session]
  /\ mode \in [Ids -> QueueMode]
  /\ text \in [Ids -> SUBSET Ids]
  /\ short \subseteq Ids
  /\ collected \in [Ids -> SUBSET Ids]
  /\ nextId \in 1 .. MaxCommands + 1
  /\ ripe \in 0 .. MaxCommands
  /\ cancelled \subseteq Ids

(* active_count_ is exactly the number of dispatched runs that have not    *)
(* finished, whatever interrupts, aborts, cancellations and restarts did   *)
(* to the lanes in between (dispatcher_loop increments it, execute_command *)
(* decrements it on another thread).                                       *)
ActiveCountExact == active_count = Cardinality(Live)

(* The dispatcher starts runs only up to the max_concurrent in force: a    *)
(* step that adds runs leaves no more of them than the limit.              *)
ConcurrencyLimit ==
  [][Cardinality(Live') > Cardinality(Live)
       => Cardinality(Live') <= config.max_concurrent]_vars

(* A lane that shows an active command has a live worker for that command, *)
(* so some execute_command will release it: no lane stays blocked behind a *)
(* run that ended, even after interrupts and idle-lane erasure.            *)
ActiveLaneHasWorker ==
  \A s \in Session : HasActive(lanes[s]) =>
    /\ lanes[s].active \in Live
    /\ session[lanes[s].active] = s

(* At most one run per session at a time: "per-session queue that enforces *)
(* serialization" (command_queue.hpp), checked where nothing interrupts.   *)
Serialization ==
  \A c, d \in Live : session[c] = session[d] => c = d

(* Runs of a session start in submission order, and a command that has     *)
(* started is never pending again.                                         *)
StartOrder ==
  [][\A c, d \in Ids :
       /\ thread[c] = "none" /\ thread'[c] = "todo"
       /\ session[d] = session[c] /\ (thread[d] # "none" \/ d \in Pending(session[c]))
       /\ d # c
       => IF thread[d] # "none" THEN d < c ELSE d > c]_vars

(* Every pending command can be cancelled: its id is still mapped, in the  *)
(* lane the mapping names, after overflows, drains and interrupts.         *)
PendingMapped ==
  \A s \in Session : \A c \in Pending(s) :
    c \in command_to_session /\ session[c] = s

(* A command whose Cancel returned true never runs: Cancel races the       *)
(* dispatcher, and exactly one of them gets the command.                   *)
CancelledNeverRuns == \A c \in cancelled : thread[c] = "none"

(* A submitted message reaches the agent at most once: the commands that   *)
(* still carry messages (pending, or dispatched with their collected text) *)
(* carry disjoint sets of them, so summarising and collecting duplicate    *)
(* nothing.                                                                *)
Carriers == {c \in Ids : thread[c] # "none"}
              \cup UNION {Pending(s) : s \in Session}

Carried(c) == text[c] \cup collected[c]

NoDuplicateDelivery ==
  \A c, d \in Carriers : c # d => Carried(c) \cap Carried(d) = {}

(* "Stop all processing. Waits for active runs to finish.": once Stop has  *)
(* returned no worker runs and none is about to be spawned.                *)
StoppedIsQuiet ==
  (owner = "idle" /\ ~running) => Live = {} /\ dispatcher = "none"

(* A run of another session that was submitted after c has started.        *)
Overtaken(c) ==
  \E d \in Ids : d > c /\ session[d] # session[c] /\ thread[d] # "none"

(* A pending command is eventually dispatched, merged, dropped or          *)
(* cancelled, unless the queue is stopped or later commands of other       *)
(* sessions overtake it: no wakeup is lost, and neither debounce nor the   *)
(* concurrency limit keeps a lane waiting while nothing newer runs.  More  *)
(* is not to be had: the pass of dispatcher_loop takes the lanes in the    *)
(* order of the map and breaks off at the limit, so that clients who never *)
(* stop submitting to lanes early in it can starve a later one.            *)
PendingServed ==
  \A s \in Session : \A c \in Ids :
    c \in Pending(s) ~> (c \notin Pending(s) \/ ~running \/ Overtaken(c))

(* Stop always returns, although it may be called while commands are being *)
(* handed to workers.                                                      *)
StopReturns == owner # "idle" ~> owner = "idle"

=============================================================================
