---------------------------- MODULE CronScheduler ----------------------------
(***************************************************************************)
(* The cron scheduler (src/core/cron_scheduler.cpp) with the RPC handlers  *)
(* that edit its jobs (src/rpchandler/rpc_handler_cron.cpp) and the way    *)
(* the gateway sets it up (src/cli/gateway_commands.cpp).                  *)
(*                                                                         *)
(* jobs_ is a std::vector<CronJob>: `mem' is its buffer, one slot per      *)
(* element of its capacity, and the first `size' slots are the jobs.  The  *)
(* scheduler thread collects CronJob* under mu_ and uses them after the    *)
(* unlock, so an edit in between may shift the elements under a pointer or *)
(* free the buffer it points into; `old' is that freed buffer.  What a     *)
(* read of a dead slot returns is what was last written there, and a write *)
(* to it is lost; a crash, the other outcome, is possible at any time.     *)
(*                                                                         *)
(* A minute is a natural number and a schedule is the set of minutes its   *)
(* expression matches.                                                     *)
(***************************************************************************)
EXTENDS Integers, Sequences, FiniteSets

CONSTANTS
  Id,             \* job ids
  NoId,           \* the empty id of a moved-from job
  Extends,        \* per RemoveJob argument: the ids it is a proper prefix of
  Schedule,       \* cron expressions in use
  EveryMinute,    \* what the empty schedule of a moved-from job parses to
  Minutes,        \* per schedule: the minutes it matches
  Client,         \* threads that call the cron RPC handlers
  MaxMinute,      \* bound: the clock stops here
  MaxCrashes,     \* bound: how often the process dies
  InitFile,       \* cron.json when the gateway first starts
  NoFile, Torn    \* no cron.json; a cron.json whose write was cut off

Now == 0 .. MaxMinute

Never == -1       \* the default time_point of last_run

Job == [id : Id \cup {NoId}, schedule : Schedule \cup {EveryMinute},
        enabled : BOOLEAN, last : Int, next : Int]

(* What ToJson writes and FromJson reads back: last_run and next_run are   *)
(* written but not read.                                                   *)
Entry == [id : Id, schedule : Schedule, enabled : BOOLEAN]

ASSUME TimeAssumption ==
  /\ MaxMinute \in Nat
  /\ MaxCrashes \in Nat
  /\ Minutes \in [Schedule \cup {EveryMinute} -> SUBSET Nat]

ASSUME NamesAssumption ==
  /\ NoId \notin Id
  /\ EveryMinute \notin Schedule
  /\ Id \subseteq DOMAIN Extends
  /\ \A k \in DOMAIN Extends : Extends[k] \subseteq Id \ {k}

ASSUME SetupAssumption ==
  /\ InitFile \in Seq(Entry) \cup {NoFile}
  /\ InitFile # NoFile =>
       \A i, j \in DOMAIN InitFile : InitFile[i].id = InitFile[j].id => i = j
  /\ Torn \notin Seq(Entry) \cup {NoFile}

VARIABLES
  now,       \* the wall clock, in minutes
  mem,       \* the buffer of jobs_
  size,      \* jobs_.size()
  disk,      \* the content of cron.json
  stored,    \* storage_path_ is set
  alive,     \* the process runs
  running,   \* running_
  loop,      \* where the scheduler thread is
  tick,      \* the loop's now
  due,       \* the slots the loop's remaining due_jobs point to
  old,       \* the buffer they point into once it was freed, else <<>>
  parsed,    \* the schedule the loop's CronExpression was built from
  client,    \* per client: what is left of its call
  issued,    \* history: ids handed out by generate_id
  removed,   \* history: ids for which RemoveJob returned true
  ran,       \* history: per id, the tick of its latest run
  disturbed, \* history: did an edit touch what this pass ("now") or the one
             \* before it ("last") still points to, or "no"
  crashes    \* how often the process died

storeVars == <<mem, size, disk, stored>>
loopVars  == <<running, loop, tick, due, old, parsed>>
idVars    == <<issued, removed>>
historyVars == <<idVars, ran, disturbed, crashes>>
vars == <<now, storeVars, alive, loopVars, client, historyVars>>

-----------------------------------------------------------------------------
(* CronExpression::NextAfter *)

(* Mutant: the search starts at the given minute, not at the one after.    *)
NextAfter_Inclusive(s, t) ==
  LET ahead == {m \in Minutes[s] : m >= t}
  IN  IF ahead = {} THEN t + 60
      ELSE CHOOSE m \in ahead : \A n \in ahead : m <= n

(* The first matching minute after t, or an hour later if none matches in  *)
(* the year searched (here: in the minutes of the model).                  *)
NextAfter(s, t) ==
  LET ahead == {m \in Minutes[s] : m > t}
  IN  IF ahead = {} THEN t + 60
      ELSE CHOOSE m \in ahead : \A n \in ahead : m <= n

-----------------------------------------------------------------------------
(* jobs_ and cron.json *)

jobs == SubSeq(mem, 1, size)

IdsOf(s) == {s[i].id : i \in 1 .. Len(s)}

(* A slot that never held a job, or whose job was moved away.              *)
MovedFrom == [id |-> NoId, schedule |-> EveryMinute, enabled |-> TRUE,
              last |-> Never, next |-> 0]

NewJob(id, s) == [id |-> id, schedule |-> s, enabled |-> TRUE, last |-> Never,
                  next |-> NextAfter(s, now)]

(* CronJob::ToJson and CronJob::FromJson.                                  *)
ToJson(j) == [id |-> j.id, schedule |-> j.schedule, enabled |-> j.enabled]

FromJson(e) == [id |-> e.id, schedule |-> e.schedule, enabled |-> e.enabled,
                last |-> Never, next |-> NextAfter(e.schedule, now)]

Json(s) == [i \in 1 .. Len(s) |-> ToJson(s[i])]

(* What a save of the jobs js leaves in the file.                          *)
Saved(js) == IF stored THEN Json(js) ELSE disk

(* Mutant: the buffer never grows.                                         *)
PushBack_NoGrow(j) == [mem EXCEPT ![size + 1] = j]

(* push_back doubles the capacity when the buffer is full.                 *)
PushBack(j) ==
  IF size < Len(mem) THEN [mem EXCEPT ![size + 1] = j]
  ELSE jobs \o <<j>> \o [i \in 1 .. size - 1 |-> MovedFrom]

(* erase moves the later jobs down; the last of them leaves a moved-from   *)
(* slot, but erasing the last job leaves the slot as it was.               *)
Erase(i) ==
  [k \in 1 .. Len(mem) |->
     IF i <= k /\ k < size THEN mem[k + 1]
     ELSE IF k = size /\ i < size THEN MovedFrom
     ELSE mem[k]]

InPass == loop \in {"run", "mark", "next", "save"}

(* A change of the slots S touches what the pass still points to.          *)
DisturbedBy(S) ==
  IF InPass /\ \E k \in 1 .. Len(due) : due[k] \in S THEN "now" ELSE disturbed

-----------------------------------------------------------------------------
(* RPC handlers *)

(* AddJob up to the first unlock.                                          *)
AddJob(c, id, s) ==
  /\ alive
  /\ client[c].op = "idle"
  /\ id \notin issued
  /\ issued' = issued \cup {id}
  /\ mem' = PushBack(NewJob(id, s))
  /\ size' = size + 1
  /\ old' = IF size = Len(mem) /\ InPass /\ old = <<>> THEN mem ELSE old
  /\ disturbed' = IF size = Len(mem) THEN DisturbedBy(1 .. size) ELSE disturbed
  /\ client' = [client EXCEPT ![c] = [op |-> "save", id |-> id]]
  /\ UNCHANGED <<now, disk, stored, alive, running, loop, tick, due, parsed,
                 removed, ran, crashes>>

(* Mutant: AddJob appends its own job to the file instead of saving jobs_. *)
AddJobSave_Append(c) ==
  /\ alive
  /\ client[c].op = "save"
  /\ disk' = IF stored /\ disk # Torn /\ size > 0
              THEN Append(disk, ToJson(mem[size])) ELSE disk
  /\ client' = [client EXCEPT ![c] = [op |-> "idle"]]
  /\ UNCHANGED <<now, mem, size, stored, alive, loopVars, historyVars>>

(* AddJob's Save, in a lock region of its own.                             *)
AddJobSave(c) ==
  /\ alive
  /\ client[c].op = "save"
  /\ disk' = Saved(jobs)
  /\ client' = [client EXCEPT ![c] = [op |-> "idle"]]
  /\ UNCHANGED <<now, mem, size, stored, alive, loopVars, historyVars>>

(* The jobs RemoveJob(k) would remove: the exact match, else the only job  *)
(* whose id k is a prefix of.                                              *)
RemoveMatches(k) ==
  LET exact  == {i \in 1 .. size : mem[i].id = k}
      longer == {i \in 1 .. size : mem[i].id \in Extends[k]}
  IN  IF exact # {} THEN exact
      ELSE IF Cardinality(longer) = 1 THEN longer ELSE {}

(* Mutant: the job is erased but the file is not written.                  *)
RemoveJob_NoSave(k) ==
  /\ alive
  /\ \E i \in RemoveMatches(k) :
       /\ disturbed' = DisturbedBy(i .. size)
       /\ mem' = Erase(i)
       /\ size' = size - 1
       /\ removed' = removed \cup {mem[i].id}
  /\ UNCHANGED <<now, disk, stored, alive, loopVars, client, issued,
                 ran, crashes>>

RemoveJob(k) ==
  /\ alive
  /\ \E i \in RemoveMatches(k) :
       /\ disturbed' = DisturbedBy(i .. size)
       /\ mem' = Erase(i)
       /\ size' = size - 1
       /\ disk' = Saved(SubSeq(mem', 1, size'))
       /\ removed' = removed \cup {mem[i].id}
  /\ UNCHANGED <<now, stored, alive, loopVars, client, issued, ran,
                 crashes>>

(* HandleCronUpdate up to ListJobs' unlock: the fields the patch leaves    *)
(* alone are taken from the copy.                                          *)
CronUpdateRead(c, id, patch) ==
  /\ alive
  /\ client[c].op = "idle"
  /\ \E i \in 1 .. size :
       /\ mem[i].id = id
       /\ client' = [client EXCEPT ![c] =
            [op |-> "update", id |-> id,
             schedule |-> IF patch \in Schedule THEN patch
                          ELSE mem[i].schedule]]
  /\ UNCHANGED <<now, storeVars, alive, loopVars, historyVars>>

(* UpdateJob; it returns false when the job is gone.                       *)
UpdateJob(c) ==
  LET found == {i \in 1 .. size : mem[i].id = client[c].id}
      s     == client[c].schedule
  IN  /\ alive
      /\ client[c].op = "update"
      /\ client' = [client EXCEPT ![c] = [op |-> "idle"]]
      /\ mem' = [i \in 1 .. Len(mem) |->
                   IF i \in found
                   THEN [mem[i] EXCEPT !.schedule = s,
                                       !.next = NextAfter(s, now)]
                   ELSE mem[i]]
      /\ disk' = IF found = {} THEN disk ELSE Saved(SubSeq(mem', 1, size))
      /\ disturbed' = DisturbedBy(found)
      /\ UNCHANGED <<now, size, stored, alive, loopVars, idVars, ran, crashes>>

-----------------------------------------------------------------------------
(* The scheduler thread *)

(* The jobs whose pointers the loop collects.                              *)
DueSlots == {i \in 1 .. size : mem[i].enabled /\ mem[i].next <= now}

SlotSeq(S) == CHOOSE q \in [1 .. Cardinality(S) -> S] :
                \A i, j \in DOMAIN q : i < j => q[i] < q[j]

Start ==
  /\ alive
  /\ ~running
  /\ loop = "off"
  /\ running' = TRUE
  /\ loop' = "check"
  /\ UNCHANGED <<now, storeVars, alive, tick, due, old, parsed, client,
                 historyVars>>

(* The loop reads the clock and collects pointers under mu_.               *)
CollectDue ==
  /\ alive
  /\ loop = "check"
  /\ running
  /\ tick' = now
  /\ due' = SlotSeq(DueSlots)
  /\ loop' = IF DueSlots = {} THEN "sleep" ELSE "run"
  /\ old' = <<>>
  /\ disturbed' = IF disturbed = "now" THEN "last" ELSE "no"
  /\ UNCHANGED <<now, storeVars, alive, running, parsed, client, idVars, ran,
                 crashes>>

(* The element the loop's current pointer refers to.                       *)
Deref == IF old = <<>> THEN mem[Head(due)] ELSE old[Head(due)]

(* Replace that element: a write into a freed buffer is lost.              *)
Assign(j) ==
  IF old = <<>>
  THEN mem' = [mem EXCEPT ![Head(due)] = j] /\ UNCHANGED old
  ELSE old' = [old EXCEPT ![Head(due)] = j] /\ UNCHANGED mem

(* The handler is called with *job; it may return or throw.                *)
RunHandler ==
  /\ alive
  /\ loop = "run"
  /\ ran' = [ran EXCEPT ![Deref.id] = tick]
  /\ loop' = "mark"
  /\ UNCHANGED <<now, storeVars, alive, running, tick, due, old, parsed,
                 client, idVars, disturbed, crashes>>

(* last_run is written and schedule is read, without the lock.             *)
MarkRun ==
  /\ alive
  /\ loop = "mark"
  /\ Assign([Deref EXCEPT !.last = tick])
  /\ parsed' = Deref.schedule
  /\ loop' = "next"
  /\ UNCHANGED <<now, size, disk, stored, alive, running, tick, due, client,
                 historyVars>>

(* Mutant: the due job keeps its next_run.                                 *)
SetNextRun_Forgotten ==
  /\ alive
  /\ loop = "next"
  /\ due' = Tail(due)
  /\ loop' = IF Tail(due) = <<>> THEN "save" ELSE "run"
  /\ UNCHANGED <<now, storeVars, alive, running, tick, old, parsed, client,
                 historyVars>>

(* next_run is written, without the lock.                                  *)
SetNextRun ==
  /\ alive
  /\ loop = "next"
  /\ Assign([Deref EXCEPT !.next = NextAfter(parsed, tick)])
  /\ due' = Tail(due)
  /\ loop' = IF Tail(due) = <<>> THEN "save" ELSE "run"
  /\ UNCHANGED <<now, size, disk, stored, alive, running, tick, parsed, client,
                 historyVars>>

LoopSave ==
  /\ alive
  /\ loop = "save"
  /\ disk' = Saved(jobs)
  /\ old' = <<>>
  /\ loop' = "sleep"
  /\ UNCHANGED <<now, mem, size, stored, alive, running, tick, due, parsed,
                 client, historyVars>>

(* The 30 s sleep ends, or running_ cut it short.                          *)
Wake ==
  /\ alive
  /\ loop = "sleep"
  /\ loop' = "check"
  /\ UNCHANGED <<now, storeVars, alive, running, tick, due, old, parsed,
                 client, historyVars>>

LoopExit ==
  /\ alive
  /\ loop = "check"
  /\ ~running
  /\ loop' = "off"
  /\ UNCHANGED <<now, storeVars, alive, running, tick, due, old, parsed,
                 client, historyVars>>

(* Stop's first statement; the join that follows waits for LoopExit.       *)
Stop ==
  /\ alive
  /\ running
  /\ running' = FALSE
  /\ UNCHANGED <<now, storeVars, alive, loop, tick, due, old, parsed, client,
                 historyVars>>

-----------------------------------------------------------------------------
(* The environment *)

Tick ==
  /\ now < MaxMinute
  /\ now' = now + 1
  /\ UNCHANGED <<storeVars, alive, loopVars, client, historyVars>>

(* The process dies, possibly while it writes cron.json: std::ofstream     *)
(* truncates the file first.                                               *)
Crash ==
  /\ alive
  /\ crashes < MaxCrashes
  /\ crashes' = crashes + 1
  /\ disk' \in IF stored THEN {disk, Torn} ELSE {disk}
  /\ alive' = FALSE
  /\ mem' = <<>>
  /\ size' = 0
  /\ stored' = FALSE
  /\ running' = FALSE
  /\ loop' = "off"
  /\ due' = <<>>
  /\ old' = <<>>
  /\ disturbed' = "no"
  /\ client' = [c \in Client |-> [op |-> "idle"]]
  /\ UNCHANGED <<now, tick, parsed, idVars, ran>>

(* What Load makes of the file: nothing if it cannot be parsed.            *)
Loaded(file) ==
  IF file \in {NoFile, Torn} THEN <<>>
  ELSE [i \in 1 .. Len(file) |-> FromJson(file[i])]

(* The gateway calls Load only if cron.json exists, and only Load sets     *)
(* storage_path_.                                                          *)
Restart ==
  /\ ~alive
  /\ alive' = TRUE
  /\ stored' = (disk # NoFile)
  /\ mem' = Loaded(disk)
  /\ size' = Len(Loaded(disk))
  /\ UNCHANGED <<now, disk, loopVars, client, historyVars>>

-----------------------------------------------------------------------------
Init ==
  /\ now = 0
  /\ mem = <<>>
  /\ size = 0
  /\ disk = InitFile
  /\ stored = FALSE
  /\ alive = FALSE
  /\ running = FALSE
  /\ loop = "off"
  /\ tick = 0
  /\ due = <<>>
  /\ old = <<>>
  /\ parsed = EveryMinute
  /\ client = [c \in Client |-> [op |-> "idle"]]
  /\ issued = IF InitFile = NoFile THEN {} ELSE IdsOf(InitFile)
  /\ removed = {}
  /\ ran = [id \in Id \cup {NoId} |-> Never]
  /\ disturbed = "no"
  /\ crashes = 0

LoopStep == \/ CollectDue \/ RunHandler \/ MarkRun \/ SetNextRun \/ LoopSave
            \/ Wake \/ LoopExit

ClientStep ==
  \E c \in Client :
    \/ \E id \in Id, s \in Schedule : AddJob(c, id, s)
    \/ AddJobSave(c)
    \/ \E id \in Id, patch \in Schedule \cup {EveryMinute} :
         CronUpdateRead(c, id, patch)
    \/ UpdateJob(c)

Next == \/ LoopStep
        \/ ClientStep
        \/ \E k \in DOMAIN Extends : RemoveJob(k)
        \/ Start \/ Stop \/ Tick \/ Crash \/ Restart

Spec == Init /\ [][Next]_vars

(* The scheduler thread runs, a handler returns, the clock advances and a  *)
(* dead gateway is started again with its scheduler.                       *)
FairSpec == Spec /\ WF_vars(LoopStep) /\ WF_vars(Tick) /\ WF_vars(Restart)
                 /\ WF_vars(Start)

-----------------------------------------------------------------------------
(* Properties *)

(* Every variable has its type; every slot the loop still has to visit is  *)
(* inside the buffer it was taken from.                                    *)
TypeOK ==
  /\ now \in Now
  /\ mem \in Seq(Job)
  /\ size \in 0 .. Len(mem)
  /\ disk \in Seq(Entry) \cup {NoFile, Torn}
  /\ <<stored, alive, running>> \in BOOLEAN \X BOOLEAN \X BOOLEAN
  /\ loop \in {"off", "check", "run", "mark", "next", "save", "sleep"}
  /\ tick \in Now
  /\ due \in Seq(1 .. Len(IF old = <<>> THEN mem ELSE old))
  /\ loop \in {"run", "mark", "next"} => due # <<>>
  /\ old \in Seq(Job)
  /\ parsed \in Schedule \cup {EveryMinute}
  /\ \A c \in Client : client[c].op \in {"idle", "save", "update"}
  /\ removed \subseteq issued
  /\ issued \subseteq Id

(* When no AddJob is between its push_back and its save, cron.json holds   *)
(* exactly the jobs in memory: RemoveJob and UpdateJob write in the lock   *)
(* region of the change, and the scheduler thread's unlocked writes touch  *)
(* only what is not read back.                                             *)
FileFollowsJobs ==
  (alive /\ stored /\ disk # Torn /\ \A c \in Client : client[c].op # "save")
    => disk = Json(jobs)

(* The jobs and their file fit together: the parts above.                  *)
JobsSound == TypeOK /\ FileFollowsJobs

(* A job for which RemoveJob returned true never comes back, neither       *)
(* through a save that another call still has to make nor through a        *)
(* restart.                                                                *)
RemovedStaysRemoved ==
  /\ IdsOf(jobs) \cap removed = {}
  /\ disk \notin {NoFile, Torn} => IdsOf(disk) \cap removed = {}

(* A step in which the loop calls the handler.                             *)
Handles == loop = "run" /\ loop' = "mark"

(* The loop runs a job without the lock, on a pointer taken under it, while *)
(* clients add, remove and update jobs (cron_scheduler.cpp:348, 353).  A    *)
(* pass runs only enabled jobs that are due, unless an edit under that very *)
(* pass moves, frees or changes what it still points to: then it may run    *)
(* any job.  And no job is run twice for one due time, except by such a     *)
(* pass or by the one after it, which finds a job due that was run already  *)
(* when its new time was written in another's place or into a freed buffer. *)
NoDoubleRun ==
  [][Handles => /\ disturbed # "now" => Deref.enabled /\ Deref.next <= tick
                /\ disturbed = "no" => ran[Deref.id] < Deref.next]_vars

IsDue(id) == \E i \in DueSlots : mem[i].id = id

(* A job that is due while the scheduler runs is run, edited or removed,   *)
(* given the next time of another job by a pass that an edit disturbed, or *)
(* the scheduler stops.                                                    *)
DueJobRuns == \A id \in Id : IsDue(id) ~> (~IsDue(id) \/ ~running)
=============================================================================
