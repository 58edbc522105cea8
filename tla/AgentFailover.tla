---------------------------- MODULE AgentFailover ----------------------------
(***************************************************************************)
(* The agent turn (src/core/agent_loop.cpp) over the failover resolver and *)
(* the cooldown tracker (src/providers/).  Each agent loop runs one turn   *)
(* at a time and all loops share one resolver.                             *)
(*                                                                         *)
(* The resolver holds mu_ while it resolves one model, but the tracker has *)
(* a lock of its own: a failure or a success of another turn may be        *)
(* recorded between any two questions that a resolution asks the tracker,  *)
(* and the clock moves on between them.  Every question is an action.      *)
(*                                                                         *)
(* ProcessMessage and ProcessMessageStream have the same control: where    *)
(* one throws, the other reports the error and returns.  Context overflow  *)
(* and tool calls count here, what they do to the messages does not.       *)
(* Every provider is assumed to have a factory, so that the registry never *)
(* returns null.                                                           *)
(***************************************************************************)
EXTENDS Integers, Sequences, FiniteSets

CONSTANTS
  Loop,                 \* agent loops
  NoLoop,               \* no agent loop
  Session,              \* session keys
  NoSession,            \* the empty session key
  SessionOf,            \* session_key_ of every loop
  Models,               \* the primary model, then the fallback chain
  ProviderOf,           \* ProviderRegistry::ResolveModel(model).provider
  Profile,              \* ids of auth profiles
  NoProfile,            \* the empty profile id: the provider's own entry
  ProfileLists,         \* per provider: the profile lists SetProfiles installs
  PriorityOf,           \* AuthProfile::priority
  Kind,                 \* the ProviderErrorKinds that calls fail with
  RetryAfter,           \* Retry-After values, 0 for none
  max_iterations,       \* AgentLoop::max_iterations_
  OverflowRetries,      \* kOverflowCompactionMaxRetries
  TransientRetries,     \* kMaxTransientRetries
  TickSteps,            \* seconds by which the clock may move
  MaxTicks,             \* bound: moves of the clock
  MaxTurns,             \* bound: turns per loop
  MaxCalls              \* bound: calls of Stop, SetProfiles and ClearSessionPin

Provider == {ProviderOf[Models[i]] : i \in 1 .. Len(Models)}
Key      == [provider : Provider, profile : Profile \cup {NoProfile}]
None     == [provider |-> "none", profile |-> "none"]
Kinds    == {"rate_limit", "auth", "billing", "transient", "model_not_found",
             "timeout", "unknown"}

ASSUME ChainAssumption ==
  /\ Models \in Seq(DOMAIN ProviderOf) /\ Models # <<>>
  /\ NoProfile \notin Profile /\ NoSession \notin Session /\ NoLoop \notin Loop
  /\ SessionOf \in [Loop -> Session \cup {NoSession}]
  /\ \A p \in Provider : ProfileLists[p] \subseteq Seq(Profile)
  /\ PriorityOf \in [Profile -> Int]

ASSUME LimitsAssumption ==
  /\ {max_iterations, OverflowRetries, TransientRetries} \subseteq Nat
  /\ {MaxTicks, MaxTurns, MaxCalls} \subseteq Nat
  /\ Kind \subseteq Kinds /\ RetryAfter \subseteq Nat /\ TickSteps \subseteq Nat

VARIABLES
  now,       \* steady_clock, in seconds
  states,    \* CooldownTracker::states_
  profiles,  \* profiles_
  lastUsed,  \* profile_last_used_
  pins,      \* session_pins_
  mu,        \* FailoverResolver::mu_: the loop that holds it, or NoLoop
  loop,      \* per loop: the members and locals of its turn
  bound,     \* how often each bounded action was taken
  freed,     \* history, per loop: keys that were out of cooldown at some
             \* moment of its current resolution
  probed     \* history, per key: the last failure or probe, -1 for none

vars == <<now, states, profiles, lastUsed, pins, mu, loop, bound, freed, probed>>
resolver == <<profiles, lastUsed, pins, mu>>

(***************************************************************************)
(* The cooldown tracker.  A key without an entry has fails = 0.            *)
(***************************************************************************)
Fresh == [fails |-> 0, until |-> 0, failedAt |-> 0, probedAt |-> 0]

ProbeInterval == 30
FailureWindowDecay == 24 * 3600

Lesser(a, b) == IF a < b THEN a ELSE b

Base(kind) == CASE kind = "billing" -> 18000
                [] kind = "timeout" -> 30
                [] OTHER            -> 60
Cap(kind)  == CASE kind = "billing" -> 86400
                [] kind = "timeout" -> 300
                [] kind = "unknown" -> 600
                [] OTHER            -> 3600

ComputeCooldown(kind, n) ==
  CASE kind = "auth"            -> 3600
    [] kind = "model_not_found" -> 0
    [] OTHER ->
         Lesser(Base(kind) * <<1, 5, 25, 125, 625>>[Lesser(n, 5)], Cap(kind))

IsInCooldown(k) == states[k].fails > 0 /\ now < states[k].until

CanProbe(k) == IsInCooldown(k) /\ now - states[k].probedAt >= ProbeInterval

\* Mutant: a failure does not reset the probe timer.
AfterFailure_KeepsProbe(s, kind, retry) ==
  [fails |-> s.fails + 1, failedAt |-> now, probedAt |-> s.probedAt,
   until |-> now + IF retry > 0 THEN retry ELSE ComputeCooldown(kind, s.fails + 1)]

\* The entry RecordFailure leaves.
AfterFailure(s, kind, retry) ==
  LET n == IF s.fails > 0 /\ now - s.failedAt > FailureWindowDecay
             THEN 1 ELSE s.fails + 1
  IN  [fails |-> n, failedAt |-> now, probedAt |-> now,
       until |-> now + IF retry > 0 THEN retry ELSE ComputeCooldown(kind, n)]

(***************************************************************************)
(* Resolution.  A turn is in state "resolve" before it takes mu_ for the   *)
(* model with index "model", "scan" while it asks about profile "index",   *)
(* and "probe" before it asks whether it may probe.                        *)
(***************************************************************************)
Resolving == {"resolve", "scan", "probe"}

Idle == [pc |-> "idle", model |-> 1, index |-> 1, available |-> <<>>,
         cooled |-> <<>>, again |-> FALSE, used |-> None, last |-> None,
         iterations |-> 0, overflow |-> 0, calls |-> 0,
         goOn |-> FALSE, stop |-> FALSE]

ProviderAt(l) == ProviderOf[Models[loop[l].model]]
KeyOf(p, id) == [provider |-> p, profile |-> id]

\* Mutant: providers are compared by their id.
SameObject_SameProvider(a, b) == a.provider = b.provider

\* GetProvider caches one object per provider; GetProviderWithKey makes a new
\* object each time.
SameObject(a, b) == a = b /\ a.profile = NoProfile

\* The condition of the while loop, tested after each step of the turn that
\* leads to it; a Stop that comes later is seen at the next test.
Continue(q) ==
  IF q.iterations < max_iterations /\ ~ q.stop
    THEN [q EXCEPT !.pc = "call", !.calls = @ + 1]
    ELSE Idle

\* The retry without failover, after a pause.
Retry(q) ==
  IF q.iterations < TransientRetries
    THEN Continue([q EXCEPT !.iterations = @ + 1])
    ELSE Idle

\* resolve_provider returns key k: the loop uses it, unless it re-resolved
\* after a failure and got the object that has just failed.
Resolved(l, k) ==
  LET q     == loop[l]
      same  == q.again /\ SameObject(k, q.used)
      found == [q EXCEPT !.last = k, !.available = <<>>, !.cooled = <<>>,
                         !.model = 1, !.index = 1]
  IN  loop' = [loop EXCEPT ![l] =
        IF same THEN Retry(found)
        ELSE Continue([found EXCEPT !.used = k,
                         !.iterations = IF q.again THEN @ + 1 ELSE @])]

RegistryKey == KeyOf(ProviderOf[Models[1]], NoProfile)

\* The model has no usable profile: on to the next model of the chain, or to
\* the registry's own provider for the primary model.
NextModel(l) ==
  IF loop[l].model < Len(Models)
    THEN loop' = [loop EXCEPT ![l].model = @ + 1, ![l].pc = "resolve",
                    ![l].index = 1, ![l].available = <<>>, ![l].cooled = <<>>]
    ELSE Resolved(l, RegistryKey)

\* Mutant: a pinned profile is used while it is in cooldown.
PinUsable_Always(k) ==
  \E i \in DOMAIN profiles[k.provider] : profiles[k.provider][i] = k.profile

\* The session pin, under mu_: used if its profile is still configured and
\* not in cooldown, dropped otherwise.
PinUsable(k) ==
  /\ ~ IsInCooldown(k)
  /\ \E i \in DOMAIN profiles[k.provider] : profiles[k.provider][i] = k.profile

ResolvePin(l) ==
  LET s      == SessionOf[l]
      pinned == s \in Session /\ pins[s].provider = ProviderAt(l)
  IN  /\ loop[l].pc = "resolve" /\ mu = NoLoop
      /\ \/ /\ pinned /\ PinUsable(pins[s])
            /\ Resolved(l, pins[s])
            /\ UNCHANGED resolver
         \/ /\ ~ (pinned /\ PinUsable(pins[s]))
            /\ pins' = IF pinned THEN [pins EXCEPT ![s] = None] ELSE pins
            /\ mu' = l
            /\ loop' = [loop EXCEPT ![l].pc = "scan"]
            /\ UNCHANGED <<profiles, lastUsed>>
      /\ UNCHANGED <<now, states, bound, probed>>

\* One question to the tracker about the next profile.
ScanProfile(l) ==
  LET q    == loop[l]
      list == profiles[ProviderAt(l)]
      id   == list[q.index]
  IN  /\ q.pc = "scan" /\ q.index <= Len(list)
      /\ loop' = [loop EXCEPT ![l] =
           IF IsInCooldown(KeyOf(ProviderAt(l), id))
             THEN [q EXCEPT !.index = @ + 1, !.cooled = Append(@, id)]
             ELSE [q EXCEPT !.index = @ + 1, !.available = Append(@, id)]]
      /\ UNCHANGED <<now, states, resolver, bound, probed>>

\* The order of the available profiles: priority, least recently used, index.
Before(l, i, j) ==
  LET a    == loop[l].available
      Used(n) == lastUsed[KeyOf(ProviderAt(l), a[n])]
  IN  \/ PriorityOf[a[i]] < PriorityOf[a[j]]
      \/ PriorityOf[a[i]] = PriorityOf[a[j]] /\ Used(i) < Used(j)
      \/ PriorityOf[a[i]] = PriorityOf[a[j]] /\ Used(i) = Used(j) /\ i < j

\* Mutant: mu_ is not released with the chosen profile.
ChooseProfile_KeepsLock(l) ==
  LET a == loop[l].available
      p == ProviderAt(l)
  IN  /\ loop[l].pc = "scan" /\ a # <<>>
      /\ loop[l].index > Len(profiles[p])
      /\ \E i \in DOMAIN a : Resolved(l, KeyOf(p, a[i]))
      /\ UNCHANGED <<now, states, resolver, bound, probed>>

ChooseProfile(l) ==
  LET a == loop[l].available
      p == ProviderAt(l)
  IN  /\ loop[l].pc = "scan" /\ profiles[p] # <<>>
      /\ loop[l].index > Len(profiles[p])
      /\ \/ /\ a # <<>>
            /\ \E i \in DOMAIN a :
                 /\ \A j \in DOMAIN a \ {i} : Before(l, i, j)
                 /\ lastUsed' = [lastUsed EXCEPT ![KeyOf(p, a[i])] = now]
                 /\ Resolved(l, KeyOf(p, a[i]))
            /\ mu' = NoLoop
            /\ UNCHANGED <<profiles, pins>>
         \/ /\ a = <<>>
            /\ loop' = [loop EXCEPT ![l].pc = "probe"]
            /\ UNCHANGED resolver
      /\ UNCHANGED <<now, states, bound, probed>>

\* A provider without profiles: its own entry.
ChooseDefault(l) ==
  LET k == KeyOf(ProviderAt(l), NoProfile)
  IN  /\ loop[l].pc = "scan" /\ profiles[ProviderAt(l)] = <<>>
      /\ \/ /\ IsInCooldown(k)
            /\ loop' = [loop EXCEPT ![l].pc = "probe"]
            /\ mu' = mu
         \/ /\ ~ IsInCooldown(k)
            /\ Resolved(l, k)
            /\ mu' = NoLoop
      /\ UNCHANGED <<now, states, profiles, lastUsed, pins, bound, probed>>

\* TryProbe on the first profile of the list, or on the provider's own entry.
TryProbe(l) ==
  LET c == loop[l].cooled
      k == KeyOf(ProviderAt(l), IF c = <<>> THEN NoProfile ELSE c[1])
  IN  /\ loop[l].pc = "probe"
      /\ mu' = NoLoop
      /\ \/ /\ CanProbe(k)
            /\ states' = [states EXCEPT ![k].probedAt = now]
            /\ probed' = [probed EXCEPT ![k] = now]
            /\ Resolved(l, k)
         \/ /\ ~ CanProbe(k)
            /\ NextModel(l)
            /\ UNCHANGED <<states, probed>>
      /\ UNCHANGED <<now, profiles, lastUsed, pins, bound>>

(***************************************************************************)
(* The turn.  "call" is a provider call in flight, "pin" the second lock   *)
(* region of RecordSuccess.  When a turn ends, the members it leaves       *)
(* behind are overwritten before they are read again.                      *)
(***************************************************************************)
ProcessMessage(l) ==
  /\ loop[l].pc = "idle" /\ bound.turns[l] < MaxTurns
  /\ bound' = [bound EXCEPT !.turns[l] = @ + 1]
  /\ loop' = [loop EXCEPT ![l].pc = "resolve", ![l].stop = FALSE]
  /\ UNCHANGED <<now, states, resolver, probed>>

\* A Stop between two turns has no effect: the next turn clears the flag.
Stop(l) ==
  /\ loop[l].pc # "idle" /\ bound.calls < MaxCalls
  /\ bound' = [bound EXCEPT !.calls = @ + 1]
  /\ loop' = [loop EXCEPT ![l].stop = TRUE]
  /\ UNCHANGED <<now, states, resolver, probed>>

\* The provider answers: RecordSuccess clears the tracker's entry, then pins
\* the session under mu_.  goOn: the answer has tool calls.
CallSucceeds(l, goOn) ==
  /\ loop[l].pc = "call"
  /\ states' = [states EXCEPT ![loop[l].last] = Fresh]
  /\ loop' = [loop EXCEPT ![l].pc = "pin", ![l].goOn = goOn]
  /\ UNCHANGED <<now, resolver, bound, probed>>

PinSession(l) ==
  LET q == loop[l]
      s == SessionOf[l]
  IN  /\ q.pc = "pin" /\ mu = NoLoop
      /\ lastUsed' = [lastUsed EXCEPT ![q.last] = now]
      /\ pins' = IF s \in Session THEN [pins EXCEPT ![s] = q.last] ELSE pins
      /\ loop' = [loop EXCEPT ![l] =
           IF q.goOn THEN Continue([q EXCEPT !.goOn = FALSE, !.iterations = @ + 1])
           ELSE Idle]
      /\ UNCHANGED <<now, states, profiles, mu, bound, probed>>

\* Mutant: one overflow retry too many.
CallOverflows_OffByOne(l) ==
  LET q == loop[l]
  IN  /\ q.pc = "call"
      /\ loop' = [loop EXCEPT ![l] =
           IF q.overflow <= OverflowRetries
             THEN Continue([q EXCEPT !.overflow = @ + 1])
             ELSE Idle]
      /\ UNCHANGED <<now, states, resolver, bound, probed>>

\* Context overflow: compacted and tried again, a bounded number of times.
CallOverflows(l) ==
  LET q == loop[l]
  IN  /\ q.pc = "call"
      /\ loop' = [loop EXCEPT ![l] =
           IF q.overflow < OverflowRetries
             THEN Continue([q EXCEPT !.overflow = @ + 1])
             ELSE Idle]
      /\ UNCHANGED <<now, states, resolver, bound, probed>>

\* A bad request is not tried again.
CallRejected(l) ==
  /\ loop[l].pc = "call"
  /\ loop' = [loop EXCEPT ![l] = Idle]
  /\ UNCHANGED <<now, states, resolver, bound, probed>>

\* Any other provider error is recorded, and the loop resolves again.
CallFails(l, kind, retry) ==
  LET k == loop[l].last
  IN  /\ loop[l].pc = "call"
      /\ states' = [states EXCEPT ![k] = AfterFailure(@, kind, retry)]
      /\ probed' = [probed EXCEPT ![k] = now]
      /\ loop' = [loop EXCEPT ![l].pc = "resolve", ![l].again = TRUE]
      /\ UNCHANGED <<now, resolver, bound>>

\* An exception that is not a ProviderError.
CallThrows(l) ==
  /\ loop[l].pc = "call"
  /\ loop' = [loop EXCEPT ![l] = Retry(@)]
  /\ UNCHANGED <<now, states, resolver, bound, probed>>

(***************************************************************************)
(* Configuration and time.                                                 *)
(***************************************************************************)
SetProfiles(p, list) ==
  /\ mu = NoLoop /\ bound.calls < MaxCalls
  /\ profiles' = [profiles EXCEPT ![p] = list]
  /\ bound' = [bound EXCEPT !.calls = @ + 1]
  /\ UNCHANGED <<now, states, lastUsed, pins, mu, loop, probed>>

ClearSessionPin(s) ==
  /\ mu = NoLoop /\ bound.calls < MaxCalls
  /\ pins' = [pins EXCEPT ![s] = None]
  /\ bound' = [bound EXCEPT !.calls = @ + 1]
  /\ UNCHANGED <<now, states, profiles, lastUsed, mu, loop, probed>>

Tick(d) ==
  /\ bound.ticks < MaxTicks
  /\ now' = now + d
  /\ bound' = [bound EXCEPT !.ticks = @ + 1]
  /\ UNCHANGED <<states, resolver, loop, probed>>

-----------------------------------------------------------------------------
Init ==
  /\ now = 0
  /\ states = [k \in Key |-> Fresh]
  /\ profiles \in [Provider -> UNION {ProfileLists[p] : p \in Provider}]
  /\ \A p \in Provider : profiles[p] \in ProfileLists[p]
  /\ lastUsed = [k \in Key |-> 0]
  /\ pins = [s \in Session |-> None]
  /\ mu = NoLoop
  /\ loop = [l \in Loop |-> Idle]
  /\ bound = [turns |-> [l \in Loop |-> 0], calls |-> 0, ticks |-> 0]
  /\ freed = [l \in Loop |-> {}]
  /\ probed = [k \in Key |-> -1]

ResolveStep(l) == \/ ResolvePin(l) \/ ScanProfile(l) \/ ChooseProfile(l)
                  \/ ChooseDefault(l) \/ TryProbe(l)

CallStep(l) == \/ \E goOn \in BOOLEAN : CallSucceeds(l, goOn)
               \/ CallOverflows(l) \/ CallRejected(l) \/ CallThrows(l)
               \/ \E kind \in Kind, retry \in RetryAfter : CallFails(l, kind, retry)

LoopStep(l) == ResolveStep(l) \/ CallStep(l) \/ PinSession(l)

Environment ==
  \/ \E l \in Loop : ProcessMessage(l) \/ Stop(l)
  \/ \E p \in Provider : \E list \in ProfileLists[p] : SetProfiles(p, list)
  \/ \E s \in Session : ClearSessionPin(s)
  \/ \E d \in TickSteps : Tick(d)

\* History: the keys out of cooldown now, added for every turn that resolves.
Watch ==
  freed' = [l \in Loop |->
    IF loop'[l].pc \notin Resolving THEN {}
    ELSE (IF loop[l].pc \in Resolving THEN freed[l] ELSE {})
           \cup {k \in Key : states'[k].fails = 0 \/ now' >= states'[k].until}]

Next == \/ \E l \in Loop : LoopStep(l) /\ Watch
        \/ Environment /\ Watch

Spec == Init /\ [][Next]_vars

-----------------------------------------------------------------------------
(***************************************************************************)
(* Properties                                                              *)
(***************************************************************************)

\* The type of the tracker, the resolver and the turns; mu_ is held exactly
\* by the turn that is inside a resolution (failover_resolver.cpp:118).
TypeOK ==
  /\ now \in Nat
  /\ states \in [Key -> [fails : Nat, until : Nat, failedAt : Nat, probedAt : Nat]]
  /\ \A p \in Provider : profiles[p] \in ProfileLists[p]
  /\ lastUsed \in [Key -> Nat]
  /\ pins \in [Session -> Key \cup {None}]
  /\ mu \in Loop \cup {NoLoop}
  /\ loop \in [Loop ->
       [pc : Resolving \cup {"idle", "call", "pin"},
        model : 1 .. Len(Models), index : Nat, available : Seq(Profile),
        cooled : Seq(Profile), again : BOOLEAN, used : Key \cup {None},
        last : Key \cup {None}, iterations : Nat, overflow : Nat, calls : Nat,
        goOn : BOOLEAN, stop : BOOLEAN]]
  /\ freed \in [Loop -> SUBSET Key]
  /\ \A l \in Loop : mu = l <=> loop[l].pc \in {"scan", "probe"}

\* However calls fail, overflow, throw and fail over, a turn calls providers at
\* most max_iterations_ times plus once per overflow retry (agent_loop.cpp:239:
\* an overflow retry does not count as an iteration, every other path does).
CallsBounded ==
  \A l \in Loop : loop[l].calls <= max_iterations + OverflowRetries

\* The outcome of a call is recorded for the key it was made with: the members
\* last_provider_id_ and last_profile_id_ follow the provider object in use
\* through failover, retries and the registry fallback (agent_loop.cpp:255).
ChargedToCaller ==
  \A l \in Loop : loop[l].pc \in {"call", "pin"} =>
    loop[l].used = loop[l].last

\* A turn is bounded and charges the keys it used: the parts above.
TurnSound == TypeOK /\ CallsBounded /\ ChargedToCaller

\* A resolution returns a key that is neither the throttled probe nor the
\* registry's last resort only if the key was out of cooldown at some moment of
\* that resolution, whatever other turns record meanwhile
\* (failover_resolver.hpp:45 "skip any in cooldown").
CooldownRespected ==
  [][\A l \in Loop :
       loop[l].pc \in {"resolve", "scan"} /\ loop'[l].pc = "call"
       => loop'[l].last \in freed[l]]_vars

\* While a key is in cooldown it is probed at most once per kProbeInterval, and
\* not sooner after its last failure, by all turns together
\* (cooldown_tracker.hpp:43).
ProbesThrottled ==
  [][\A l \in Loop :
       LET k == loop'[l].last
       IN  (/\ loop[l].pc = "probe" /\ loop'[l].pc = "call"
            /\ k # RegistryKey \/ loop[l].model < Len(Models))
           => probed[k] >= 0 /\ now - probed[k] >= ProbeInterval]_vars

\* A key in cooldown is used by nothing but its probes: the parts above.
CooldownKept == CooldownRespected /\ ProbesThrottled
=============================================================================
