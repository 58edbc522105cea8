------------------------- MODULE AgentFailoverProofs -------------------------
(***************************************************************************)
(* Proofs about the agent turn, the failover resolver and the cooldown     *)
(* tracker: for any number of loops, sessions, models, profiles and        *)
(* seconds, a turn makes a bounded number of calls and charges them to the *)
(* key it used, a resolution returns no key that was in cooldown all the   *)
(* while, and probes of one key are kProbeInterval apart.                  *)
(*                                                                         *)
(* The bound on calls needs what the loop never writes down: each call but *)
(* the first was paid for by an iteration or by an overflow retry.  That a *)
(* chosen profile was free needs the same of every profile collected so    *)
(* far, since the clock and the other turns move on during the scan.       *)
(***************************************************************************)
EXTENDS AgentFailover, SequenceTheorems, TLAPS

Turn ==
  [pc : Resolving \cup {"idle", "call", "pin"}, model : 1 .. Len(Models),
   index : Nat \ {0}, available : Seq(Profile), cooled : Seq(Profile),
   again : BOOLEAN, used : Key \cup {None}, last : Key \cup {None},
   iterations : Nat, overflow : Nat, calls : Nat, goOn : BOOLEAN, stop : BOOLEAN]

Entry == [fails : Nat, until : Nat, failedAt : Nat, probedAt : Nat]

\* What holds of one turn, whatever the others do: calls are paid for, and the
\* key in last_provider_id_ and last_profile_id_ is that of the object in use.
Paid(q) ==
  /\ q.overflow <= OverflowRetries
  /\ q.pc \in Resolving /\ ~ q.again
       => q.calls = 0 /\ q.iterations = 0 /\ q.overflow = 0
  /\ q.pc \in {"call", "pin"} \/ (q.pc \in Resolving /\ q.again)
       => /\ q.calls = q.iterations + q.overflow + 1
          /\ q.iterations < max_iterations

Local(q) ==
  /\ q \in Turn
  /\ Paid(q)
  /\ q.pc = "idle" => q = Idle
  /\ q.pc \in {"call", "pin"} => q.used = q.last /\ q.last \in Key
  /\ q.pc \notin {"scan", "probe"} => q.available = <<>>

\* The tracker's entries are sound and the history knows their last probe.
TrackerOK ==
  /\ now \in Nat
  /\ states \in [Key -> Entry]
  /\ probed \in [Key -> Int]
  /\ \A k \in Key : states[k].fails > 0 => probed[k] = states[k].probedAt

ResolverOK ==
  /\ profiles \in [Provider -> Seq(Profile)]
  /\ \A p \in Provider : profiles[p] \in ProfileLists[p]
  /\ lastUsed \in [Key -> Nat]
  /\ pins \in [Session -> Key \cup {None}]

LocksOK ==
  /\ mu \in Loop \cup {NoLoop}
  /\ \A l \in Loop : mu = l <=> loop[l].pc \in {"scan", "probe"}

LoopsOK == loop \in [Loop -> Turn] /\ \A l \in Loop : Local(loop[l])

\* The keys out of cooldown at this moment.
Free == {k \in Key : states[k].fails = 0 \/ now >= states[k].until}

\* The history of a resolution has what is free now, and every profile that
\* the scan has collected.
FreedOK ==
  /\ freed \in [Loop -> SUBSET Key]
  /\ \A l \in Loop : loop[l].pc \in Resolving => Free \subseteq freed[l]
  /\ \A l \in Loop : loop[l].pc = "scan" =>
       \A i \in DOMAIN loop[l].available :
         KeyOf(ProviderAt(l), loop[l].available[i]) \in freed[l]

Inv == TrackerOK /\ ResolverOK /\ LocksOK /\ LoopsOK /\ FreedOK

-----------------------------------------------------------------------------
(* Constants and the type of a turn *)

\* Every model of the chain has its provider, and every key they form is one
\* the tracker knows.
LEMMA ConstantTypes ==
  /\ Len(Models) \in Nat /\ 1 \in 1 .. Len(Models)
  /\ \A i \in 1 .. Len(Models) : ProviderOf[Models[i]] \in Provider
  /\ RegistryKey \in Key
  /\ \A p \in Provider, id \in Profile \cup {NoProfile} : KeyOf(p, id) \in Key
<1>1. Len(Models) \in Nat /\ Len(Models) # 0
  BY ChainAssumption, EmptySeq
<1>2. 1 \in 1 .. Len(Models)
  BY <1>1
<1>3. \A i \in 1 .. Len(Models) : ProviderOf[Models[i]] \in Provider
  BY DEF Provider
<1>4. \A p \in Provider, id \in Profile \cup {NoProfile} : KeyOf(p, id) \in Key
  BY DEF KeyOf, Key
<1> QED
  BY <1>1, <1>2, <1>3, <1>4 DEF RegistryKey

\* The idle turn is sound.
LEMMA IdleLocal == Local(Idle)
<1>1. <<>> \in Seq(Profile) /\ 1 \in 1 .. Len(Models)
  BY ConstantTypes
<1>2. Idle \in Turn
  BY <1>1 DEF Idle, Turn, Resolving
<1>3. Paid(Idle)
  BY LimitsAssumption DEF Idle, Paid, Resolving
<1> QED
  BY <1>2, <1>3 DEF Local, Idle

-----------------------------------------------------------------------------
(* The operators that end a step of a turn *)

\* The while loop either makes one more call, paid for by what the step before
\* it counted, or leaves the turn idle.
LEMMA ContinueIs ==
  ASSUME NEW q \in Turn,
         q.calls = q.iterations + q.overflow, q.overflow <= OverflowRetries,
         q.used = q.last, q.last \in Key, q.available = <<>>
  PROVE  /\ Local(Continue(q))
         /\ Continue(q) = Idle \/ (Continue(q).pc = "call" /\ Continue(q).last = q.last)
<1>1. CASE q.iterations < max_iterations /\ ~ q.stop
  <2> DEFINE r == [q EXCEPT !.pc = "call", !.calls = @ + 1]
  <2>1. Continue(q) = r
    BY <1>1 DEF Continue
  <2>2. /\ r.pc = "call" /\ r.calls = q.calls + 1
        /\ r.iterations = q.iterations /\ r.overflow = q.overflow
        /\ r.used = q.used /\ r.last = q.last /\ r.available = q.available
    BY DEF Turn
  <2>3. q.calls \in Nat /\ q.iterations \in Nat /\ q.overflow \in Nat /\ q.calls + 1 \in Nat
    BY DEF Turn
  <2>4. r \in Turn
    BY <2>3 DEF Turn
  <2> HIDE DEF r
  <2>5. Paid(r)
    BY <1>1, <2>2, <2>3 DEF Paid, Resolving
  <2> QED
    BY <2>1, <2>2, <2>4, <2>5 DEF Local
<1>2. CASE ~ (q.iterations < max_iterations /\ ~ q.stop)
  BY <1>2, IdleLocal DEF Continue
<1> QED
  BY <1>1, <1>2

\* The retry without failover is paid for by an iteration.
LEMMA RetryIs ==
  ASSUME NEW q \in Turn,
         q.calls = q.iterations + q.overflow + 1, q.overflow <= OverflowRetries,
         q.used = q.last, q.last \in Key, q.available = <<>>
  PROVE  /\ Local(Retry(q))
         /\ Retry(q) = Idle \/ (Retry(q).pc = "call" /\ Retry(q).last = q.last)
<1>1. CASE q.iterations < TransientRetries
  <2> DEFINE r == [q EXCEPT !.iterations = @ + 1]
  <2>1. Retry(q) = Continue(r)
    BY <1>1 DEF Retry
  <2>2. /\ r.calls = q.calls /\ r.iterations = q.iterations + 1
        /\ r.overflow = q.overflow /\ r.used = q.used /\ r.last = q.last
        /\ r.available = q.available
    BY DEF Turn
  <2>3. /\ q.calls \in Nat /\ q.iterations \in Nat /\ q.overflow \in Nat
        /\ q.iterations + 1 \in Nat
    BY DEF Turn
  <2>4. r \in Turn
    BY <2>3 DEF Turn
  <2> HIDE DEF r
  <2>5. r.calls = r.iterations + r.overflow
    BY <2>2, <2>3
  <2> QED
    BY <2>1, <2>2, <2>4, <2>5, ContinueIs
<1>2. CASE ~ (q.iterations < TransientRetries)
  BY <1>2, IdleLocal DEF Retry
<1> QED
  BY <1>1, <1>2

\* A resolution that returns key k leaves the turn idle or in a call charged to
\* k, whether it is the first of the turn, a failover or a retry.
LEMMA ResolvedIs ==
  ASSUME LoopsOK, NEW l \in Loop, NEW k \in Key,
         loop[l].pc \in Resolving, Resolved(l, k)
  PROVE  \E r \in Turn :
           /\ loop' = [loop EXCEPT ![l] = r] /\ Local(r)
           /\ r = Idle \/ (r.pc = "call" /\ r.last = k)
<1> PICK q : q = loop[l]
  OBVIOUS
<1>0. PICK found :
      found = [q EXCEPT !.last = k, !.available = <<>>, !.cooled = <<>>,
                        !.model = 1, !.index = 1]
  OBVIOUS
<1>1. q \in Turn /\ Local(q) /\ Paid(q) /\ q.pc \in Resolving
  BY DEF LoopsOK, Local
<1>2. <<>> \in Seq(Profile) /\ 1 \in 1 .. Len(Models)
  BY ConstantTypes
<1>3. /\ found \in Turn /\ found.last = k /\ found.available = <<>>
      /\ found.calls = q.calls /\ found.iterations = q.iterations
      /\ found.overflow = q.overflow /\ found.used = q.used /\ found.again = q.again
  <2>1. /\ found.last = k /\ found.available = <<>>
        /\ found.calls = q.calls /\ found.iterations = q.iterations
        /\ found.overflow = q.overflow /\ found.used = q.used
        /\ found.again = q.again
    BY <1>0, <1>1 DEF Turn
  <2>2. found \in Turn
    <3> PICK a \in Seq(Profile) : a = <<>>
      BY <1>2
    <3> PICK m \in 1 .. Len(Models) : m = 1
      BY <1>2
    <3> PICK i \in Nat \ {0} : i = 1
      OBVIOUS
    <3>1. found = [q EXCEPT !.last = k, !.available = a, !.cooled = a,
                            !.model = m, !.index = i]
      BY <1>0
    <3>2. [q EXCEPT !.last = k, !.available = a, !.cooled = a,
                    !.model = m, !.index = i] \in Turn
      BY <1>1 DEF Turn
    <3> QED
      BY <3>1, <3>2
  <2> QED
    BY <2>1, <2>2
<1>4. q.calls \in Nat /\ q.iterations \in Nat /\ q.overflow \in Nat /\ q.again \in BOOLEAN
  BY <1>1 DEF Turn
<1>5. CASE q.again /\ SameObject(k, q.used)
  <2>1. loop' = [loop EXCEPT ![l] = Retry(found)]
    BY <1>0, <1>5 DEF Resolved
  <2>2. found.used = found.last
    BY <1>3, <1>5 DEF SameObject
  <2>3. found.calls = found.iterations + found.overflow + 1 /\ found.overflow <= OverflowRetries
    BY <1>1, <1>3, <1>5 DEF Paid
  <2>4. /\ Local(Retry(found))
        /\ Retry(found) = Idle \/ (Retry(found).pc = "call" /\ Retry(found).last = k)
    BY <1>3, <2>2, <2>3, RetryIs
  <2> QED
    BY <2>1, <2>4 DEF Local
<1>6. CASE ~ (q.again /\ SameObject(k, q.used))
  <2>0. PICK g : g = [found EXCEPT !.used = k,
                      !.iterations = IF q.again THEN @ + 1 ELSE @]
    OBVIOUS
  <2>1. loop' = [loop EXCEPT ![l] = Continue(g)]
    BY <1>0, <1>6, <2>0 DEF Resolved
  <2>2. /\ g \in Turn /\ g.used = k /\ g.last = k /\ g.available = <<>>
        /\ g.calls = q.calls /\ g.overflow = q.overflow
        /\ g.iterations = IF q.again THEN q.iterations + 1 ELSE q.iterations
    <3> PICK n : n = IF q.again THEN q.iterations + 1 ELSE q.iterations
      OBVIOUS
    <3>0. n \in Nat
      BY <1>4
    <3>1. g = [found EXCEPT !.used = k, !.iterations = n]
      BY <1>3, <2>0
    <3>2. g \in Turn
      <4> found \in Turn
        BY <1>3
      <4>1. [found EXCEPT !.used = k, !.iterations = n] \in Turn
        BY <3>0 DEF Turn
      <4> QED
        BY <3>1, <4>1
    <3>3. /\ g.used = k /\ g.last = k /\ g.available = <<>>
          /\ g.calls = q.calls /\ g.overflow = q.overflow /\ g.iterations = n
      BY <1>3, <3>1 DEF Turn
    <3> QED
      BY <3>2, <3>3
  <2>3. g.calls = g.iterations + g.overflow /\ g.overflow <= OverflowRetries
    <3>1. CASE q.again
      BY <1>1, <1>4, <2>2, <3>1 DEF Paid
    <3>2. CASE ~ q.again
      BY <1>1, <1>4, <2>2, <3>2 DEF Paid
    <3> QED
      BY <3>1, <3>2
  <2>4. /\ Local(Continue(g))
        /\ Continue(g) = Idle \/ (Continue(g).pc = "call" /\ Continue(g).last = k)
    BY <2>2, <2>3, ContinueIs
  <2> QED
    BY <2>1, <2>4 DEF Local
<1> QED
  BY <1>5, <1>6

\* A model without a usable key passes the turn on to the next model, and the
\* last model to the registry.
LEMMA NextModelIs ==
  ASSUME LoopsOK, NEW l \in Loop, loop[l].pc \in Resolving, NextModel(l)
  PROVE  \E r \in Turn :
           /\ loop' = [loop EXCEPT ![l] = r] /\ Local(r)
           /\ \/ r.pc = "resolve"
              \/ loop[l].model = Len(Models)
                 /\ (r = Idle \/ (r.pc = "call" /\ r.last = RegistryKey))
<1> PICK q : q = loop[l]
  OBVIOUS
<1>1. q \in Turn /\ Local(q) /\ Paid(q) /\ q.pc \in Resolving
  BY DEF LoopsOK, Local
<1>2. Len(Models) \in Nat /\ q.model \in 1 .. Len(Models)
  BY <1>1, ConstantTypes DEF Turn
<1>3. CASE q.model < Len(Models)
  <2> PICK r : r = [q EXCEPT !.model = @ + 1, !.pc = "resolve",
                      !.index = 1, !.available = <<>>, !.cooled = <<>>]
    OBVIOUS
  <2>1. loop' = [loop EXCEPT ![l] = r]
    BY <1>3 DEF NextModel, LoopsOK
  <2>2. q.model + 1 \in 1 .. Len(Models) /\ <<>> \in Seq(Profile)
    BY <1>2, <1>3
  <2>3. /\ r \in Turn /\ r.pc = "resolve" /\ r.available = <<>>
        /\ r.calls = q.calls /\ r.iterations = q.iterations
        /\ r.overflow = q.overflow /\ r.again = q.again
    <3>1. r \in Turn
      <4> PICK a \in Seq(Profile) : a = <<>>
        BY <2>2
      <4> PICK m \in 1 .. Len(Models) : m = q.model + 1
        BY <2>2
      <4> PICK i \in Nat \ {0} : i = 1
        OBVIOUS
      <4> PICK pc \in Resolving : pc = "resolve"
        BY DEF Resolving
      <4>1. r = [q EXCEPT !.model = m, !.pc = pc, !.index = i,
                          !.available = a, !.cooled = a]
        OBVIOUS
      <4>2. [q EXCEPT !.model = m, !.pc = pc, !.index = i,
                      !.available = a, !.cooled = a] \in Turn
        BY ZenonT(60), <1>1 DEF Turn
      <4> QED
        BY <4>1, <4>2
    <3>2. /\ r.pc = "resolve" /\ r.available = <<>>
          /\ r.calls = q.calls /\ r.iterations = q.iterations
          /\ r.overflow = q.overflow /\ r.again = q.again
      BY <1>1 DEF Turn
    <3> QED
      BY <3>1, <3>2
  <2>4. Local(r)
    BY <1>1, <2>3 DEF Local, Paid, Resolving
  <2> QED
    BY <2>1, <2>3, <2>4
<1>4. CASE q.model = Len(Models)
  <2>1. Resolved(l, RegistryKey)
    BY <1>2, <1>4 DEF NextModel
  <2> QED
    BY <1>1, <1>4, <2>1, ConstantTypes, ResolvedIs
<1> QED
  BY <1>2, <1>3, <1>4

-----------------------------------------------------------------------------
(* What a step of one turn leaves of the others *)

\* A turn that moves to a sound state leaves all turns sound.
LEMMA LoopsKeep ==
  ASSUME LoopsOK, NEW l \in Loop, NEW r, Local(r), loop' = [loop EXCEPT ![l] = r]
  PROVE  LoopsOK'
<1>1. r \in Turn
  BY DEF Local
<1>2. loop' \in [Loop -> Turn]
  BY <1>1 DEF LoopsOK
<1>3. \A m \in Loop : loop'[m] = IF m = l THEN r ELSE loop[m]
  BY DEF LoopsOK
<1> QED
  BY <1>2, <1>3 DEF LoopsOK

\* A turn that releases or never held mu_ and is not inside a resolution.
LEMMA LocksKeep ==
  ASSUME LoopsOK, LocksOK, NEW l \in Loop, NEW r, loop' = [loop EXCEPT ![l] = r],
         \/ mu' = NoLoop /\ mu \in {l, NoLoop} /\ r.pc \notin {"scan", "probe"}
         \/ mu' = l /\ mu \in {l, NoLoop} /\ r.pc \in {"scan", "probe"}
         \/ mu' = mu /\ (r.pc \in {"scan", "probe"} <=> loop[l].pc \in {"scan", "probe"})
  PROVE  LocksOK'
<1>1. \A m \in Loop : loop'[m] = IF m = l THEN r ELSE loop[m]
  BY DEF LoopsOK
<1> QED
  BY <1>1, ChainAssumption DEF LocksOK

\* Watch keeps the history of every resolution: what was free stays recorded,
\* and the turn that moved may only collect profiles that are recorded.
LEMMA FreedKeep ==
  ASSUME LoopsOK, FreedOK, Watch, NEW l \in Loop, NEW r \in Turn,
         loop' = [loop EXCEPT ![l] = r],
         r.pc = "scan" => \A i \in DOMAIN r.available :
           KeyOf(ProviderOf[Models[r.model]], r.available[i])
             \in Free' \cup IF loop[l].pc \in Resolving THEN freed[l] ELSE {}
  PROVE  FreedOK'
<1>1. \A m \in Loop : loop'[m] = IF m = l THEN r ELSE loop[m]
  BY DEF LoopsOK
<1>2. Free' = {k \in Key : states'[k].fails = 0 \/ now' >= states'[k].until}
  BY DEF Free
<1>3. \A m \in Loop : freed'[m] =
        IF loop'[m].pc \notin Resolving THEN {}
        ELSE (IF loop[m].pc \in Resolving THEN freed[m] ELSE {}) \cup Free'
  BY <1>2 DEF Watch
<1>4. freed' \in [Loop -> SUBSET Key]
  <2>1. \A m \in Loop : freed'[m] \subseteq Key
    BY <1>2, <1>3 DEF FreedOK
  <2>2. freed' = [m \in Loop |-> freed'[m]]
    BY DEF Watch
  <2> QED
    BY <2>1, <2>2
<1>5. ASSUME NEW m \in Loop, loop'[m].pc \in Resolving
      PROVE  Free' \subseteq freed'[m]
  BY <1>3, <1>5
<1>6. ASSUME NEW m \in Loop, loop'[m].pc = "scan", NEW i \in DOMAIN loop'[m].available
      PROVE  KeyOf(ProviderAt(m), loop[m].available[i])' \in freed'[m]
  <2>1. "scan" \in Resolving
    BY DEF Resolving
  <2>2. CASE m = l
    BY <1>1, <1>3, <1>6, <2>1, <2>2 DEF ProviderAt, KeyOf
  <2>3. CASE m # l
    <3>1. KeyOf(ProviderAt(m), loop[m].available[i]) \in freed[m]
      BY <1>1, <1>6, <2>3 DEF FreedOK
    <3>2. freed[m] \subseteq freed'[m]
      BY <1>1, <1>3, <1>6, <2>1, <2>3
    <3> QED
      BY <1>1, <2>3, <3>1, <3>2 DEF ProviderAt, KeyOf
  <2> QED
    BY <2>2, <2>3
<1> QED
  BY <1>4, <1>5, <1>6 DEF FreedOK

-----------------------------------------------------------------------------
(* Resolution *)

\* The session pin: a pinned key is returned only if it is free now.
LEMMA PinKeeps ==
  ASSUME Inv, Watch, NEW l \in Loop, ResolvePin(l)
  PROVE  /\ Inv'
         /\ loop'[l].pc = "call" => loop'[l].last \in freed[l]
<1> PICK s : s = SessionOf[l]
  OBVIOUS
<1> PICK pinned \in BOOLEAN :
      pinned = (s \in Session /\ pins[s].provider = ProviderAt(l))
  OBVIOUS
<1>1. /\ loop[l].pc = "resolve" /\ mu = NoLoop /\ "resolve" \in Resolving
      /\ loop[l] \in Turn /\ Local(loop[l])
  BY DEF ResolvePin, Resolving, Inv, LoopsOK
<1>2. TrackerOK'
  BY DEF ResolvePin, Inv, TrackerOK
<1>3. CASE /\ pinned /\ PinUsable(pins[s])
           /\ Resolved(l, pins[s]) /\ UNCHANGED resolver
  <2> PICK k : k = pins[s]
    OBVIOUS
  <2>1. k \in Key
    <3>1. ProviderAt(l) \in Provider
      BY <1>1, ConstantTypes DEF ProviderAt, Turn
    <3>2. k \in Key \cup {None} /\ k.provider \in Provider
      BY <1>3, <3>1 DEF Inv, ResolverOK
    <3>3. k.profile \in Profile
      BY <1>3, <3>2, ElementOfSeq DEF PinUsable, Inv, ResolverOK
    <3>4. k = [provider |-> k.provider, profile |-> k.profile]
      BY <3>2 DEF Key, None
    <3> QED
      BY <3>2, <3>3, <3>4 DEF Key
  <2>2. PICK r \in Turn : /\ loop' = [loop EXCEPT ![l] = r] /\ Local(r)
                          /\ r = Idle \/ (r.pc = "call" /\ r.last = k)
    BY <1>1, <1>3, <2>1, ResolvedIs DEF Inv
  <2>3. r.pc \in {"idle", "call"}
    BY <2>2 DEF Idle
  <2>4. LoopsOK' /\ FreedOK'
    BY <2>2, <2>3, LoopsKeep, FreedKeep DEF Inv
  <2>5. LocksOK' /\ ResolverOK'
    BY <1>1, <1>3, <2>2, <2>3, LocksKeep DEF Inv, resolver, ResolverOK
  <2>6. k \in Free
    BY <1>3, <2>1 DEF PinUsable, IsInCooldown, Free, Inv, TrackerOK, Entry
  <2>7. loop'[l].pc = "call" => loop'[l].last \in freed[l]
    <3>1. loop'[l] = r
      BY <2>2 DEF Inv, LoopsOK
    <3> QED
      BY <1>1, <2>2, <2>6, <3>1 DEF Inv, FreedOK, Idle
  <2> QED
    BY <1>2, <2>4, <2>5, <2>7 DEF Inv
<1>4. CASE /\ ~ (pinned /\ PinUsable(pins[s]))
           /\ pins' = IF pinned THEN [pins EXCEPT ![s] = None] ELSE pins
           /\ mu' = l /\ loop' = [loop EXCEPT ![l].pc = "scan"]
           /\ UNCHANGED <<profiles, lastUsed>>
  <2> PICK r : r = [loop[l] EXCEPT !.pc = "scan"]
    OBVIOUS
  <2>1. loop' = [loop EXCEPT ![l] = r]
    BY <1>4 DEF Inv, LoopsOK
  <2>2. Local(r)
    <3>1. r \in Turn
      BY <1>1 DEF Turn, Resolving
    <3>2. /\ r.pc = "scan" /\ r.calls = loop[l].calls /\ r.again = loop[l].again
          /\ r.iterations = loop[l].iterations /\ r.overflow = loop[l].overflow
      BY <1>1 DEF Turn
    <3> QED
      BY <1>1, <3>1, <3>2 DEF Local, Paid, Resolving
  <2>3. r \in Turn /\ r.pc = "scan" /\ r.available = <<>>
    BY <1>1, <2>2 DEF Local, Turn
  <2>4. LoopsOK' /\ LocksOK'
    BY <1>1, <1>4, <2>1, <2>2, <2>3, LoopsKeep, LocksKeep DEF Inv
  <2>5. FreedOK'
    <3>1. DOMAIN r.available = {}
      BY <2>3
    <3> QED
      BY <2>1, <2>3, <3>1, FreedKeep DEF Inv
  <2>6. ResolverOK'
    BY <1>4 DEF Inv, ResolverOK
  <2>7. loop'[l].pc # "call"
    BY <1>1, <2>1, <2>3 DEF Inv, LoopsOK
  <2> QED
    BY <1>2, <2>4, <2>5, <2>6, <2>7 DEF Inv
<1> QED
  BY <1>3, <1>4 DEF ResolvePin

\* A profile is collected only if it is free at the moment of the question.
LEMMA ScanKeeps ==
  ASSUME Inv, Watch, NEW l \in Loop, ScanProfile(l)
  PROVE  /\ Inv'
         /\ loop'[l].pc = "scan"
<1> PICK q : q = loop[l]
  OBVIOUS
<1> PICK list : list = profiles[ProviderAt(l)]
  OBVIOUS
<1> PICK id : id = list[q.index]
  OBVIOUS
<1>1. /\ q.pc = "scan" /\ q.pc \in Resolving /\ q \in Turn /\ Local(q)
      /\ q.index <= Len(list)
  BY DEF ScanProfile, Resolving, Inv, LoopsOK
<1>2. ProviderAt(l) \in Provider /\ list \in Seq(Profile)
  BY <1>1, ConstantTypes DEF ProviderAt, Turn, Inv, ResolverOK
<1>3. q.index \in Nat \ {0} /\ q.index + 1 \in Nat \ {0}
  BY <1>1 DEF Turn
<1>4. id \in Profile /\ KeyOf(ProviderAt(l), id) \in Key
  BY <1>1, <1>2, <1>3, ElementOfSeq, ConstantTypes
<1>5. /\ q.available \in Seq(Profile) /\ Append(q.available, id) \in Seq(Profile)
      /\ q.cooled \in Seq(Profile) /\ Append(q.cooled, id) \in Seq(Profile)
  BY <1>1, <1>4, AppendProperties DEF Turn
<1>6. TrackerOK' /\ ResolverOK' /\ mu' = mu
  BY DEF ScanProfile, resolver, Inv, TrackerOK, ResolverOK
<1>7. CASE IsInCooldown(KeyOf(ProviderAt(l), id))
  <2> PICK n \in Nat \ {0} : n = q.index + 1
    BY <1>3
  <2> PICK c \in Seq(Profile) : c = Append(q.cooled, id)
    BY <1>5
  <2>1. PICK r : r = [q EXCEPT !.index = n, !.cooled = c]
    OBVIOUS
  <2>2. loop' = [loop EXCEPT ![l] = r]
    BY <1>7, <2>1 DEF ScanProfile
  <2>3. r \in Turn
    <3>1. [q EXCEPT !.index = n, !.cooled = c] \in Turn
      BY ZenonT(60), <1>1 DEF Turn
    <3> QED
      BY <2>1, <3>1
  <2>4. /\ r.pc = "scan" /\ r.available = q.available /\ r.model = q.model
        /\ r.again = q.again /\ r.calls = q.calls /\ r.iterations = q.iterations
        /\ r.overflow = q.overflow
    BY <1>1, <2>1 DEF Turn
  <2>5. Local(r)
    BY <1>1, <2>3, <2>4 DEF Local, Paid, Resolving
  <2>6. LoopsOK' /\ LocksOK'
    BY <1>1, <1>6, <2>2, <2>4, <2>5, LoopsKeep, LocksKeep DEF Inv
  <2>7. FreedOK'
    <3>1. \A i \in DOMAIN r.available :
            KeyOf(ProviderOf[Models[r.model]], r.available[i]) \in freed[l]
      BY <1>1, <2>4 DEF Inv, FreedOK, ProviderAt
    <3> QED
      BY <1>1, <2>2, <2>3, <3>1, FreedKeep DEF Inv
  <2> QED
    BY <1>6, <2>2, <2>4, <2>6, <2>7 DEF Inv, LoopsOK
<1>8. CASE ~ IsInCooldown(KeyOf(ProviderAt(l), id))
  <2> PICK n \in Nat \ {0} : n = q.index + 1
    BY <1>3
  <2> PICK a \in Seq(Profile) : a = Append(q.available, id)
    BY <1>5
  <2>1. PICK r : r = [q EXCEPT !.index = n, !.available = a]
    OBVIOUS
  <2>2. loop' = [loop EXCEPT ![l] = r]
    BY <1>8, <2>1 DEF ScanProfile
  <2>3. r \in Turn
    <3>1. [q EXCEPT !.index = n, !.available = a] \in Turn
      BY ZenonT(60), <1>1 DEF Turn
    <3> QED
      BY <2>1, <3>1
  <2>4. /\ r.pc = "scan" /\ r.available = a /\ r.model = q.model
        /\ r.again = q.again /\ r.calls = q.calls /\ r.iterations = q.iterations
        /\ r.overflow = q.overflow
    BY <1>1, <2>1 DEF Turn
  <2>5. Local(r)
    BY <1>1, <2>3, <2>4 DEF Local, Paid, Resolving
  <2>6. LoopsOK' /\ LocksOK'
    BY <1>1, <1>6, <2>2, <2>4, <2>5, LoopsKeep, LocksKeep DEF Inv
  <2>7. KeyOf(ProviderAt(l), id) \in Free
    BY <1>4, <1>8 DEF IsInCooldown, Free, Inv, TrackerOK, Entry
  <2>8. FreedOK'
    <3>1. \A i \in DOMAIN a : a[i] = id \/ (i \in DOMAIN q.available /\ a[i] = q.available[i])
      BY <1>4, <1>5, AppendProperties
    <3>2. \A i \in DOMAIN r.available :
            KeyOf(ProviderOf[Models[r.model]], r.available[i]) \in freed[l]
      BY ZenonT(60), <1>1, <2>4, <2>7, <3>1 DEF Inv, FreedOK, ProviderAt
    <3> QED
      BY <1>1, <2>2, <2>3, <3>2, FreedKeep DEF Inv
  <2> QED
    BY <1>6, <2>2, <2>4, <2>6, <2>8 DEF Inv, LoopsOK
<1> QED
  BY <1>7, <1>8

\* The choice among the collected profiles, each of which was free once.
LEMMA ChooseKeeps ==
  ASSUME Inv, Watch, NEW l \in Loop, ChooseProfile(l)
  PROVE  /\ Inv'
         /\ loop'[l].pc = "call" => loop'[l].last \in freed[l]
<1> PICK q : q = loop[l]
  OBVIOUS
<1> PICK a : a = q.available
  OBVIOUS
<1> PICK p : p = ProviderAt(l)
  OBVIOUS
<1>1. /\ q.pc = "scan" /\ q.pc \in Resolving /\ q \in Turn /\ Local(q) /\ mu = l
      /\ a \in Seq(Profile) /\ p \in Provider
  BY ConstantTypes DEF ChooseProfile, Resolving, Inv, LoopsOK, LocksOK, Turn,
                       ProviderAt
<1>2. TrackerOK'
  BY DEF ChooseProfile, Inv, TrackerOK
<1>3. CASE /\ \E i \in DOMAIN a :
                /\ lastUsed' = [lastUsed EXCEPT ![KeyOf(p, a[i])] = now]
                /\ Resolved(l, KeyOf(p, a[i]))
           /\ mu' = NoLoop /\ UNCHANGED <<profiles, pins>>
  <2> PICK i \in DOMAIN a : /\ lastUsed' = [lastUsed EXCEPT ![KeyOf(p, a[i])] = now]
                            /\ Resolved(l, KeyOf(p, a[i]))
    BY <1>3
  <2>1. KeyOf(p, a[i]) \in Key /\ KeyOf(p, a[i]) \in freed[l]
    <3>1. a[i] \in Profile
      BY <1>1, ElementOfSeq
    <3> QED
      BY <1>1, <3>1, ConstantTypes DEF Inv, FreedOK
  <2>2. PICK r \in Turn : /\ loop' = [loop EXCEPT ![l] = r] /\ Local(r)
                          /\ r = Idle \/ (r.pc = "call" /\ r.last = KeyOf(p, a[i]))
    BY <1>1, <2>1, ResolvedIs DEF Inv
  <2>3. r.pc \in {"idle", "call"}
    BY <2>2 DEF Idle
  <2>4. LoopsOK' /\ FreedOK'
    BY <2>2, <2>3, LoopsKeep, FreedKeep DEF Inv
  <2>5. LocksOK'
    BY <1>1, <1>3, <2>2, <2>3, LocksKeep DEF Inv
  <2>6. ResolverOK'
    BY <1>3, <2>1 DEF Inv, ResolverOK, TrackerOK
  <2>7. loop'[l] = r
    BY <2>2 DEF Inv, LoopsOK
  <2> QED
    BY <1>2, <2>1, <2>2, <2>4, <2>5, <2>6, <2>7 DEF Inv, Idle
<1>4. CASE a = <<>> /\ loop' = [loop EXCEPT ![l].pc = "probe"] /\ UNCHANGED resolver
  <2>1. PICK r : r = [q EXCEPT !.pc = "probe"]
    OBVIOUS
  <2>2. loop' = [loop EXCEPT ![l] = r]
    BY <1>4, <2>1 DEF Inv, LoopsOK
  <2>3. r \in Turn
    BY <1>1, <2>1 DEF Turn, Resolving
  <2>4. /\ r.pc = "probe" /\ r.available = <<>> /\ r.again = q.again
        /\ r.calls = q.calls /\ r.iterations = q.iterations
        /\ r.overflow = q.overflow
    BY <1>1, <1>4, <2>1 DEF Turn
  <2>5. Local(r)
    BY <1>1, <2>3, <2>4 DEF Local, Paid, Resolving
  <2>6. LoopsOK' /\ LocksOK' /\ ResolverOK'
    BY <1>1, <1>4, <2>2, <2>4, <2>5, LoopsKeep, LocksKeep
    DEF Inv, resolver, ResolverOK
  <2>7. FreedOK'
    BY <2>2, <2>3, <2>4, FreedKeep DEF Inv
  <2> QED
    BY <1>2, <2>2, <2>4, <2>6, <2>7 DEF Inv, LoopsOK
<1> QED
  BY <1>3, <1>4 DEF ChooseProfile

\* The provider's own entry, for a provider without profiles.
LEMMA DefaultKeeps ==
  ASSUME Inv, Watch, NEW l \in Loop, ChooseDefault(l)
  PROVE  /\ Inv'
         /\ loop'[l].pc = "call" => loop'[l].last \in freed[l]
<1> PICK q : q = loop[l]
  OBVIOUS
<1> PICK k : k = KeyOf(ProviderAt(l), NoProfile)
  OBVIOUS
<1>1. /\ q.pc = "scan" /\ q.pc \in Resolving /\ q \in Turn /\ Local(q) /\ mu = l
      /\ ProviderAt(l) \in Provider /\ k \in Key
  BY ConstantTypes DEF ChooseDefault, Resolving, Inv, LoopsOK, LocksOK, Turn,
                       ProviderAt
<1>2. TrackerOK' /\ ResolverOK'
  BY DEF ChooseDefault, Inv, TrackerOK, ResolverOK
<1>3. CASE IsInCooldown(k) /\ loop' = [loop EXCEPT ![l].pc = "probe"] /\ mu' = mu
  <2>1. PICK r : r = [q EXCEPT !.pc = "probe"]
    OBVIOUS
  <2>2. loop' = [loop EXCEPT ![l] = r]
    BY <1>3, <2>1 DEF Inv, LoopsOK
  <2>3. r \in Turn
    BY <1>1, <2>1 DEF Turn, Resolving
  <2>4. /\ r.pc = "probe" /\ r.available = q.available /\ r.again = q.again
        /\ r.calls = q.calls /\ r.iterations = q.iterations
        /\ r.overflow = q.overflow
    BY <1>1, <2>1 DEF Turn
  <2>6. Local(r)
    BY <1>1, <2>3, <2>4 DEF Local, Paid, Resolving
  <2>7. LoopsOK' /\ LocksOK'
    BY <1>1, <1>3, <2>2, <2>4, <2>6, LoopsKeep, LocksKeep DEF Inv
  <2>8. FreedOK'
    BY <2>2, <2>3, <2>4, FreedKeep DEF Inv
  <2> QED
    BY <1>2, <2>2, <2>4, <2>7, <2>8 DEF Inv, LoopsOK
<1>4. CASE ~ IsInCooldown(k) /\ Resolved(l, k) /\ mu' = NoLoop
  <2>1. PICK r \in Turn : /\ loop' = [loop EXCEPT ![l] = r] /\ Local(r)
                          /\ r = Idle \/ (r.pc = "call" /\ r.last = k)
    BY <1>1, <1>4, ResolvedIs DEF Inv
  <2>2. r.pc \in {"idle", "call"}
    BY <2>1 DEF Idle
  <2>3. LoopsOK' /\ FreedOK'
    BY <2>1, <2>2, LoopsKeep, FreedKeep DEF Inv
  <2>4. LocksOK'
    BY <1>1, <1>4, <2>1, <2>2, LocksKeep DEF Inv
  <2>5. k \in Free /\ Free \subseteq freed[l]
    BY <1>1, <1>4 DEF IsInCooldown, Free, Inv, TrackerOK, Entry, FreedOK
  <2>6. loop'[l] = r
    BY <2>1 DEF Inv, LoopsOK
  <2> QED
    BY <1>2, <2>1, <2>3, <2>4, <2>5, <2>6 DEF Inv, Idle
<1> QED
  BY <1>3, <1>4 DEF ChooseDefault

\* A probe that is let through comes at least kProbeInterval after the last
\* failure or probe of its key.
LEMMA ProbeKeeps ==
  ASSUME Inv, Watch, NEW l \in Loop, TryProbe(l)
  PROVE  /\ Inv'
         /\ (/\ loop'[l].pc = "call"
             /\ loop'[l].last # RegistryKey \/ loop[l].model < Len(Models))
              => LET k == loop'[l].last
                 IN  probed[k] >= 0 /\ now - probed[k] >= ProbeInterval
<1> PICK q : q = loop[l]
  OBVIOUS
<1> PICK k : k = KeyOf(ProviderAt(l), IF q.cooled = <<>> THEN NoProfile ELSE q.cooled[1])
  OBVIOUS
<1>1. /\ q.pc = "probe" /\ q.pc \in Resolving /\ q \in Turn /\ Local(q)
      /\ mu = l /\ mu' = NoLoop
  BY DEF TryProbe, Resolving, Inv, LoopsOK, LocksOK
<1>2. k \in Key
  <2>1. ProviderAt(l) \in Provider /\ q.cooled \in Seq(Profile)
    BY <1>1, ConstantTypes DEF Turn, ProviderAt
  <2>2. q.cooled # <<>> => q.cooled[1] \in Profile
    BY <2>1
  <2> QED
    BY <2>1, <2>2, ConstantTypes
<1>3. ResolverOK'
  BY DEF TryProbe, Inv, ResolverOK
<1>4. now' = now
  BY DEF TryProbe
<1>5. CASE /\ CanProbe(k)
           /\ states' = [states EXCEPT ![k].probedAt = now]
           /\ probed' = [probed EXCEPT ![k] = now]
           /\ Resolved(l, k)
  <2>1. PICK r \in Turn : /\ loop' = [loop EXCEPT ![l] = r] /\ Local(r)
                          /\ r = Idle \/ (r.pc = "call" /\ r.last = k)
    BY <1>1, <1>2, <1>5, ResolvedIs DEF Inv
  <2>2. r.pc \in {"idle", "call"}
    BY <2>1 DEF Idle
  <2>3. LoopsOK' /\ FreedOK'
    BY <2>1, <2>2, LoopsKeep, FreedKeep DEF Inv
  <2>4. LocksOK'
    BY <1>1, <2>1, <2>2, LocksKeep DEF Inv
  <2>5. TrackerOK'
    <3> PICK e : e = [states[k] EXCEPT !.probedAt = now]
      OBVIOUS
    <3>1. e \in Entry /\ e.fails = states[k].fails /\ e.probedAt = now
      <4> PICK s \in Entry : s = states[k]
        BY <1>2 DEF Inv, TrackerOK
      <4> PICK n \in Nat : n = now
        BY DEF Inv, TrackerOK
      <4>1. [s EXCEPT !.probedAt = n] \in Entry
        BY DEF Entry
      <4>2. /\ [s EXCEPT !.probedAt = n].fails = s.fails
            /\ [s EXCEPT !.probedAt = n].probedAt = n
        BY DEF Entry
      <4> QED
        BY <4>1, <4>2
    <3>2. states' = [states EXCEPT ![k] = e]
      BY <1>2, <1>5 DEF Inv, TrackerOK
    <3>3. states' \in [Key -> Entry] /\ probed' \in [Key -> Int]
      BY SMTT(40), <1>2, <1>5, <3>1, <3>2 DEF Inv, TrackerOK
    <3>4. \A x \in Key : states'[x].fails > 0 => probed'[x] = states'[x].probedAt
      BY <1>2, <1>5, <3>1, <3>2 DEF Inv, TrackerOK
    <3> QED
      BY <1>4, <3>3, <3>4 DEF Inv, TrackerOK
  <2>6. loop'[l] = r
    BY <2>1 DEF Inv, LoopsOK
  <2>7. probed[k] >= 0 /\ now - probed[k] >= ProbeInterval
    BY <1>2, <1>5 DEF CanProbe, IsInCooldown, Inv, TrackerOK, Entry
  <2> QED
    BY <1>3, <2>1, <2>3, <2>4, <2>5, <2>6, <2>7 DEF Inv, Idle
<1>6. CASE ~ CanProbe(k) /\ NextModel(l) /\ UNCHANGED <<states, probed>>
  <2>1. PICK r \in Turn :
          /\ loop' = [loop EXCEPT ![l] = r] /\ Local(r)
          /\ \/ r.pc = "resolve"
             \/ q.model = Len(Models)
                /\ (r = Idle \/ (r.pc = "call" /\ r.last = RegistryKey))
    BY <1>1, <1>6, NextModelIs DEF Inv
  <2>2. r.pc \in {"idle", "call", "resolve"}
    BY <2>1 DEF Idle
  <2>3. LoopsOK' /\ FreedOK'
    BY <2>1, <2>2, LoopsKeep, FreedKeep DEF Inv
  <2>4. LocksOK'
    BY <1>1, <2>1, <2>2, LocksKeep DEF Inv
  <2>5. TrackerOK'
    BY <1>4, <1>6 DEF Inv, TrackerOK
  <2>6. loop'[l] = r /\ Len(Models) \in Nat
    BY <2>1, ConstantTypes DEF Inv, LoopsOK
  <2> QED
    BY <1>3, <2>1, <2>3, <2>4, <2>5, <2>6 DEF Inv, Idle
<1> QED
  BY <1>5, <1>6 DEF TryProbe

-----------------------------------------------------------------------------
(* The call and the rest of the turn *)

\* Entries the tracker writes.
LEMMA EntryTypes ==
  ASSUME TrackerOK, NEW k \in Key, NEW kind \in Kind, NEW retry \in RetryAfter
  PROVE  /\ Fresh \in Entry
         /\ AfterFailure(states[k], kind, retry) \in Entry
         /\ AfterFailure(states[k], kind, retry).probedAt = now
<1> PICK s \in Entry : s = states[k]
  BY DEF TrackerOK
<1> PICK n : n = IF s.fails > 0 /\ now - s.failedAt > FailureWindowDecay
                   THEN 1 ELSE s.fails + 1
  OBVIOUS
<1>1. n \in Nat \ {0} /\ now \in Nat
  BY DEF Entry, TrackerOK
<1>2. Fresh \in Entry
  BY DEF Fresh, Entry
<1>3. ComputeCooldown(kind, n) \in Nat
  <2>1. Lesser(n, 5) \in 1 .. 5
    BY <1>1 DEF Lesser
  <2>2. <<1, 5, 25, 125, 625>>[Lesser(n, 5)] \in Nat
    BY <2>1
  <2>3. Base(kind) \in Nat /\ Cap(kind) \in Nat
    BY DEF Base, Cap
  <2>4. Base(kind) * <<1, 5, 25, 125, 625>>[Lesser(n, 5)] \in Nat
    BY <2>2, <2>3
  <2>5. Lesser(Base(kind) * <<1, 5, 25, 125, 625>>[Lesser(n, 5)], Cap(kind)) \in Nat
    BY <2>3, <2>4 DEF Lesser
  <2> QED
    BY <2>5 DEF ComputeCooldown
<1> PICK d : d = IF retry > 0 THEN retry ELSE ComputeCooldown(kind, n)
  OBVIOUS
<1>4. d \in Nat /\ now + d \in Nat
  BY <1>1, <1>3, LimitsAssumption
<1>5. AfterFailure(s, kind, retry)
        = [fails |-> n, failedAt |-> now, probedAt |-> now, until |-> now + d]
  BY DEF AfterFailure
<1> QED
  BY <1>1, <1>2, <1>4, <1>5 DEF Entry

\* A step of the turn outside a resolution that leaves the resolver and its lock.
LEMMA TurnKeeps ==
  ASSUME Inv, Watch, NEW l \in Loop, NEW r, Local(r),
         loop' = [loop EXCEPT ![l] = r],
         loop[l].pc \notin {"scan", "probe"}, r.pc \notin {"scan", "probe"},
         TrackerOK', ResolverOK', mu' = mu
  PROVE  Inv'
<1>1. r \in Turn
  BY DEF Local
<1>2. LoopsOK' /\ LocksOK'
  BY LoopsKeep, LocksKeep DEF Inv
<1>3. FreedOK'
  BY <1>1, FreedKeep DEF Inv
<1> QED
  BY <1>2, <1>3 DEF Inv

\* Every outcome of a call.
LEMMA CallKeeps ==
  ASSUME Inv, Watch, NEW l \in Loop, CallStep(l)
  PROVE  Inv'
<1> PICK q : q = loop[l]
  OBVIOUS
<1>1. /\ q.pc = "call" /\ q \in Turn /\ Local(q) /\ Paid(q)
      /\ q.used = q.last /\ q.last \in Key /\ q.available = <<>>
      /\ q.calls = q.iterations + q.overflow + 1 /\ q.iterations < max_iterations
  BY DEF CallStep, CallSucceeds, CallOverflows, CallRejected, CallThrows, CallFails,
         Inv, LoopsOK, Local, Paid
<1>2. q.calls \in Nat /\ q.iterations \in Nat /\ q.overflow \in Nat /\ q.overflow + 1 \in Nat
  BY <1>1 DEF Turn
<1>3. now' = now /\ mu' = mu /\ ResolverOK'
  BY DEF CallStep, CallSucceeds, CallOverflows, CallRejected, CallThrows, CallFails,
         resolver, Inv, ResolverOK
<1>4. ASSUME NEW goOn \in BOOLEAN, CallSucceeds(l, goOn)
      PROVE  Inv'
  <2> PICK k \in Key : k = q.last
    BY <1>1
  <2>1. PICK r : r = [q EXCEPT !.pc = "pin", !.goOn = goOn]
    OBVIOUS
  <2>2. loop' = [loop EXCEPT ![l] = r]
    BY <1>4, <2>1 DEF CallSucceeds, Inv, LoopsOK
  <2>3. r \in Turn
    BY <1>1, <2>1 DEF Turn
  <2>4. /\ r.pc = "pin" /\ r.available = <<>> /\ r.used = q.used /\ r.last = q.last
        /\ r.calls = q.calls /\ r.iterations = q.iterations
        /\ r.overflow = q.overflow
    BY <1>1, <2>1 DEF Turn
  <2>5. Local(r)
    BY <1>1, <2>3, <2>4 DEF Local, Paid, Resolving
  <2>6. states' = [states EXCEPT ![k] = Fresh] /\ probed' = probed /\ Fresh \in Entry
    BY <1>4 DEF CallSucceeds, Fresh, Entry
  <2>7. TrackerOK'
    <3>1. states' \in [Key -> Entry]
      BY <2>6 DEF Inv, TrackerOK
    <3>2. \A x \in Key : states'[x].fails > 0 => probed'[x] = states'[x].probedAt
      BY <2>6 DEF Inv, TrackerOK, Fresh
    <3> QED
      BY <1>3, <2>6, <3>1, <3>2 DEF Inv, TrackerOK
  <2> QED
    BY <1>1, <1>3, <2>2, <2>4, <2>5, <2>7, TurnKeeps
<1>5. CASE CallOverflows(l)
  <2>1. TrackerOK'
    BY <1>3, <1>5 DEF CallOverflows, Inv, TrackerOK
  <2>2. CASE q.overflow < OverflowRetries
    <3> PICK n \in Nat : n = q.overflow + 1
      BY <1>2
    <3>1. PICK g : g = [q EXCEPT !.overflow = n]
      OBVIOUS
    <3>2. g \in Turn
      BY <1>1, <3>1 DEF Turn
    <3>3. /\ g.calls = q.calls /\ g.iterations = q.iterations /\ g.overflow = n
          /\ g.used = q.used /\ g.last = q.last /\ g.available = <<>>
      BY <1>1, <3>1 DEF Turn
    <3>4. g.calls = g.iterations + g.overflow /\ g.overflow <= OverflowRetries
      <4>1. OverflowRetries \in Nat /\ n = q.overflow + 1
        BY LimitsAssumption
      <4>2. n <= OverflowRetries
        BY <1>2, <2>2, <4>1
      <4> QED
        BY <1>1, <1>2, <3>3, <4>1, <4>2
    <3>5. /\ Local(Continue(g))
          /\ Continue(g) = Idle \/ Continue(g).pc = "call"
      BY <1>1, <3>2, <3>3, <3>4, ContinueIs
    <3>6. loop' = [loop EXCEPT ![l] = Continue(g)]
      BY <1>5, <2>2, <3>1 DEF CallOverflows
    <3>7. Continue(g).pc \notin {"scan", "probe"}
      BY <3>5 DEF Idle
    <3> QED
      BY <1>1, <1>3, <2>1, <3>5, <3>6, <3>7, TurnKeeps
  <2>3. CASE ~ q.overflow < OverflowRetries
    <3>1. loop' = [loop EXCEPT ![l] = Idle] /\ Idle.pc \notin {"scan", "probe"}
      BY <1>5, <2>3 DEF CallOverflows, Idle
    <3> QED
      BY <1>1, <1>3, <2>1, <3>1, IdleLocal, TurnKeeps
  <2> QED
    BY <2>2, <2>3
<1>6. CASE CallRejected(l)
  <2>1. TrackerOK'
    BY <1>3, <1>6 DEF CallRejected, Inv, TrackerOK
  <2>2. loop' = [loop EXCEPT ![l] = Idle] /\ Idle.pc \notin {"scan", "probe"}
    BY <1>6 DEF CallRejected, Idle
  <2> QED
    BY <1>1, <1>3, <2>1, <2>2, IdleLocal, TurnKeeps
<1>7. CASE CallThrows(l)
  <2>1. TrackerOK'
    BY <1>3, <1>7 DEF CallThrows, Inv, TrackerOK
  <2>2. loop' = [loop EXCEPT ![l] = Retry(q)]
    BY <1>7 DEF CallThrows
  <2>3. /\ Local(Retry(q))
        /\ Retry(q) = Idle \/ Retry(q).pc = "call"
    BY <1>1, RetryIs DEF Paid
  <2>4. Retry(q).pc \notin {"scan", "probe"}
    BY <2>3 DEF Idle
  <2> QED
    BY <1>1, <1>3, <2>1, <2>2, <2>3, <2>4, TurnKeeps
<1>8. ASSUME NEW kind \in Kind, NEW retry \in RetryAfter, CallFails(l, kind, retry)
      PROVE  Inv'
  <2> PICK k \in Key : k = q.last
    BY <1>1
  <2>1. PICK r : r = [q EXCEPT !.pc = "resolve", !.again = TRUE]
    OBVIOUS
  <2>2. loop' = [loop EXCEPT ![l] = r]
    BY <1>8, <2>1 DEF CallFails, Inv, LoopsOK
  <2>3. r \in Turn
    BY <1>1, <2>1 DEF Turn, Resolving
  <2>4. /\ r.pc = "resolve" /\ r.available = <<>> /\ r.again = TRUE
        /\ r.calls = q.calls /\ r.iterations = q.iterations
        /\ r.overflow = q.overflow
    BY <1>1, <2>1 DEF Turn
  <2>5. Local(r)
    BY <1>1, <2>3, <2>4 DEF Local, Paid, Resolving
  <2>6. TrackerOK'
    <3> PICK e \in Entry : e = AfterFailure(states[k], kind, retry) /\ e.probedAt = now
      BY EntryTypes DEF Inv
    <3>1. states' = [states EXCEPT ![k] = e] /\ probed' = [probed EXCEPT ![k] = now]
      BY <1>8 DEF CallFails, Inv, TrackerOK
    <3>2. states' \in [Key -> Entry] /\ probed' \in [Key -> Int]
      BY <3>1 DEF Inv, TrackerOK
    <3>3. \A x \in Key : states'[x].fails > 0 => probed'[x] = states'[x].probedAt
      BY <3>1 DEF Inv, TrackerOK
    <3> QED
      BY <1>3, <3>2, <3>3 DEF Inv, TrackerOK
  <2> QED
    BY <1>1, <1>3, <2>2, <2>4, <2>5, <2>6, TurnKeeps
<1> QED
  BY <1>4, <1>5, <1>6, <1>7, <1>8 DEF CallStep

\* The second lock region of RecordSuccess and what the turn does then.
LEMMA PinSessionKeeps ==
  ASSUME Inv, Watch, NEW l \in Loop, PinSession(l)
  PROVE  Inv'
<1> PICK q : q = loop[l]
  OBVIOUS
<1>1. /\ q.pc = "pin" /\ q \in Turn /\ Local(q) /\ Paid(q)
      /\ q.used = q.last /\ q.last \in Key /\ q.available = <<>>
      /\ q.calls = q.iterations + q.overflow + 1 /\ q.iterations < max_iterations
  BY DEF PinSession, Inv, LoopsOK, Local, Paid
<1>2. q.calls \in Nat /\ q.iterations \in Nat /\ q.overflow \in Nat /\ q.iterations + 1 \in Nat
  BY <1>1 DEF Turn
<1>3. TrackerOK' /\ mu' = mu
  BY DEF PinSession, Inv, TrackerOK
<1>4. ResolverOK'
  BY <1>1 DEF PinSession, Inv, ResolverOK, TrackerOK
<1>5. CASE q.goOn
  <2> PICK n \in Nat : n = q.iterations + 1
    BY <1>2
  <2>1. PICK g : g = [q EXCEPT !.goOn = FALSE, !.iterations = n]
    OBVIOUS
  <2>2. g \in Turn
    BY <1>1, <2>1 DEF Turn
  <2>3. /\ g.calls = q.calls /\ g.iterations = n /\ g.overflow = q.overflow
        /\ g.used = q.used /\ g.last = q.last /\ g.available = <<>>
    BY <1>1, <2>1 DEF Turn
  <2>4. g.calls = g.iterations + g.overflow /\ g.overflow <= OverflowRetries
    BY <1>1, <1>2, <2>3 DEF Paid
  <2>5. /\ Local(Continue(g))
        /\ Continue(g) = Idle \/ Continue(g).pc = "call"
    BY <1>1, <2>2, <2>3, <2>4, ContinueIs
  <2>6. loop' = [loop EXCEPT ![l] = Continue(g)]
    BY <1>5, <2>1 DEF PinSession
  <2>7. Continue(g).pc \notin {"scan", "probe"}
    BY <2>5 DEF Idle
  <2> QED
    BY <1>1, <1>3, <1>4, <2>5, <2>6, <2>7, TurnKeeps
<1>6. CASE ~ q.goOn
  <2>1. loop' = [loop EXCEPT ![l] = Idle] /\ Idle.pc \notin {"scan", "probe"}
    BY <1>6 DEF PinSession, Idle
  <2> QED
    BY <1>1, <1>3, <1>4, <2>1, IdleLocal, TurnKeeps
<1> QED
  BY <1>5, <1>6

-----------------------------------------------------------------------------
(* Configuration and time *)

\* A step that moves no turn only adds to the history.
LEMMA FreedStill ==
  ASSUME LoopsOK, FreedOK, Watch, loop' = loop
  PROVE  FreedOK'
<1>1. CASE Loop = {}
  BY <1>1 DEF Watch, FreedOK
<1>2. ASSUME NEW l \in Loop
      PROVE  FreedOK'
  <2> PICK r \in Turn : r = loop[l]
    BY DEF LoopsOK
  <2>1. loop' = [loop EXCEPT ![l] = r]
    BY DEF LoopsOK
  <2>2. r.pc = "scan" => \A i \in DOMAIN r.available :
          KeyOf(ProviderOf[Models[r.model]], r.available[i]) \in freed[l]
    BY DEF FreedOK, ProviderAt
  <2>3. r.pc = "scan" => loop[l].pc \in Resolving
    BY DEF Resolving
  <2> QED
    BY <2>1, <2>2, <2>3, FreedKeep
<1> QED
  BY <1>1, <1>2

\* Starts, stops, configuration and the clock; none of them begins a call.
LEMMA EnvironmentKeeps ==
  ASSUME Inv, Watch, Environment
  PROVE  /\ Inv'
         /\ \A l \in Loop : loop'[l].pc = "call" => loop[l].pc = "call"
<1>1. ASSUME NEW l \in Loop, ProcessMessage(l)
      PROVE  Inv' /\ \A m \in Loop : loop'[m].pc = "call" => loop[m].pc = "call"
  <2>1. loop[l] = Idle /\ Idle \in Turn /\ loop[l].pc = "idle"
    BY <1>1, IdleLocal DEF ProcessMessage, Inv, LoopsOK, Local
  <2>2. PICK r : r = [Idle EXCEPT !.pc = "resolve", !.stop = FALSE]
    OBVIOUS
  <2>3. loop' = [loop EXCEPT ![l] = r]
    BY <1>1, <2>1, <2>2 DEF ProcessMessage, Inv, LoopsOK
  <2>4. r \in Turn
    BY <2>1, <2>2 DEF Turn, Resolving
  <2>5. /\ r.pc = "resolve" /\ r.available = <<>> /\ r.again = FALSE
        /\ r.calls = 0 /\ r.iterations = 0 /\ r.overflow = 0
    BY <2>2 DEF Idle
  <2>6. Local(r)
    BY <2>4, <2>5, LimitsAssumption DEF Local, Paid, Resolving
  <2>7. TrackerOK' /\ ResolverOK' /\ mu' = mu
    BY <1>1 DEF ProcessMessage, resolver, Inv, TrackerOK, ResolverOK
  <2>8. Inv'
    BY <2>1, <2>3, <2>5, <2>6, <2>7, TurnKeeps
  <2> QED
    BY <2>3, <2>5, <2>8 DEF Inv, LoopsOK
<1>2. ASSUME NEW l \in Loop, Stop(l)
      PROVE  Inv' /\ \A m \in Loop : loop'[m].pc = "call" => loop[m].pc = "call"
  <2> PICK q \in Turn : q = loop[l] /\ Local(q) /\ q.pc # "idle"
    BY <1>2 DEF Stop, Inv, LoopsOK
  <2>1. PICK r : r = [q EXCEPT !.stop = TRUE]
    OBVIOUS
  <2>2. loop' = [loop EXCEPT ![l] = r]
    BY <1>2, <2>1 DEF Stop, Inv, LoopsOK
  <2>3. r \in Turn
    BY <2>1 DEF Turn
  <2>4. /\ r.pc = q.pc /\ r.available = q.available /\ r.again = q.again
        /\ r.calls = q.calls /\ r.iterations = q.iterations /\ r.model = q.model
        /\ r.overflow = q.overflow /\ r.used = q.used /\ r.last = q.last
    BY <2>1 DEF Turn
  <2>5. Local(r)
    BY <2>3, <2>4 DEF Local, Paid
  <2>6. TrackerOK' /\ ResolverOK' /\ mu' = mu
    BY <1>2 DEF Stop, resolver, Inv, TrackerOK, ResolverOK
  <2>7. LoopsOK' /\ LocksOK'
    BY <2>2, <2>4, <2>5, <2>6, LoopsKeep, LocksKeep DEF Inv
  <2>8. FreedOK'
    <3>1. r.pc = "scan" =>
            /\ loop[l].pc \in Resolving
            /\ \A i \in DOMAIN r.available :
                 KeyOf(ProviderOf[Models[r.model]], r.available[i]) \in freed[l]
      BY <2>4 DEF Inv, FreedOK, ProviderAt, Resolving
    <3> QED
      BY <2>2, <2>3, <3>1, FreedKeep DEF Inv
  <2> QED
    BY <2>2, <2>4, <2>6, <2>7, <2>8 DEF Inv, LoopsOK
<1>3. ASSUME NEW p \in Provider, NEW list \in ProfileLists[p], SetProfiles(p, list)
      PROVE  Inv' /\ loop' = loop
  <2>1. list \in Seq(Profile)
    BY ChainAssumption
  <2>2. ResolverOK'
    BY <1>3, <2>1 DEF SetProfiles, Inv, ResolverOK
  <2> QED
    BY <1>3, <2>2, FreedStill
    DEF SetProfiles, Inv, TrackerOK, LocksOK, LoopsOK
<1>4. ASSUME NEW s \in Session, ClearSessionPin(s)
      PROVE  Inv' /\ loop' = loop
  <2>1. ResolverOK'
    BY <1>4 DEF ClearSessionPin, Inv, ResolverOK
  <2> QED
    BY <1>4, <2>1, FreedStill
    DEF ClearSessionPin, Inv, TrackerOK, LocksOK, LoopsOK
<1>5. ASSUME NEW d \in TickSteps, Tick(d)
      PROVE  Inv' /\ loop' = loop
  <2>1. now' \in Nat
    BY <1>5, LimitsAssumption DEF Tick, Inv, TrackerOK
  <2> QED
    BY <1>5, <2>1, FreedStill
    DEF Tick, resolver, Inv, TrackerOK, ResolverOK, LocksOK, LoopsOK
<1> QED
  BY <1>1, <1>2, <1>3, <1>4, <1>5 DEF Environment

-----------------------------------------------------------------------------
(* The specification *)

\* The start of the program satisfies the invariant.
LEMMA Start == Init => Inv
<1> SUFFICES ASSUME Init
             PROVE  Inv
  OBVIOUS
<1>1. TrackerOK
  BY DEF Init, TrackerOK, Fresh, Entry
<1>2. ResolverOK
  <2>1. profiles \in [Provider -> Seq(Profile)]
    BY ChainAssumption DEF Init
  <2> QED
    BY <2>1 DEF Init, ResolverOK
<1>3. LoopsOK
  BY IdleLocal DEF Init, LoopsOK, Local
<1>4. LocksOK
  BY ChainAssumption DEF Init, LocksOK, Idle
<1>5. FreedOK
  BY DEF Init, FreedOK, Idle, Resolving
<1> QED
  BY <1>1, <1>2, <1>3, <1>4, <1>5 DEF Inv

\* Nothing of the invariant is outside the variables.
LEMMA Stutter == Inv /\ UNCHANGED vars => Inv'
  BY DEF vars, Inv, TrackerOK, ResolverOK, LocksOK, LoopsOK, FreedOK, Free, ProviderAt

\* A step of one turn leaves the others where they are.
LEMMA OthersStay ==
  ASSUME LoopsOK, NEW l \in Loop, NEW m \in Loop \ {l}, LoopStep(l)
  PROVE  loop'[m] = loop[m]
  BY DEF LoopsOK, LoopStep, ResolveStep, CallStep, ResolvePin, ScanProfile, ChooseProfile,
         ChooseDefault, TryProbe, NextModel, Resolved, CallSucceeds, CallOverflows,
         CallRejected, CallThrows, CallFails, PinSession

\* A step keeps the invariant and gives both parts of CooldownKept.
LEMMA StepKeeps ==
  ASSUME Inv, Next
  PROVE  /\ Inv'
         /\ \A l \in Loop :
              loop[l].pc \in {"resolve", "scan"} /\ loop'[l].pc = "call"
              => loop'[l].last \in freed[l]
         /\ \A l \in Loop :
              LET k == loop'[l].last
              IN  (/\ loop[l].pc = "probe" /\ loop'[l].pc = "call"
                   /\ k # RegistryKey \/ loop[l].model < Len(Models))
                   => probed[k] >= 0 /\ now - probed[k] >= ProbeInterval
<1>1. ASSUME NEW l \in Loop, LoopStep(l), Watch
      PROVE  /\ Inv'
             /\ loop[l].pc \in {"resolve", "scan"} /\ loop'[l].pc = "call"
                  => loop'[l].last \in freed[l]
             /\ LET k == loop'[l].last
                IN  (/\ loop[l].pc = "probe" /\ loop'[l].pc = "call"
                     /\ k # RegistryKey \/ loop[l].model < Len(Models))
                     => probed[k] >= 0 /\ now - probed[k] >= ProbeInterval
  <2>1. CASE ResolvePin(l)
    BY <1>1, <2>1, PinKeeps DEF ResolvePin
  <2>2. CASE ScanProfile(l)
    BY <1>1, <2>2, ScanKeeps
  <2>3. CASE ChooseProfile(l)
    BY <1>1, <2>3, ChooseKeeps DEF ChooseProfile
  <2>4. CASE ChooseDefault(l)
    BY <1>1, <2>4, DefaultKeeps DEF ChooseDefault
  <2>5. CASE TryProbe(l)
    BY <1>1, <2>5, ProbeKeeps DEF TryProbe
  <2>6. CASE CallStep(l)
    <3>1. loop[l].pc = "call"
      BY <2>6 DEF CallStep, CallSucceeds, CallOverflows, CallRejected,
                  CallThrows, CallFails
    <3> QED
      BY <1>1, <2>6, <3>1, CallKeeps
  <2>7. CASE PinSession(l)
    BY <1>1, <2>7, PinSessionKeeps DEF PinSession
  <2> QED
    BY <1>1, <2>1, <2>2, <2>3, <2>4, <2>5, <2>6, <2>7 DEF LoopStep, ResolveStep
<1>2. CASE \E l \in Loop : LoopStep(l) /\ Watch
  <2> PICK l \in Loop : LoopStep(l) /\ Watch
    BY <1>2
  <2>1. \A m \in Loop \ {l} : loop'[m] = loop[m]
    BY OthersStay DEF Inv
  <2> QED
    BY <1>1, <2>1
<1>3. CASE Environment /\ Watch
  BY <1>3, EnvironmentKeeps
<1> QED
  BY <1>2, <1>3 DEF Next

\* The invariant holds in every reachable state.
LEMMA Invariance == Spec => []Inv
<1>1. Init => Inv
  BY Start
<1>2. Inv /\ [Next]_vars => Inv'
  BY StepKeeps, Stutter
<1> QED
  BY <1>1, <1>2, PTL DEF Spec

\* However calls fail, overflow, throw and fail over, a turn calls providers at
\* most max_iterations_ times plus once per overflow retry, every outcome is
\* recorded for the key the call was made with, and mu_ is held exactly by the
\* turn that resolves (AgentLoop::ProcessMessage, FailoverResolver::Resolve).
THEOREM TurnsAlwaysSound == Spec => []TurnSound
<1> SUFFICES ASSUME Inv
             PROVE  TurnSound
  BY Invariance, PTL
<1>1. TypeOK
  <2>1. \A l \in Loop : loop[l] \in
          [pc : Resolving \cup {"idle", "call", "pin"}, model : 1 .. Len(Models),
           index : Nat, available : Seq(Profile), cooled : Seq(Profile),
           again : BOOLEAN, used : Key \cup {None}, last : Key \cup {None},
           iterations : Nat, overflow : Nat, calls : Nat, goOn : BOOLEAN,
           stop : BOOLEAN]
    BY DEF Inv, LoopsOK, Turn
  <2>2. DOMAIN loop = Loop /\ loop = [l \in Loop |-> loop[l]]
    BY DEF Inv, LoopsOK
  <2> QED
    BY <2>1, <2>2
    DEF Inv, TrackerOK, ResolverOK, LocksOK, FreedOK, TypeOK, Entry
<1>2. CallsBounded
  <2> SUFFICES ASSUME NEW l \in Loop
               PROVE  loop[l].calls <= max_iterations + OverflowRetries
    BY DEF CallsBounded
  <2> PICK q \in Turn : q = loop[l] /\ Local(q) /\ Paid(q)
    BY DEF Inv, LoopsOK, Local
  <2>1. /\ q.calls \in Nat /\ q.iterations \in Nat /\ q.overflow \in Nat
        /\ q.pc \in Resolving \cup {"idle", "call", "pin"} /\ q.again \in BOOLEAN
    BY DEF Turn
  <2>2. max_iterations \in Nat /\ OverflowRetries \in Nat
    BY LimitsAssumption
  <2>3. CASE q.pc = "idle"
    BY <2>2, <2>3 DEF Local, Idle
  <2>4. CASE q.pc \in Resolving /\ ~ q.again
    BY <2>2, <2>4 DEF Paid
  <2>5. CASE q.pc \in {"call", "pin"} \/ (q.pc \in Resolving /\ q.again)
    BY <2>1, <2>2, <2>5 DEF Paid
  <2> QED
    BY <2>1, <2>3, <2>4, <2>5
<1>3. ChargedToCaller
  BY DEF Inv, LoopsOK, Local, ChargedToCaller
<1> QED
  BY <1>1, <1>2, <1>3 DEF TurnSound

\* A key in cooldown is used by nothing but its probes, which are kProbeInterval
\* apart, whatever other turns record and however the clock moves while a
\* resolution asks its questions (FailoverResolver::Resolve,
\* CooldownTracker::TryProbe).
THEOREM CooldownAlwaysKept == Spec => CooldownKept
<1>1. Inv /\ [Next]_vars =>
        [\A l \in Loop :
           loop[l].pc \in {"resolve", "scan"} /\ loop'[l].pc = "call"
           => loop'[l].last \in freed[l]]_vars
  BY StepKeeps
<1>2. Inv /\ [Next]_vars =>
        [\A l \in Loop :
           LET k == loop'[l].last
           IN  (/\ loop[l].pc = "probe" /\ loop'[l].pc = "call"
                /\ k # RegistryKey \/ loop[l].model < Len(Models))
                => probed[k] >= 0 /\ now - probed[k] >= ProbeInterval]_vars
  BY StepKeeps
<1>3. Spec => CooldownRespected
  BY <1>1, Invariance, PTL DEF Spec, CooldownRespected
<1>4. Spec => ProbesThrottled
  BY <1>2, Invariance, PTL DEF Spec, ProbesThrottled
<1> QED
  BY <1>3, <1>4 DEF CooldownKept
=============================================================================
