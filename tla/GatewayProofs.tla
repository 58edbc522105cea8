---------------------------- MODULE GatewayProofs ----------------------------
(***************************************************************************)
(* Proofs about the gateway: the rate limits, the end of Stop, and that     *)
(* requests and answers match, for any number of callers, links, requests   *)
(* and limits.  TLC's run gateway_serve checks the same properties on a     *)
(* small instance.                                                          *)
(***************************************************************************)
EXTENDS Gateway, FiniteSetTheorems, SequenceTheorems, WellFoundedInduction, TLAPS

(***************************************************************************)
(* The deque of a window.                                                  *)
(***************************************************************************)

\* A set of natural numbers that is not empty has a least member.
LEMMA LeastNatural ==
  ASSUME NEW T, T \subseteq Nat, T # {}
  PROVE  \E m \in T : \A n \in T : m <= n
<1>1. PICK m \in T : \A n \in T : ~ (<<n, m>> \in OpToRel(<, Nat))
  BY WFMin, NatLessThanWellFounded
<1>2. \A n \in T : ~ (n < m)
  BY <1>1 DEF OpToRel
<1> QED
  BY <1>2

\* purge_before keeps a suffix: what it drops is older than the cutoff, and
\* what it keeps begins with an entry that is not
\* (RateLimiter::purge_old pops from the front).
LEMMA PurgeIsSuffix ==
  ASSUME NEW w \in Seq(Nat), NEW cutoff \in Int
  PROVE  \E p \in 0 .. Len(w) :
           /\ purge_before(w, cutoff) = SubSeq(w, p + 1, Len(w))
           /\ \A i \in 1 .. p : w[i] < cutoff
           /\ p < Len(w) => w[p + 1] >= cutoff
<1> DEFINE kept == {i \in DOMAIN w : w[i] >= cutoff} \cup {Len(w) + 1}
           first == CHOOSE i \in kept : \A j \in kept : i <= j
<1>1. Len(w) \in Nat /\ DOMAIN w = 1 .. Len(w) /\ \A i \in DOMAIN w : w[i] \in Nat
  BY LenProperties, ElementOfSeq
<1>2. kept \subseteq 1 .. Len(w) + 1 /\ Len(w) + 1 \in kept
  BY <1>1
<1>3. \E i \in kept : \A j \in kept : i <= j
  <2>1. kept \subseteq Nat /\ kept # {}
    BY <1>1, <1>2
  <2> HIDE DEF kept
  <2> QED
    BY <2>1, LeastNatural
<1>4. first \in kept /\ \A j \in kept : first <= j
  BY <1>3, Zenon
<1>5. first \in 1 .. Len(w) + 1
  BY <1>2, <1>4
<1>6. purge_before(w, cutoff) = SubSeq(w, first, Len(w))
  BY DEF purge_before
<1>7. \A i \in 1 .. first - 1 : w[i] < cutoff
  <2> SUFFICES ASSUME NEW i \in 1 .. first - 1, ~ (w[i] < cutoff)
               PROVE  FALSE
    OBVIOUS
  <2>1. i \in DOMAIN w /\ w[i] >= cutoff
    BY <1>1, <1>5
  <2>2. i \in kept
    BY <2>1
  <2>3. first <= i
    BY <2>2, <1>4
  <2> QED
    BY <2>3, <1>5
<1>8. first <= Len(w) => w[first] >= cutoff
  BY SMTT(40), <1>1, <1>4
<1> HIDE DEF first
<1>9. PICK p \in 0 .. Len(w) : p + 1 = first
  <2>1. first - 1 \in 0 .. Len(w) /\ (first - 1) + 1 = first
    BY <1>5, <1>1
  <2> QED
    BY <2>1
<1>10. 1 .. first - 1 = 1 .. p /\ (p < Len(w) => first <= Len(w))
  BY <1>1, <1>9
<1> QED
  BY <1>6, <1>7, <1>8, <1>9, <1>10

\* The length and the entries of a suffix.
LEMMA SuffixEntries ==
  ASSUME NEW w \in Seq(Nat), NEW p \in 0 .. Len(w)
  PROVE  /\ SubSeq(w, p + 1, Len(w)) \in Seq(Nat)
         /\ Len(SubSeq(w, p + 1, Len(w))) = Len(w) - p
         /\ \A i \in 1 .. Len(w) - p : SubSeq(w, p + 1, Len(w))[i] = w[p + i]
<1>1. Len(w) \in Nat /\ \A i \in p + 1 .. Len(w) : w[i] \in Nat
  BY LenProperties, ElementOfSeq
<1>2. /\ SubSeq(w, p + 1, Len(w)) \in Seq(Nat)
      /\ Len(SubSeq(w, p + 1, Len(w))) =
           IF p + 1 <= Len(w) THEN Len(w) - (p + 1) + 1 ELSE 0
      /\ \A i \in 1 .. Len(w) - (p + 1) + 1 :
           SubSeq(w, p + 1, Len(w))[i] = w[p + 1 + i - 1]
  BY <1>1, SubSeqProperties
<1>3. ASSUME NEW i \in 1 .. Len(w) - p
      PROVE  SubSeq(w, p + 1, Len(w))[i] = w[p + i]
  <2>1. i \in 1 .. Len(w) - (p + 1) + 1 /\ p + 1 + i - 1 = p + i
    BY <1>1
  <2> QED
    BY <2>1, <1>2
<1> QED
  BY <1>1, <1>2, <1>3

(***************************************************************************)
(* The rate limits.                                                        *)
(***************************************************************************)

\* windows, accepted and now have the values that the limiter works with.
LimitTypes ==
  /\ now \in Nat
  /\ windows \in [Conn -> Seq(Nat)]
  /\ accepted \in [Conn -> Seq(Nat)]

\* The requests a of a connection are let through in the order of the clock.
InOrder(a) ==
  \A i, j \in 1 .. Len(a) : a[j] <= now /\ (i <= j => a[i] <= a[j])

\* The window w lacks the first k of the requests a, all older than cutoff.
LacksFirst(w, a, k, cutoff) ==
  /\ Len(w) = Len(a) - k
  /\ \A i \in 1 .. Len(w) : w[i] = a[k + i]
  /\ \A i \in 1 .. k : a[i] < cutoff

\* Requests that are max_requests (burst_max) apart are more than
\* window_seconds (a second) apart.
Spaced(a) ==
  \A m, n \in 1 .. Len(a) :
    /\ m + max_requests <= n => a[m] < a[n] - window_seconds
    /\ burst_max > 0 /\ m + burst_max <= n => a[m] < a[n] - 1

\* A window holds the last requests let through; those it lacks are too old to
\* count.
IsWindow(w, a) ==
  /\ Len(w) <= max_requests
  /\ \E k \in 0 .. Len(a) : LacksFirst(w, a, k, now - window_seconds)

Limited(w, a) == InOrder(a) /\ Spaced(a) /\ IsWindow(w, a)

LimitInv == LimitTypes /\ \A c \in Conn : Limited(windows[c], accepted[c])

\* Purging a window leaves it the last requests, and no more of them.
LEMMA PurgeOfWindow ==
  ASSUME NEW w \in Seq(Nat), NEW a \in Seq(Nat), NEW k \in 0 .. Len(a), NEW t \in Nat,
         LacksFirst(w, a, k, t - window_seconds)
  PROVE  /\ purge_old(w, t) \in Seq(Nat)
         /\ Len(purge_old(w, t)) <= Len(w)
         /\ \E q \in 0 .. Len(a) : LacksFirst(purge_old(w, t), a, q, t - window_seconds)
<1> DEFINE cutoff == t - window_seconds
           v == purge_old(w, t)
<1>1. cutoff \in Int /\ Len(w) \in Nat /\ Len(a) \in Nat /\ k \in Nat
  BY GatewayAssumption, LenProperties
<1>2. v = purge_before(w, cutoff)
  BY DEF purge_old
<1> HIDE DEF cutoff
<1>3. PICK p \in 0 .. Len(w) : /\ v = SubSeq(w, p + 1, Len(w))
                               /\ \A i \in 1 .. p : w[i] < cutoff
  BY <1>1, <1>2, PurgeIsSuffix
<1>4. /\ v \in Seq(Nat) /\ Len(v) = Len(w) - p
      /\ \A i \in 1 .. Len(w) - p : v[i] = w[p + i]
  BY <1>3, SuffixEntries
<1> HIDE DEF v
<1>5. LacksFirst(w, a, k, cutoff)
  BY DEF cutoff
<1>6. k + p \in 0 .. Len(a) /\ Len(v) = Len(a) - (k + p)
  BY <1>1, <1>4, <1>5 DEF LacksFirst
<1>7. ASSUME NEW i \in 1 .. Len(v)
      PROVE  v[i] = a[(k + p) + i]
  <2>1. p + i \in 1 .. Len(w) /\ v[i] = w[p + i]
    BY <1>1, <1>4
  <2>2. w[p + i] = a[k + (p + i)]
    BY <2>1, <1>5 DEF LacksFirst
  <2>3. k + (p + i) = (k + p) + i
    BY <1>1
  <2> QED
    BY <2>1, <2>2, <2>3
<1>8. ASSUME NEW i \in 1 .. k + p
      PROVE  a[i] < cutoff
  <2>1. CASE i <= k
    BY <2>1, <1>5, <1>1 DEF LacksFirst
  <2>2. CASE i > k
    <3>1. i - k \in 1 .. p /\ i - k \in 1 .. Len(w) /\ k + (i - k) = i
      BY <2>2, <1>1
    <3>2. w[i - k] < cutoff /\ w[i - k] = a[k + (i - k)]
      BY <3>1, <1>3, <1>5 DEF LacksFirst
    <3> QED
      BY <3>1, <3>2
  <2> QED
    BY <2>1, <2>2, <1>1
<1>9. LacksFirst(v, a, k + p, cutoff)
  BY <1>6, <1>7, <1>8 DEF LacksFirst
<1>10. /\ v \in Seq(Nat) /\ Len(v) <= Len(w)
       /\ \E q \in 0 .. Len(a) : LacksFirst(v, a, q, cutoff)
  BY <1>1, <1>4, <1>6, <1>9
<1> QED
  BY <1>10 DEF v, cutoff

\* Requests since a time are the last ones of a deque in order: if the n-th from
\* the back is among them, they are n at least.
LEMMA CountFromBack ==
  ASSUME NEW v \in Seq(Nat), NEW cut \in Int, NEW n \in 1 .. Len(v),
         \A i \in Len(v) - n + 1 .. Len(v) : v[i] >= cut
  PROVE  Cardinality({i \in DOMAIN v : v[i] >= cut}) >= n
<1> DEFINE recent == {i \in DOMAIN v : v[i] >= cut}
           last == Len(v) - n + 1 .. Len(v)
<1>1. Len(v) \in Nat /\ DOMAIN v = 1 .. Len(v)
  BY LenProperties
<1>2. last \in SUBSET recent /\ recent \in SUBSET (1 .. Len(v))
  BY <1>1
<1>3. Len(v) - n + 1 \in Int /\ Len(v) \in Int /\ n \in Nat
  BY <1>1
<1>4. IsFiniteSet(1 .. Len(v)) /\ Cardinality(last) = n
  BY <1>1, <1>3, FS_Interval
<1> HIDE DEF recent, last
<1>5. IsFiniteSet(recent)
  BY <1>2, <1>4, FS_Subset
<1>6. Cardinality(last) <= Cardinality(recent)
  BY <1>2, <1>5, FS_Subset
<1> QED
  BY <1>4, <1>6 DEF recent

\* A request that Allow lets through keeps the limits, and its time is noted.
LEMMA AllowKeepsLimits ==
  ASSUME NEW w \in Seq(Nat), NEW a \in Seq(Nat), now \in Nat,
         Limited(w, a), Allow(w)
  PROVE  /\ AfterAllow(w) \in Seq(Nat)
         /\ Append(a, now) \in Seq(Nat)
         /\ Limited(AfterAllow(w), Append(a, now))
<1> DEFINE v == purge_old(w, now)
           cutoff == now - window_seconds
           b == Append(a, now)
           N == Len(a)
<1>0. cutoff \in Int /\ cutoff <= now - 1 /\ N \in Nat /\ Len(w) \in Nat
  BY GatewayAssumption, LenProperties
<1>1. /\ v \in Seq(Nat) /\ Len(v) <= Len(w)
      /\ \E q \in 0 .. N : LacksFirst(v, a, q, cutoff)
  BY PurgeOfWindow DEF Limited, IsWindow
<1>2. PICK q \in 0 .. N : LacksFirst(v, a, q, cutoff)
  BY <1>1
<1>3. Len(v) < max_requests /\ (burst_max = 0 \/ BurstCount(v) < burst_max)
  BY DEF Allow
<1>4. AfterAllow(w) = Append(v, now)
  BY DEF AfterAllow
<1> HIDE DEF v
<1>5. /\ Len(v) \in Nat /\ Len(v) = N - q
      /\ \A i \in 1 .. Len(v) : v[i] = a[q + i]
      /\ \A i \in 1 .. q : a[i] < cutoff
  BY <1>1, <1>2, LenProperties DEF LacksFirst
<1>6. /\ b \in Seq(Nat) /\ Len(b) = N + 1 /\ b[N + 1] = now
      /\ \A i \in 1 .. N : b[i] = a[i] /\ a[i] \in Nat
  BY AppendProperties, ElementOfSeq
<1>7. /\ Append(v, now) \in Seq(Nat) /\ Len(Append(v, now)) = Len(v) + 1
      /\ Append(v, now)[Len(v) + 1] = now
      /\ \A i \in 1 .. Len(v) : Append(v, now)[i] = v[i]
  BY <1>1, AppendProperties
<1> HIDE DEF b, N, cutoff
<1>8. \A i, j \in 1 .. N : a[j] <= now /\ (i <= j => a[i] <= a[j])
  BY DEF Limited, InOrder, N
<1>9. InOrder(b)
  <2> SUFFICES ASSUME NEW i \in 1 .. N + 1, NEW j \in 1 .. N + 1
               PROVE  b[j] <= now /\ (i <= j => b[i] <= b[j])
    BY <1>6 DEF InOrder
  <2>1. \A m \in 1 .. N + 1 : m = N + 1 \/ m \in 1 .. N
    BY <1>0
  <2>2. ASSUME NEW m \in 1 .. N + 1
        PROVE  b[m] <= now
    <3>1. CASE m = N + 1
      BY <3>1, <1>6
    <3>2. CASE m \in 1 .. N
      BY <3>2, <1>6, <1>8
    <3> QED
      BY <2>1, <3>1, <3>2
  <2>3. CASE j = N + 1
    BY <2>2, <2>3, <1>6
  <2>4. CASE j \in 1 .. N
    <3>1. i <= j => i \in 1 .. N
      BY <2>4, <1>0
    <3> QED
      BY <2>2, <2>4, <3>1, <1>6, <1>8
  <2> QED
    BY <2>1, <2>3, <2>4
<1>10. ASSUME NEW m \in 1 .. N, m + max_requests <= N + 1
       PROVE  a[m] < cutoff
  <2>1. m <= q
    BY <1>0, <1>3, <1>5, <1>10, GatewayAssumption
  <2> QED
    BY <2>1, <1>5
<1>11. ASSUME NEW m \in 1 .. N, burst_max > 0, m + burst_max <= N + 1
       PROVE  a[m] < now - 1
  <2> SUFFICES ASSUME ~ (a[m] < now - 1) PROVE FALSE
    OBVIOUS
  <2>1. a[m] \in Nat /\ burst_max \in Nat
    BY <1>6, GatewayAssumption
  <2>2. m > q
    <3> SUFFICES ASSUME m <= q PROVE FALSE
      BY <1>0
    <3>1. a[m] < cutoff
      BY <1>5
    <3> QED
      BY <3>1, <2>1, <1>0
  <2>3. burst_max \in 1 .. Len(v)
    BY <2>1, <2>2, <1>0, <1>5, <1>11
  <2>4. ASSUME NEW i \in Len(v) - burst_max + 1 .. Len(v)
        PROVE  v[i] >= now - 1
    <3>1. i \in 1 .. Len(v) /\ q + i \in 1 .. N /\ m <= q + i
      BY <2>1, <2>3, <1>0, <1>5, <1>11
    <3>2. v[i] = a[q + i] /\ a[m] <= a[q + i] /\ a[q + i] \in Nat
      BY <3>1, <1>5, <1>6, <1>8
    <3> QED
      BY SMTT(40), <3>2, <2>1
  <2>5. Cardinality({i \in DOMAIN v : v[i] >= now - 1}) >= burst_max
    <3>1. now - 1 \in Int
      OBVIOUS
    <3> QED
      BY <2>3, <2>4, <3>1, <1>1, CountFromBack
  <2>6. BurstCount(v) >= burst_max
    BY <2>5 DEF BurstCount
  <2>7. BurstCount(v) \in Nat
    <3>1. DOMAIN v = 1 .. Len(v) /\ IsFiniteSet(1 .. Len(v))
      BY <1>1, <1>5, LenProperties, FS_Interval
    <3>2. IsFiniteSet({i \in DOMAIN v : v[i] >= now - 1})
      BY <3>1, FS_Subset
    <3> QED
      BY <3>2, FS_CardinalityType DEF BurstCount
  <2> QED
    BY <2>1, <2>6, <2>7, <1>3, <1>11
<1>12. Spaced(b)
  <2> SUFFICES ASSUME NEW m \in 1 .. N + 1, NEW n \in 1 .. N + 1
               PROVE  /\ m + max_requests <= n => b[m] < b[n] - window_seconds
                      /\ burst_max > 0 /\ m + burst_max <= n => b[m] < b[n] - 1
    BY <1>6 DEF Spaced
  <2>0. max_requests \in Nat \ {0} /\ burst_max \in Nat
    BY <1>3, <1>5, GatewayAssumption
  <2>1. CASE n = N + 1
    <3> SUFFICES ASSUME m \in 1 .. N
                 PROVE  /\ m + max_requests <= n => b[m] < b[n] - window_seconds
                        /\ burst_max > 0 /\ m + burst_max <= n => b[m] < b[n] - 1
      BY <2>0, <2>1, <1>0
    <3>1. b[m] = a[m] /\ b[n] = now
      BY <2>1, <1>6
    <3> QED
      BY <3>1, <2>1, <1>10, <1>11 DEF cutoff
  <2>2. CASE n # N + 1
    <3>1. n \in 1 .. N
      BY <2>2, <1>0
    <3>2. CASE m \in 1 .. N
      <4>1. b[m] = a[m] /\ b[n] = a[n]
        BY <3>1, <3>2, <1>6
      <4>2. Spaced(a)
        BY DEF Limited
      <4> QED
        BY <3>1, <3>2, <4>1, <4>2 DEF Spaced, N
    <3>3. CASE m \notin 1 .. N
      BY <3>1, <3>3, <2>0, <1>0
    <3> QED
      BY <3>2, <3>3
  <2> QED
    BY <2>1, <2>2
<1>13. IsWindow(Append(v, now), b)
  <2>1. Len(Append(v, now)) <= max_requests
    BY <1>3, <1>5, <1>7, GatewayAssumption
  <2>2. ASSUME NEW i \in 1 .. Len(v) + 1
        PROVE  Append(v, now)[i] = b[q + i]
    <3>1. CASE i = Len(v) + 1
      <4>1. q + i = N + 1
        BY <3>1, <1>5, <1>0
      <4> QED
        BY <3>1, <4>1, <1>6, <1>7
    <3>2. CASE i # Len(v) + 1
      <4>1. i \in 1 .. Len(v) /\ q + i \in 1 .. N
        BY <3>2, <1>5, <1>0
      <4> QED
        BY <4>1, <1>5, <1>6, <1>7
    <3> QED
      BY <3>1, <3>2
  <2>3. LacksFirst(Append(v, now), b, q, cutoff)
    <3>1. Len(v) + 1 = (N + 1) - q /\ q \in 0 .. N + 1 /\ 1 .. q \subseteq 1 .. N
      BY <1>0, <1>5
    <3> QED
      BY <2>2, <3>1, <1>5, <1>6, <1>7 DEF LacksFirst
  <2>4. q \in 0 .. Len(b)
    BY <1>0, <1>6
  <2> QED
    BY <2>1, <2>3, <2>4 DEF IsWindow, cutoff
<1> QED
  BY <1>4, <1>6, <1>7, <1>9, <1>12, <1>13 DEF Limited, b

\* A request that Allow refuses only purges the window.
LEMMA RefuseKeepsLimits ==
  ASSUME NEW w \in Seq(Nat), NEW a \in Seq(Nat), now \in Nat,
         Limited(w, a), ~ Allow(w)
  PROVE  AfterAllow(w) \in Seq(Nat) /\ Limited(AfterAllow(w), a)
<1>1. AfterAllow(w) = purge_old(w, now)
  BY DEF AfterAllow
<1>2. /\ purge_old(w, now) \in Seq(Nat)
      /\ Len(purge_old(w, now)) <= Len(w)
      /\ \E q \in 0 .. Len(a) :
           LacksFirst(purge_old(w, now), a, q, now - window_seconds)
  BY PurgeOfWindow DEF Limited, IsWindow
<1>3. Len(w) <= max_requests /\ Len(w) \in Nat /\ Len(purge_old(w, now)) \in Nat
  BY <1>2, LenProperties DEF Limited, IsWindow
<1>4. IsWindow(purge_old(w, now), a)
  <2>1. max_requests \in Nat
    BY GatewayAssumption
  <2>2. Len(purge_old(w, now)) <= max_requests
    BY <1>2, <1>3, <2>1
  <2> QED
    BY <1>2, <2>2 DEF IsWindow
<1> QED
  BY <1>1, <1>2, <1>4 DEF Limited

\* The clock only makes old requests older.
LEMMA TickKeepsLimits ==
  ASSUME NEW w \in Seq(Nat), NEW a \in Seq(Nat), now \in Nat, now' = now + 1,
         Limited(w, a)
  PROVE  /\ \A i, j \in 1 .. Len(a) : a[j] <= now' /\ (i <= j => a[i] <= a[j])
         /\ \E k \in 0 .. Len(a) : LacksFirst(w, a, k, now' - window_seconds)
<1>1. \A i \in 1 .. Len(a) : a[i] \in Nat
  BY ElementOfSeq
<1>2. \A i, j \in 1 .. Len(a) : a[j] <= now /\ (i <= j => a[i] <= a[j])
  BY DEF Limited, InOrder
<1>3. PICK k \in 0 .. Len(a) : LacksFirst(w, a, k, now - window_seconds)
  BY DEF Limited, IsWindow
<1>4. Len(a) \in Nat
  BY LenProperties
<1>5. \A i \in 1 .. k : a[i] < now' - window_seconds
  <2> SUFFICES ASSUME NEW i \in 1 .. k PROVE a[i] < now' - window_seconds
    OBVIOUS
  <2>1. a[i] < now - window_seconds /\ a[i] \in Nat
    BY <1>1, <1>3, <1>4 DEF LacksFirst
  <2> QED
    BY SMTT(40), <2>1, GatewayAssumption
<1>6. LacksFirst(w, a, k, now' - window_seconds)
  BY <1>3, <1>5 DEF LacksFirst
<1> QED
  BY <1>1, <1>2, <1>6

\* The steps that leave the limiter alone.
LimiterRests == UNCHANGED <<windows, accepted, now>>

\* Every action but RunRequest, RefuseRequest and Tick leaves it alone.
LEMMA OthersLeaveLimiter ==
  ASSUME [Next]_vars
  PROVE  \/ LimiterRests
         \/ Tick
         \/ \E c \in Conn : RefuseRequest(c)
         \/ \E c \in Conn, code \in {"ok", "HANDLER_ERROR"} : RunRequest(c, code)
<1>1. CASE ServerStep
  BY <1>1 DEF ServerStep, Start, StopServer, StopJoin, OnOpen, OnClose, HandleHello,
              StreamEvent, HandlerReturns, LimiterRests, clientVars, wire
<1>2. CASE ClientStep
  BY <1>2 DEF ClientStep, Connect, OpenLink, ConnectSteps, Disconnect, ClientClosed,
              ClientEvent, ClientResponse, Deliver, StartCall, FinishCall, CallExpires,
              EraseCall, LimiterRests, serverVars
<1>3. CASE PeerOpens \/ \E c \in Conn : PeerSends(c) \/ CutLink(c)
  BY <1>3 DEF PeerOpens, PeerSends, CutLink, LimiterRests, serverVars
<1>4. CASE UNCHANGED vars
  BY <1>4 DEF vars, serverVars, LimiterRests
<1> QED
  BY <1>1, <1>2, <1>3, <1>4 DEF Next

\* The limits hold in every state.
LEMMA LimitsInvariant == Spec => []LimitInv
<1>1. Init => LimitInv
  <2> SUFFICES ASSUME Init PROVE LimitInv
    OBVIOUS
  <2>1. /\ windows = [c \in Conn |-> <<>>] /\ accepted = [c \in Conn |-> <<>>]
        /\ now \in Nat
    BY GatewayAssumption DEF Init
  <2>2. <<>> \in Seq(Nat) /\ Len(<<>>) = 0
    BY EmptySeq
  <2>3. LimitTypes
    BY <2>1, <2>2 DEF LimitTypes
  <2>4. Limited(<<>>, <<>>)
    BY <2>2, GatewayAssumption DEF Limited, InOrder, Spaced, IsWindow, LacksFirst
  <2> QED
    BY <2>1, <2>3, <2>4 DEF LimitInv
<1>2. LimitInv /\ [Next]_vars => LimitInv'
  <2> SUFFICES ASSUME LimitInv, [Next]_vars PROVE LimitInv'
    OBVIOUS
  <2> USE DEF LimitInv, LimitTypes
  <2>1. ASSUME NEW c \in Conn
        PROVE  windows[c] \in Seq(Nat) /\ accepted[c] \in Seq(Nat) /\ now \in Nat
    OBVIOUS
  <2>2. CASE LimiterRests
    BY <2>2 DEF LimiterRests, Limited, InOrder, Spaced, IsWindow, LacksFirst
  <2>3. CASE Tick
    <3>1. UNCHANGED <<windows, accepted>> /\ now' = now + 1
      BY <2>3 DEF Tick, serverVars
    <3>2. ASSUME NEW c \in Conn
          PROVE  Limited(windows[c], accepted[c])'
      <4>1. Limited(windows[c], accepted[c])
        OBVIOUS
      <4>2. /\ \A i, j \in 1 .. Len(accepted[c]) :
                 accepted[c][j] <= now' /\ (i <= j => accepted[c][i] <= accepted[c][j])
            /\ \E k \in 0 .. Len(accepted[c]) :
                 LacksFirst(windows[c], accepted[c], k, now' - window_seconds)
        BY <2>1, <3>1, <4>1, TickKeepsLimits
      <4> QED
        BY <3>1, <4>1, <4>2 DEF Limited, InOrder, Spaced, IsWindow, LacksFirst
    <3> QED
      BY <3>1, <3>2
  <2>4. ASSUME NEW c \in Conn, RefuseRequest(c)
        PROVE  LimitInv'
    <3>1. /\ UNCHANGED <<accepted, now>>
          /\ \/ UNCHANGED windows
             \/ /\ ~ Allow(windows[c])
                /\ windows' = [windows EXCEPT ![c] = AfterAllow(@)]
      BY <2>4 DEF RefuseRequest
    <3>2. CASE UNCHANGED windows
      BY <3>1, <3>2 DEF Limited, InOrder, Spaced, IsWindow, LacksFirst
    <3>3. CASE ~ Allow(windows[c]) /\ windows' = [windows EXCEPT ![c] = AfterAllow(@)]
      <4>1. /\ AfterAllow(windows[c]) \in Seq(Nat)
            /\ Limited(AfterAllow(windows[c]), accepted[c])
        BY <2>1, <3>3, RefuseKeepsLimits
      <4>2. /\ windows' \in [Conn -> Seq(Nat)]
            /\ \A d \in Conn : windows'[d] = IF d = c THEN AfterAllow(windows[c])
                                             ELSE windows[d]
        BY <3>3, <4>1
      <4>3. \A d \in Conn : Limited(windows'[d], accepted[d])
        BY <4>1, <4>2
      <4> QED
        BY ZenonT(60), <3>1, <4>2, <4>3 DEF Limited, InOrder, Spaced, IsWindow, LacksFirst
    <3> QED
      BY <3>1, <3>2, <3>3
  <2>5. ASSUME NEW c \in Conn, NEW code, RunRequest(c, code)
        PROVE  LimitInv'
    <3>1. /\ Allow(windows[c]) /\ UNCHANGED now
          /\ windows' = [windows EXCEPT ![c] = AfterAllow(@)]
          /\ accepted' = [accepted EXCEPT ![c] = Append(@, now)]
      BY <2>5 DEF RunRequest
    <3>2. /\ AfterAllow(windows[c]) \in Seq(Nat) /\ Append(accepted[c], now) \in Seq(Nat)
          /\ Limited(AfterAllow(windows[c]), Append(accepted[c], now))
      BY <2>1, <3>1, AllowKeepsLimits
    <3>3. /\ windows' \in [Conn -> Seq(Nat)] /\ accepted' \in [Conn -> Seq(Nat)]
          /\ windows'[c] = AfterAllow(windows[c])
          /\ accepted'[c] = Append(accepted[c], now)
          /\ \A d \in Conn \ {c} : windows'[d] = windows[d] /\ accepted'[d] = accepted[d]
      BY <3>1, <3>2
    <3>4. \A d \in Conn : Limited(windows'[d], accepted'[d])
      BY <3>2, <3>3
    <3>5. ASSUME NEW d \in Conn
          PROVE  Limited(windows[d], accepted[d])'
      <4>1. Limited(windows'[d], accepted'[d]) /\ now' = now
        BY <3>1, <3>4
      <4> QED
        BY <4>1 DEF Limited, InOrder, Spaced, IsWindow, LacksFirst
    <3> QED
      BY <3>1, <3>3, <3>5
  <2> QED
    BY <2>2, <2>3, <2>4, <2>5, OthersLeaveLimiter
<1> QED
  BY <1>1, <1>2, PTL DEF Spec

\* Requests that are n apart lie more than d apart: none of n + 1 in a row fit
\* into d.
LEMMA AtMostWithin ==
  ASSUME NEW a \in Seq(Nat), InOrder(a), NEW n \in Nat, NEW d \in Nat, NEW t \in Nat,
         \A i, j \in 1 .. Len(a) : i + n <= j => a[i] < a[j] - d
  PROVE  Cardinality({i \in DOMAIN a : a[i] \in t .. t + d}) <= n
<1> DEFINE within == {i \in DOMAIN a : a[i] \in t .. t + d}
<1>1. /\ DOMAIN a = 1 .. Len(a) /\ Len(a) \in Nat
      /\ \A i \in 1 .. Len(a) : a[i] \in Nat
  BY LenProperties, ElementOfSeq
<1>2. within \subseteq Nat
  BY <1>1
<1>3. CASE within = {}
  <2>1. Cardinality(within) = 0
    BY <1>3, FS_EmptySet
  <2> QED
    BY <2>1
<1>4. CASE within # {}
  <2>1. PICK m \in within : \A i \in within : m <= i
    <3> HIDE DEF within
    <3> QED
      BY <1>2, <1>4, LeastNatural
  <2>2. ASSUME NEW i \in within, i >= m + n
        PROVE  FALSE
    <3>1. i - n \in 1 .. Len(a) /\ m <= i - n /\ (i - n) + n <= i
      BY <1>1, <2>1, <2>2
    <3>2. a[i - n] < a[i] - d /\ a[m] <= a[i - n] /\ a[i - n] \in Nat
      BY <1>1, <2>1, <3>1 DEF InOrder
    <3>3. a[i] <= t + d /\ t <= a[m] /\ a[i] \in Nat /\ a[m] \in Nat
      BY <1>1, <2>1
    <3> QED
      BY SMTT(40), <3>2, <3>3
  <2>3. within \in SUBSET (m .. m + n - 1)
    BY <1>2, <2>1, <2>2
  <2>4. m \in Int /\ m + n - 1 \in Int
    BY <1>2, <2>1
  <2>5. IsFiniteSet(m .. m + n - 1) /\ Cardinality(m .. m + n - 1) <= n
    <3>1. /\ IsFiniteSet(m .. m + n - 1)
          /\ Cardinality(m .. m + n - 1) =
               IF m > m + n - 1 THEN 0 ELSE (m + n - 1) - m + 1
      BY <2>4, FS_Interval
    <3> QED
      BY <2>4, <3>1
  <2> HIDE DEF within
  <2>6. IsFiniteSet(within) /\ Cardinality(within) <= Cardinality(m .. m + n - 1)
    BY <2>3, <2>5, FS_Subset
  <2> QED
    BY <2>5, <2>6, FS_CardinalityType DEF within
<1> QED
  BY <1>3, <1>4

\* A slot of a full window is free as soon as its oldest entry is older than
\* the window, and not before (rate_limiter.cpp:112).
LEMMA SlotIsFree ==
  ASSUME NEW v \in Seq(Nat), v # <<>>, Len(v) = max_requests, NEW t \in Nat
  PROVE  Len(purge_old(v, t)) < max_requests <=> v[1] + window_seconds < t
<1>1. /\ Len(v) \in Nat \ {0} /\ v[1] \in Nat /\ window_seconds \in Nat
      /\ t - window_seconds \in Int
  BY EmptySeq, LenProperties, ElementOfSeq, GatewayAssumption
<1>2. PICK p \in 0 .. Len(v) :
        /\ purge_before(v, t - window_seconds) = SubSeq(v, p + 1, Len(v))
        /\ \A i \in 1 .. p : v[i] < t - window_seconds
        /\ p < Len(v) => v[p + 1] >= t - window_seconds
  BY <1>1, PurgeIsSuffix
<1>3. Len(purge_old(v, t)) = Len(v) - p
  BY <1>1, <1>2, SuffixEntries DEF purge_old
<1>4. p >= 1 <=> v[1] < t - window_seconds
  <2>1. p >= 1 => v[1] < t - window_seconds
    BY <1>1, <1>2
  <2>2. p = 0 => v[0 + 1] >= t - window_seconds
    BY <1>1, <1>2
  <2> QED
    BY <1>1, <1>2, <2>1, <2>2
<1> QED
  BY <1>1, <1>3, <1>4

\* What RetryAfter says, when the window is full: the least number of seconds
\* after which a slot is free, except at the very edge (rate_limiter.cpp:69).
LEMMA RetryAfterIsExact ==
  ASSUME NEW w \in Seq(Nat), now \in Nat, NEW a \in Seq(Nat), Limited(w, a),
         NEW v, v = purge_old(w, now), v # <<>>, Len(v) >= max_requests,
         NEW r, r = RetryAfter(w)
  PROVE  /\ r \in Nat
         /\ \A d \in 0 .. r - 1 : ~ (Len(purge_old(v, now + d)) < max_requests)
         /\ Len(purge_old(v, now + r)) < max_requests <=> Head(v) + window_seconds # now
         /\ Len(purge_old(v, now + (r + 1))) < max_requests
<1>1. /\ v \in Seq(Nat) /\ Len(v) <= Len(w)
      /\ Len(w) <= max_requests /\ Len(w) \in Nat
  BY PurgeOfWindow, LenProperties DEF Limited, IsWindow
<1>2. /\ Len(v) = max_requests /\ Len(v) \in Nat \ {0} /\ Head(v) = v[1] /\ v[1] \in Nat
      /\ window_seconds \in Nat
  BY <1>1, EmptySeq, HeadTailProperties, ElementOfSeq, LenProperties, GatewayAssumption
<1>3. w # <<>>
  BY <1>1, <1>2, EmptySeq
<1>4. PICK h \in Nat : h = v[1]
  BY <1>2
<1>5. h + window_seconds >= now
  <2>1. now - window_seconds \in Int
    BY <1>2
  <2>2. PICK p \in 0 .. Len(w) :
          /\ purge_before(w, now - window_seconds) = SubSeq(w, p + 1, Len(w))
          /\ p < Len(w) => w[p + 1] >= now - window_seconds
    BY <2>1, PurgeIsSuffix
  <2>3. v = SubSeq(w, p + 1, Len(w))
    BY <2>2 DEF purge_old
  <2>4. Len(v) = Len(w) - p /\ v[1] = w[1 + p]
    BY <1>1, <1>2, <2>2, <2>3, SuffixEntries
  <2>5. p < Len(w)
    BY <1>1, <1>2, <2>2, <2>4
  <2> QED
    BY <1>2, <1>4, <2>2, <2>4, <2>5
<1>6. r = IF h + window_seconds <= now THEN 0 ELSE h + window_seconds - now + 1
  <2>1. ~ (Len(v) < max_requests) /\ Head(v) = h
    BY <1>2, <1>4
  <2> QED
    BY <1>3, <2>1 DEF RetryAfter
<1>7. r \in Nat
  BY <1>2, <1>5, <1>6
<1>8. ASSUME NEW t \in Nat
      PROVE  Len(purge_old(v, t)) < max_requests <=> h + window_seconds < t
  BY <1>1, <1>2, <1>4, SlotIsFree
<1>9. \A d \in 0 .. r - 1 : ~ (Len(purge_old(v, now + d)) < max_requests)
  <2> TAKE d \in 0 .. r - 1
  <2>1. now + d \in Nat /\ ~ (h + window_seconds < now + d)
    BY <1>2, <1>6, <1>7
  <2> QED
    BY <1>8, <2>1
<1>10. Len(purge_old(v, now + r)) < max_requests <=> Head(v) + window_seconds # now
  <2>1. now + r \in Nat /\ (h + window_seconds < now + r <=> h + window_seconds # now)
    BY <1>2, <1>5, <1>6, <1>7
  <2> QED
    BY <1>2, <1>4, <1>8, <2>1
<1>11. Len(purge_old(v, now + (r + 1))) < max_requests
  <2>1. now + (r + 1) \in Nat /\ h + window_seconds < now + (r + 1)
    BY <1>2, <1>5, <1>6, <1>7
  <2> QED
    BY <1>8, <2>1
<1> QED
  BY <1>7, <1>9, <1>10, <1>11

\* No connection gets more than max_requests requests through in any window of
\* window_seconds, nor more than burst_max in a second, and RetryAfter is exact
\* except at the edge (rate_limiter.cpp:12, 56, 112), for every setting of the
\* limiter.
THEOREM LimitsAlwaysHold == Spec => []LimitsHold
<1>1. LimitInv => LimitsHold
  <2> SUFFICES ASSUME LimitInv, NEW c \in Conn
               PROVE  /\ \A t \in 0 .. MaxTicks :
                           /\ Cardinality({i \in DOMAIN accepted[c] :
                                accepted[c][i] \in t .. t + window_seconds}) <= max_requests
                           /\ burst_max > 0 => Cardinality({i \in DOMAIN accepted[c] :
                                accepted[c][i] \in t .. t + 1}) <= burst_max
                      /\ LET v == purge_old(windows[c], now)
                             r == RetryAfter(windows[c])
                         IN  v # <<>> /\ Len(v) >= max_requests =>
                               /\ \A d \in 0 .. r - 1 :
                                    ~ (Len(purge_old(v, now + d)) < max_requests)
                               /\ Len(purge_old(v, now + r)) < max_requests
                                    <=> Head(v) + window_seconds # now
                               /\ Len(purge_old(v, now + (r + 1))) < max_requests
    BY DEF LimitsHold
  <2>1. /\ windows[c] \in Seq(Nat) /\ accepted[c] \in Seq(Nat) /\ now \in Nat
        /\ Limited(windows[c], accepted[c])
    BY DEF LimitInv, LimitTypes
  <2>2. /\ max_requests \in Nat /\ burst_max \in Nat /\ window_seconds \in Nat /\ 1 \in Nat
        /\ \A t \in 0 .. MaxTicks : t \in Nat
    BY GatewayAssumption
  <2>3. ASSUME NEW t \in 0 .. MaxTicks
        PROVE  /\ Cardinality({i \in DOMAIN accepted[c] :
                               accepted[c][i] \in t .. t + window_seconds}) <= max_requests
               /\ burst_max > 0 => Cardinality({i \in DOMAIN accepted[c] :
                                     accepted[c][i] \in t .. t + 1}) <= burst_max
    BY <2>1, <2>2, AtMostWithin DEF Limited, Spaced
  <2> QED
    BY <2>1, <2>3, RetryAfterIsExact
<1> QED
  BY <1>1, LimitsInvariant, PTL

(***************************************************************************)
(* Types of the tables, of the frames and of the client.                   *)
(***************************************************************************)
ConnRecord   == [present : BOOLEAN, authenticated : BOOLEAN, scopes : SUBSET ReadScopes]
ThreadRecord == [conn : Conn, id : Id, said : {0, 1}]
Code         == {"ok", "HANDLER_ERROR", "AUTH_FAILED", "METHOD_NOT_FOUND", "RATE_LIMITED",
                 "NOT_AUTHENTICATED", "PERMISSION_DENIED", "checked", "none"}
Answered     == Method \cup {"agent.request", "agent.text_delta", "connect.challenge",
                             "none"}
ClientFrame  == [type : {"res", "event", "challenge"}, id : Id, method : Answered,
                 code : Code]
CallRecord   == [pc : {"idle", "wait", "expired"}, id : Id, method : Answered,
                 answer : ClientFrame]
ClientRecord ==
  [phase : {"new", "connecting", "hello", "ready", "down"}, conn : Conn \cup {0},
   connected : BOOLEAN, authenticated : BOOLEAN, helloDone : BOOLEAN,
   helloId : Id, counter : Id]

ServerTypes ==
  /\ server \in {"new", "running", "closing", "stopped"}
  /\ auth_mode \in {"none", "token"}
  /\ conns \in [Conn -> ConnRecord]
  /\ threads \subseteq ThreadRecord
  /\ answered \in [Conn -> [Id -> Nat]]

WireTypes ==
  /\ link \in [Conn -> {"none", "open", "cut"}]
  /\ owner \in [Conn -> {"none", "client", "peer"}]
  /\ toServer \in [Conn -> Seq(RequestFrame)]
  /\ toClient \in [Conn -> Seq(ClientFrame)]

ClientTypes ==
  /\ client \in ClientRecord
  /\ pending \in [Id -> {"none", "wait", "done"}]
  /\ call \in [Caller -> CallRecord]
  /\ reader \in ClientFrame

GatewayTypes == ServerTypes /\ WireTypes /\ ClientTypes

\* What the assumptions on the constants say, in the form the proofs cite.
LEMMA ConstantTypes ==
  /\ {max_requests, burst_max, window_seconds} \subseteq Nat
  /\ MaxConns \in Nat /\ MaxIds \in Nat /\ 0 \in Id /\ Id \subseteq Nat /\ Conn \subseteq Nat
  /\ TokenOk \in BOOLEAN
  /\ PeerRequests \subseteq RequestFrame /\ \A f \in PeerRequests : f.id = 0
  /\ NoFrame \in ClientFrame /\ NoCall \in CallRecord
  /\ NoClient \in ConnRecord /\ Unknown \in ConnRecord
<1>1. /\ {max_requests, burst_max, window_seconds} \subseteq Nat
      /\ MaxConns \in Nat /\ MaxIds \in Nat /\ 0 \in Id /\ Id \subseteq Nat /\ Conn \subseteq Nat
      /\ TokenOk \in BOOLEAN
  <2> USE GatewayAssumption
  <2>1. {max_requests, burst_max, window_seconds} \subseteq Nat /\ TokenOk \in BOOLEAN
    OBVIOUS
  <2>2. MaxConns \in Nat /\ MaxIds \in Nat
    OBVIOUS
  <2>3. 0 \in Id /\ Id \subseteq Nat /\ Conn \subseteq Nat
    BY <2>2 DEF Id, Conn
  <2> QED
    BY <2>1, <2>2, <2>3
<1>2. PeerRequests \subseteq RequestFrame /\ \A f \in PeerRequests : f.id = 0
  BY PeerAssumption
<1>3. NoFrame \in ClientFrame /\ NoCall \in CallRecord
  <2>1. NoFrame \in ClientFrame
    BY <1>1 DEF NoFrame, Response, ClientFrame, Answered, Code
  <2> QED
    BY <1>1, <2>1 DEF NoCall, CallRecord, Answered
<1>4. NoClient \in ConnRecord /\ Unknown \in ConnRecord
  BY DEF NoClient, Unknown, ConnRecord
<1> QED
  BY <1>1, <1>2, <1>3, <1>4

\* What the constructors of frames build.
LEMMA FrameTypes ==
  ASSUME NEW id \in Id
  PROVE  /\ \A method \in Answered, code \in Code : Response(id, method, code) \in ClientFrame
         /\ Event(id) \in ClientFrame /\ Challenge \in ClientFrame
         /\ \A method \in Method : Request(id, method) \in RequestFrame
         /\ \A good \in BOOLEAN, scopes \in SUBSET ReadScopes :
              Hello(id, good, scopes) \in RequestFrame
<1>1. 0 \in Id
  BY ConstantTypes
<1>2. \A method \in Answered, code \in Code : Response(id, method, code) \in ClientFrame
  BY DEF Response, ClientFrame
<1>3. Event(id) \in ClientFrame
  BY DEF Event, ClientFrame, Answered, Code
<1>4. Challenge \in ClientFrame
  BY <1>1 DEF Challenge, ClientFrame, Answered, Code
<1>5. \A method \in Method : Request(id, method) \in RequestFrame
  BY DEF Request, RequestFrame
<1>6. ASSUME NEW good \in BOOLEAN, NEW scopes \in SUBSET ReadScopes
      PROVE  Hello(id, good, scopes) \in RequestFrame
  <2>1. "connect.hello" \in Method
    BY DEF Method
  <2> QED
    BY <2>1 DEF Hello, RequestFrame
<1> QED
  BY <1>2, <1>3, <1>4, <1>5, <1>6

\* A frame that is put on the way to a client.
LEMMA PutTypes ==
  ASSUME GatewayTypes, NEW c \in Conn, NEW f \in ClientFrame
  PROVE  /\ Put(toClient, c, f) \in [Conn -> Seq(ClientFrame)]
         /\ \/ Put(toClient, c, f) = toClient
            \/ /\ owner[c] = "client" /\ link[c] = "open"
               /\ Put(toClient, c, f) = [toClient EXCEPT ![c] = Append(@, f)]
<1>1. Append(toClient[c], f) \in Seq(ClientFrame)
  BY AppendProperties DEF GatewayTypes, WireTypes
<1> QED
  BY <1>1 DEF Put, GatewayTypes, WireTypes

\* A response that is sent.
LEMMA AnswerTypes ==
  ASSUME GatewayTypes, NEW c \in Conn, NEW f \in ClientFrame, Answer(c, f)
  PROVE  /\ toClient' \in [Conn -> Seq(ClientFrame)]
         /\ answered' \in [Conn -> [Id -> Nat]]
<1>1. f.id \in Id
  BY DEF ClientFrame
<1> QED
  BY <1>1, PutTypes DEF Answer, GatewayTypes, ServerTypes

\* The frame that a connection's thread takes.
LEMMA TakenFrame ==
  ASSUME GatewayTypes, NEW c \in Conn, toServer[c] # <<>>
  PROVE  /\ Head(toServer[c]) \in RequestFrame
         /\ [toServer EXCEPT ![c] = Tail(@)] \in [Conn -> Seq(RequestFrame)]
<1>1. toServer[c] \in Seq(RequestFrame)
  BY DEF GatewayTypes, WireTypes
<1>2. Head(toServer[c]) \in RequestFrame /\ Tail(toServer[c]) \in Seq(RequestFrame)
  BY <1>1, HeadTailProperties
<1> QED
  BY <1>2 DEF GatewayTypes, WireTypes

\* The frame that the client sends.
LEMMA SendTypes ==
  ASSUME GatewayTypes, NEW f \in RequestFrame, Send(f)
  PROVE  toServer' \in [Conn -> Seq(RequestFrame)]
<1>1. CASE client.conn # 0 /\ link[client.conn] = "open"
  <2>1. client.conn \in Conn
    BY <1>1 DEF GatewayTypes, ClientTypes, ClientRecord
  <2>2. Append(toServer[client.conn], f) \in Seq(RequestFrame)
    BY <2>1, AppendProperties DEF GatewayTypes, WireTypes
  <2> QED
    BY <1>1, <2>1, <2>2 DEF Send, GatewayTypes, WireTypes
<1>2. CASE ~ (client.conn # 0 /\ link[client.conn] = "open")
  BY <1>2 DEF Send, GatewayTypes, WireTypes
<1> QED
  BY <1>1, <1>2

\* The steps of the server keep the types.
LEMMA ServerStepTypes ==
  ASSUME GatewayTypes, ServerStep
  PROVE  GatewayTypes'
<1>1. CASE Start \/ StopJoin
  BY <1>1 DEF Start, StopJoin, clientVars, wire, GatewayTypes, ServerTypes, WireTypes,
              ClientTypes
<1>2. CASE StopServer
  <2>1. link' \in [Conn -> {"none", "open", "cut"}]
    BY <1>2 DEF StopServer, GatewayTypes, WireTypes
  <2> QED
    BY <1>2, <2>1 DEF StopServer, clientVars, GatewayTypes, ServerTypes, WireTypes,
                      ClientTypes
<1>3. ASSUME NEW c \in Conn, OnOpen(c)
      PROVE  GatewayTypes'
  <2>1. toClient' \in [Conn -> Seq(ClientFrame)]
    <3>1. Challenge \in ClientFrame
      BY FrameTypes, ConstantTypes
    <3> QED
      BY <1>3, <3>1, PutTypes DEF OnOpen
  <2>2. conns' \in [Conn -> ConnRecord]
    BY <1>3, ConstantTypes DEF OnOpen, GatewayTypes, ServerTypes
  <2> QED
    BY <1>3, <2>1, <2>2 DEF OnOpen, clientVars, GatewayTypes, ServerTypes, WireTypes,
                            ClientTypes
<1>4. ASSUME NEW c \in Conn, OnClose(c)
      PROVE  GatewayTypes'
  <2>1. <<>> \in Seq(RequestFrame)
    BY EmptySeq
  <2>2. toServer' \in [Conn -> Seq(RequestFrame)]
    BY <1>4, <2>1 DEF OnClose, GatewayTypes, WireTypes
  <2>3. conns' \in [Conn -> ConnRecord]
    BY <1>4, ConstantTypes DEF OnClose, GatewayTypes, ServerTypes
  <2> QED
    BY <1>4, <2>2, <2>3 DEF OnClose, clientVars, GatewayTypes, ServerTypes, WireTypes,
                            ClientTypes
<1>5. ASSUME NEW c \in Conn, HandleHello(c)
      PROVE  GatewayTypes'
  <2> DEFINE f == Head(toServer[c])
  <2>1. f \in RequestFrame /\ toServer' \in [Conn -> Seq(RequestFrame)]
    BY <1>5, TakenFrame DEF HandleHello
  <2>2. PICK code \in Code : Answer(c, Response(f.id, f.method, code))
    BY <1>5 DEF HandleHello, Code
  <2>3. Response(f.id, f.method, code) \in ClientFrame
    BY <2>1, FrameTypes DEF RequestFrame, Answered, Code
  <2>4. toClient' \in [Conn -> Seq(ClientFrame)] /\ answered' \in [Conn -> [Id -> Nat]]
    BY <2>2, <2>3, AnswerTypes
  <2>5. [present |-> TRUE, authenticated |-> TRUE,
         scopes |-> IF f.scopes = {} THEN DefaultScopes ELSE f.scopes] \in ConnRecord
    BY <2>1 DEF RequestFrame, ConnRecord, DefaultScopes, ReadScopes
  <2>6. conns' \in [Conn -> ConnRecord]
    <3>1. \/ conns' = conns
          \/ conns' = [conns EXCEPT ![c] =
                [present |-> TRUE, authenticated |-> TRUE,
                 scopes |-> IF f.scopes = {} THEN DefaultScopes ELSE f.scopes]]
      BY <1>5 DEF HandleHello
    <3> QED
      BY <2>5, <3>1 DEF GatewayTypes, ServerTypes
  <2> QED
    BY <1>5, <2>1, <2>4, <2>6 DEF HandleHello, clientVars, GatewayTypes, ServerTypes,
                                  WireTypes, ClientTypes
<1>6. ASSUME NEW c \in Conn, RefuseRequest(c)
      PROVE  GatewayTypes'
  <2> DEFINE f == Head(toServer[c])
  <2>1. f \in RequestFrame /\ toServer' \in [Conn -> Seq(RequestFrame)]
    BY <1>6, TakenFrame DEF RefuseRequest
  <2>2. \/ UNCHANGED <<toClient, answered>>
        \/ \E code \in Code : Answer(c, Response(f.id, f.method, code))
    <3>1. Verdict(c, f.method) \in Code /\ "RATE_LIMITED" \in Code
      BY DEF Verdict, Code
    <3> QED
      BY <1>6, <3>1 DEF RefuseRequest
  <2>3. toClient' \in [Conn -> Seq(ClientFrame)] /\ answered' \in [Conn -> [Id -> Nat]]
    <3>1. CASE UNCHANGED <<toClient, answered>>
      BY <3>1 DEF GatewayTypes, ServerTypes, WireTypes
    <3>2. ASSUME NEW code \in Code, Answer(c, Response(f.id, f.method, code))
          PROVE  /\ toClient' \in [Conn -> Seq(ClientFrame)]
                 /\ answered' \in [Conn -> [Id -> Nat]]
      <4>1. Response(f.id, f.method, code) \in ClientFrame
        BY <2>1, FrameTypes DEF RequestFrame, Answered, Code
      <4> QED
        BY <3>2, <4>1, AnswerTypes
    <3> QED
      BY <2>2, <3>1, <3>2
  <2> QED
    BY <1>6, <2>1, <2>3 DEF RefuseRequest, clientVars, GatewayTypes, ServerTypes,
                            WireTypes, ClientTypes
<1>7. ASSUME NEW c \in Conn, NEW code \in {"ok", "HANDLER_ERROR"}, RunRequest(c, code)
      PROVE  GatewayTypes'
  <2> DEFINE f == Head(toServer[c])
  <2>1. f \in RequestFrame /\ toServer' \in [Conn -> Seq(RequestFrame)]
    BY <1>7, TakenFrame DEF RunRequest
  <2>2. /\ threads' \subseteq ThreadRecord
        /\ toClient' \in [Conn -> Seq(ClientFrame)]
        /\ answered' \in [Conn -> [Id -> Nat]]
    <3>1. CASE /\ threads' = threads \cup {[conn |-> c, id |-> f.id, said |-> 0]}
               /\ UNCHANGED <<toClient, answered>>
      <4>1. [conn |-> c, id |-> f.id, said |-> 0] \in ThreadRecord
        BY <2>1 DEF RequestFrame, ThreadRecord
      <4> QED
        BY <3>1, <4>1 DEF GatewayTypes, ServerTypes, WireTypes
    <3>2. CASE Answer(c, Response(f.id, f.method, code)) /\ UNCHANGED threads
      <4>1. Response(f.id, f.method, code) \in ClientFrame
        BY <2>1, FrameTypes DEF RequestFrame, Answered, Code
      <4> QED
        BY <3>2, <4>1, AnswerTypes DEF GatewayTypes, ServerTypes
    <3> QED
      BY <1>7, <3>1, <3>2 DEF RunRequest
  <2> QED
    BY <1>7, <2>1, <2>2 DEF RunRequest, clientVars, GatewayTypes, ServerTypes, WireTypes,
                            ClientTypes
<1>8. ASSUME NEW t \in threads, StreamEvent(t)
      PROVE  GatewayTypes'
  <2>1. t \in ThreadRecord
    BY DEF GatewayTypes, ServerTypes
  <2>2. t.conn \in Conn /\ t.id \in Id /\ [t EXCEPT !.said = 1] \in ThreadRecord
    BY <2>1 DEF ThreadRecord
  <2>3. toClient' \in [Conn -> Seq(ClientFrame)]
    <3>1. Event(t.id) \in ClientFrame
      BY <2>2, FrameTypes
    <3>2. toClient' = toClient \/ toClient' = Put(toClient, t.conn, Event(t.id))
      BY <1>8 DEF StreamEvent
    <3> QED
      BY <2>2, <3>1, <3>2, PutTypes DEF GatewayTypes, WireTypes
  <2>4. threads' \subseteq ThreadRecord
    BY <1>8, <2>2 DEF StreamEvent, GatewayTypes, ServerTypes
  <2> QED
    BY <1>8, <2>3, <2>4 DEF StreamEvent, clientVars, GatewayTypes, ServerTypes, WireTypes,
                            ClientTypes
<1>9. ASSUME NEW t \in threads, NEW code \in {"ok", "HANDLER_ERROR"}, HandlerReturns(t, code)
      PROVE  GatewayTypes'
  <2>1. t.conn \in Conn /\ t.id \in Id
    BY DEF GatewayTypes, ServerTypes, ThreadRecord
  <2>2. Response(t.id, "agent.request", code) \in ClientFrame
    BY <2>1, FrameTypes DEF Answered, Code
  <2>3. toClient' \in [Conn -> Seq(ClientFrame)] /\ answered' \in [Conn -> [Id -> Nat]]
    <3>1. \/ Answer(t.conn, Response(t.id, "agent.request", code))
          \/ UNCHANGED <<toClient, answered>>
      BY <1>9 DEF HandlerReturns
    <3> QED
      BY <2>1, <2>2, <3>1, AnswerTypes DEF GatewayTypes, ServerTypes, WireTypes
  <2>4. threads' \subseteq ThreadRecord
    BY <1>9 DEF HandlerReturns, GatewayTypes, ServerTypes
  <2> QED
    BY <1>9, <2>3, <2>4 DEF HandlerReturns, clientVars, GatewayTypes, ServerTypes,
                            WireTypes, ClientTypes
<1> QED
  BY <1>1, <1>2, <1>3, <1>4, <1>5, <1>6, <1>7, <1>8, <1>9 DEF ServerStep

\* The frame that the client's socket thread takes.
LEMMA IncomingFrame ==
  ASSUME GatewayTypes, Incoming # <<>>
  PROVE  /\ client.conn \in Conn /\ Incoming = toClient[client.conn] /\ reader = NoFrame
         /\ Head(Incoming) \in ClientFrame
         /\ [toClient EXCEPT ![client.conn] = Tail(@)] \in [Conn -> Seq(ClientFrame)]
<1>1. client.conn # 0 /\ reader = NoFrame /\ Incoming = toClient[client.conn]
  BY DEF Incoming
<1>2. client.conn \in Conn
  BY <1>1 DEF GatewayTypes, ClientTypes, ClientRecord
<1>3. toClient[client.conn] \in Seq(ClientFrame) /\ toClient[client.conn] # <<>>
  BY <1>1, <1>2 DEF GatewayTypes, WireTypes
<1>4. /\ Head(toClient[client.conn]) \in ClientFrame
      /\ Tail(toClient[client.conn]) \in Seq(ClientFrame)
  BY <1>3, HeadTailProperties
<1> QED
  BY <1>1, <1>2, <1>4 DEF GatewayTypes, WireTypes

\* A new link.
LEMMA NewLinkTypes ==
  ASSUME GatewayTypes, NextConn \in Conn, NEW side \in {"client", "peer"},
         link' = [link EXCEPT ![NextConn] = "open"],
         owner' = [owner EXCEPT ![NextConn] = side],
         UNCHANGED <<toServer, toClient>>
  PROVE  WireTypes'
BY DEF GatewayTypes, WireTypes

\* The steps of the client keep the types.
LEMMA ClientStepTypes ==
  ASSUME GatewayTypes, ClientStep
  PROVE  GatewayTypes'
<1> USE DEF GatewayTypes
<1>0. /\ client \in ClientRecord /\ client.counter \in Id /\ client.conn \in Conn \cup {0}
      /\ MaxIds \in Nat /\ Id = 0 .. MaxIds
  BY ConstantTypes DEF ClientTypes, ClientRecord, Id
<1>1. CASE Connect \/ ConnectSteps
  <2>1. client' \in ClientRecord
    BY <1>0, <1>1 DEF Connect, ConnectSteps, ClientRecord
  <2> QED
    BY <1>1, <2>1 DEF Connect, ConnectSteps, serverVars, wire, ServerTypes, WireTypes,
                      ClientTypes
<1>2. CASE OpenLink
  <2>1. client' \in ClientRecord
    BY <1>0, <1>2 DEF OpenLink, ClientRecord
  <2>2. WireTypes'
    BY <1>2, NewLinkTypes DEF OpenLink
  <2> QED
    BY <1>2, <2>1, <2>2 DEF OpenLink, serverVars, ServerTypes, ClientTypes
<1>3. CASE Disconnect
  <2>1. client' \in ClientRecord
    BY <1>0, <1>3 DEF Disconnect, ClientRecord
  <2>2. link' \in [Conn -> {"none", "open", "cut"}]
    BY <1>0, <1>3 DEF Disconnect, WireTypes
  <2> QED
    BY <1>3, <2>1, <2>2 DEF Disconnect, serverVars, ServerTypes, WireTypes, ClientTypes
<1>4. CASE ClientClosed
  <2>1. client' \in ClientRecord
    BY <1>0, <1>4 DEF ClientClosed, ClientRecord
  <2>2. <<>> \in Seq(ClientFrame)
    BY EmptySeq
  <2>3. toClient' \in [Conn -> Seq(ClientFrame)]
    BY <1>4, <2>2 DEF ClientClosed, WireTypes
  <2> QED
    BY <1>4, <2>1, <2>3 DEF ClientClosed, serverVars, ServerTypes, WireTypes, ClientTypes
<1>5. CASE ClientEvent
  <2>1. toClient' \in [Conn -> Seq(ClientFrame)]
    BY <1>5, IncomingFrame DEF ClientEvent
  <2>2. client' \in ClientRecord /\ toServer' \in [Conn -> Seq(RequestFrame)]
    <3>1. CASE UNCHANGED <<client, toServer>>
      BY <3>1, <1>0 DEF WireTypes
    <3>2. CASE /\ client.counter < MaxIds
               /\ client' = [client EXCEPT !.counter = @ + 1, !.helloId = client.counter + 1]
               /\ Send(Hello(client.counter + 1, TokenOk, {"operator.read", "operator.write"}))
      <4>1. client.counter + 1 \in Id
        BY <1>0, <3>2
      <4>2. Hello(client.counter + 1, TokenOk, {"operator.read", "operator.write"})
              \in RequestFrame
        <5>1. {"operator.read", "operator.write"} \in SUBSET ReadScopes
          BY DEF ReadScopes
        <5> QED
          BY <4>1, <5>1, FrameTypes, ConstantTypes
      <4>3. toServer' \in [Conn -> Seq(RequestFrame)]
        BY <3>2, <4>2, SendTypes
      <4>4. client' \in ClientRecord
        BY <1>0, <3>2, <4>1 DEF ClientRecord
      <4> QED
        BY <4>3, <4>4
    <3> QED
      BY <1>5, <3>1, <3>2 DEF ClientEvent
  <2> QED
    BY <1>5, <2>1, <2>2 DEF ClientEvent, serverVars, ServerTypes, WireTypes, ClientTypes
<1>6. CASE ClientResponse
  <2>1. /\ toClient' \in [Conn -> Seq(ClientFrame)]
        /\ Head(Incoming) \in ClientFrame
    BY <1>6, IncomingFrame DEF ClientResponse
  <2>2. reader' \in ClientFrame
    BY <1>6, <2>1, ConstantTypes DEF ClientResponse
  <2>3. client' \in ClientRecord
    <3>1. \/ client' = client
          \/ \E b \in BOOLEAN : client' = [client EXCEPT !.helloDone = TRUE, !.authenticated = b]
      BY <1>0, <1>6 DEF ClientResponse, ClientRecord
    <3> QED
      BY <1>0, <3>1 DEF ClientRecord
  <2> QED
    BY <1>6, <2>1, <2>2, <2>3 DEF ClientResponse, serverVars, ServerTypes, WireTypes,
                                  ClientTypes
<1>7. CASE Deliver
  <2>1. PICK k \in Caller : /\ call' = [call EXCEPT ![k].answer = reader]
                            /\ pending' = [pending EXCEPT ![call[k].id] = "done"]
    BY <1>7 DEF Deliver
  <2>2. call[k] \in CallRecord /\ reader \in ClientFrame
    BY DEF ClientTypes
  <2>3. [call[k] EXCEPT !.answer = reader] \in CallRecord /\ call[k].id \in Id
    BY <2>2 DEF CallRecord
  <2>4. call' \in [Caller -> CallRecord] /\ pending' \in [Id -> {"none", "wait", "done"}]
    BY <2>1, <2>3 DEF ClientTypes
  <2>5. reader' \in ClientFrame
    BY <1>7, ConstantTypes DEF Deliver
  <2> QED
    BY <1>7, <2>4, <2>5 DEF Deliver, serverVars, wire, ServerTypes, WireTypes, ClientTypes
<1>8. ASSUME NEW k \in Caller, NEW m \in CallMethods, StartCall(k, m)
      PROVE  GatewayTypes'
  <2> DEFINE id == client.counter + 1
             new == [pc |-> "wait", id |-> id, method |-> m, answer |-> NoFrame]
  <2>1. id \in Id /\ m \in Method /\ m \in Answered
    BY <1>0, <1>8 DEF StartCall, Method, Answered
  <2>2. toServer' \in [Conn -> Seq(RequestFrame)]
    <3>1. Request(id, m) \in RequestFrame
      BY <2>1, FrameTypes
    <3> QED
      BY <1>8, <3>1, SendTypes DEF StartCall
  <2>3. new \in CallRecord
    BY <2>1, ConstantTypes DEF CallRecord
  <2>4. call' \in [Caller -> CallRecord]
    BY <1>8, <2>3 DEF StartCall, ClientTypes
  <2>5. client' \in ClientRecord
    BY <1>0, <1>8, <2>1 DEF StartCall, ClientRecord
  <2>6. pending' \in [Id -> {"none", "wait", "done"}]
    BY <1>8, <2>1 DEF StartCall, ClientTypes
  <2> QED
    BY <1>8, <2>2, <2>4, <2>5, <2>6 DEF StartCall, serverVars, ServerTypes, WireTypes,
                                        ClientTypes
<1>9. ASSUME NEW k \in Caller, FinishCall(k) \/ EraseCall(k)
      PROVE  GatewayTypes'
  <2>1. call' \in [Caller -> CallRecord] /\ pending' \in [Id -> {"none", "wait", "done"}]
    BY <1>9, ConstantTypes DEF FinishCall, EraseCall, ClientTypes
  <2> QED
    BY <1>9, <2>1 DEF FinishCall, EraseCall, serverVars, wire, ServerTypes, WireTypes,
                      ClientTypes
<1>10. ASSUME NEW k \in Caller, CallExpires(k)
       PROVE  GatewayTypes'
  <2>1. call[k] \in CallRecord
    BY DEF ClientTypes
  <2>2. [call[k] EXCEPT !.pc = "expired"] \in CallRecord
    BY <2>1 DEF CallRecord
  <2>3. call' \in [Caller -> CallRecord]
    BY <1>10, <2>2 DEF CallExpires, ClientTypes
  <2> QED
    BY <1>10, <2>3 DEF CallExpires, serverVars, wire, ServerTypes, WireTypes, ClientTypes
<1> QED
  BY <1>1, <1>2, <1>3, <1>4, <1>5, <1>6, <1>7, <1>8, <1>9, <1>10 DEF ClientStep

\* The peers, the network and the clock keep the types.
LEMMA OutsideTypes ==
  ASSUME GatewayTypes,
         \/ PeerOpens \/ Tick \/ UNCHANGED vars
         \/ \E c \in Conn : PeerSends(c) \/ CutLink(c)
  PROVE  GatewayTypes'
<1> USE DEF GatewayTypes
<1>1. CASE PeerOpens
  <2>1. WireTypes'
    BY <1>1, NewLinkTypes DEF PeerOpens
  <2> QED
    BY <1>1, <2>1 DEF PeerOpens, serverVars, clientVars, ServerTypes, ClientTypes
<1>2. ASSUME NEW c \in Conn, PeerSends(c)
      PROVE  GatewayTypes'
  <2>1. PICK f \in PeerRequests : toServer' = [toServer EXCEPT ![c] = Append(@, f)]
    BY <1>2 DEF PeerSends
  <2>2. Append(toServer[c], f) \in Seq(RequestFrame)
    BY ConstantTypes, AppendProperties DEF WireTypes
  <2>3. toServer' \in [Conn -> Seq(RequestFrame)]
    BY <2>1, <2>2 DEF WireTypes
  <2> QED
    BY <1>2, <2>3 DEF PeerSends, serverVars, clientVars, ServerTypes, WireTypes, ClientTypes
<1>3. ASSUME NEW c \in Conn, CutLink(c)
      PROVE  GatewayTypes'
  BY <1>3 DEF CutLink, serverVars, clientVars, ServerTypes, WireTypes, ClientTypes
<1>4. CASE Tick \/ UNCHANGED vars
  BY <1>4 DEF Tick, vars, serverVars, clientVars, wire, ServerTypes, WireTypes, ClientTypes
<1> QED
  BY <1>1, <1>2, <1>3, <1>4

\* Every table, frame and record has its type.
LEMMA TypesInvariant == Spec => []GatewayTypes
<1>1. Init => GatewayTypes
  <2> SUFFICES ASSUME Init PROVE GatewayTypes
    OBVIOUS
  <2>1. <<>> \in Seq(RequestFrame) /\ <<>> \in Seq(ClientFrame)
    BY EmptySeq
  <2>2. WireTypes
    BY <2>1 DEF Init, WireTypes
  <2>3. ServerTypes
    BY ConstantTypes DEF Init, ServerTypes
  <2>4. ClientTypes
    <3>1. PICK phase \in {"new", "down"} : client = NewClient(phase)
      BY DEF Init
    <3>2. client \in ClientRecord
      BY <3>1, ConstantTypes DEF NewClient, ClientRecord
    <3> QED
      BY <3>2, ConstantTypes DEF Init, ClientTypes
  <2> QED
    BY <2>2, <2>3, <2>4 DEF GatewayTypes
<1>2. GatewayTypes /\ [Next]_vars => GatewayTypes'
  BY ServerStepTypes, ClientStepTypes, OutsideTypes DEF Next
<1> QED
  BY <1>1, <1>2, PTL DEF Spec

(***************************************************************************)
(* Links and who owns them.                                                *)
(***************************************************************************)

\* Links are used in order; what nobody has opened carries nothing; only the
\* client's links carry frames to it.
LinksInOrder ==
  \E n \in 0 .. MaxConns : \A c \in Conn : link[c] # "none" <=> c <= n

LinksOwned ==
  /\ \A c \in Conn : /\ owner[c] = "none" <=> link[c] = "none"
                     /\ owner[c] = "none" => toServer[c] = <<>>
                     /\ owner[c] # "client" => toClient[c] = <<>>
  /\ \A t \in threads : owner[t.conn] # "none"
  /\ client.conn # 0 => owner[client.conn] = "client"

LinkInv == LinksInOrder /\ LinksOwned

\* A new link is one that nobody has used.
LEMMA NewLinkIsUnused ==
  ASSUME GatewayTypes, LinkInv, NextConn \in Conn
  PROVE  /\ link[NextConn] = "none" /\ owner[NextConn] = "none"
         /\ toServer[NextConn] = <<>> /\ toClient[NextConn] = <<>>
         /\ \A c \in Conn : (link[c] # "none" \/ c = NextConn) <=> c <= NextConn
<1>1. PICK n \in 0 .. MaxConns : \A c \in Conn : link[c] # "none" <=> c <= n
  BY DEF LinkInv, LinksInOrder
<1>2. MaxConns \in Nat /\ Conn = 1 .. MaxConns
  BY ConstantTypes DEF Conn
<1>3. {c \in Conn : link[c] # "none"} = 1 .. n
  BY <1>1, <1>2
<1>4. Cardinality(1 .. n) = n
  BY <1>2, FS_Interval
<1>5. NextConn = n + 1
  BY <1>3, <1>4 DEF NextConn
<1>6. link[NextConn] = "none"
  BY <1>1, <1>2, <1>5
<1>7. \A c \in Conn : (link[c] # "none" \/ c = NextConn) <=> c <= NextConn
  BY <1>1, <1>2, <1>5
<1> QED
  BY <1>6, <1>7 DEF LinkInv, LinksOwned

\* The steps of the server.
LEMMA ServerStepLinks ==
  ASSUME GatewayTypes, LinkInv, ServerStep
  PROVE  LinkInv'
<1> USE DEF GatewayTypes, ServerTypes, WireTypes, ClientTypes
<1>1. ASSUME link' = link \/ link' = [c \in Conn |-> IF link[c] = "open" THEN "cut" ELSE link[c]]
      PROVE  /\ \A c \in Conn : link'[c] = "none" <=> link[c] = "none"
             /\ LinksInOrder'
  <2>1. \A c \in Conn : link'[c] = "none" <=> link[c] = "none"
    BY <1>1
  <2> QED
    BY <2>1 DEF LinkInv, LinksInOrder
<1>2. /\ link' = link \/ link' = [c \in Conn |-> IF link[c] = "open" THEN "cut" ELSE link[c]]
      /\ UNCHANGED <<owner, client>>
  BY DEF ServerStep, Start, StopServer, StopJoin, OnOpen, OnClose, HandleHello,
         RefuseRequest, RunRequest, StreamEvent, HandlerReturns, wire, clientVars
<1>3. ASSUME NEW c \in Conn, OnOpen(c) \/ OnClose(c) \/ HandleHello(c) \/ RefuseRequest(c)
                            \/ \E code \in Code : RunRequest(c, code)
      PROVE  /\ toServer' = toServer \/ toServer' = [toServer EXCEPT ![c] = <<>>]
                \/ (toServer[c] # <<>> /\ toServer' = [toServer EXCEPT ![c] = Tail(@)])
             /\ toClient' = toClient \/ (\E f : toClient' = Put(toClient, c, f))
             /\ threads' = threads
                \/ (toServer[c] # <<>> /\ \E i : threads' = threads \cup {[conn |-> c, id |-> i, said |-> 0]})
  BY <1>3 DEF OnOpen, OnClose, HandleHello, RefuseRequest, RunRequest, Answer
<1>4. ASSUME NEW c \in Conn, OnOpen(c) \/ OnClose(c) \/ HandleHello(c) \/ RefuseRequest(c)
                            \/ \E code \in Code : RunRequest(c, code)
      PROVE  LinksOwned'
  <2>1. \A d \in Conn : owner[d] = "none" => toServer'[d] = <<>>
    <3>1. \A d \in Conn : owner[d] = "none" => toServer[d] = <<>>
      BY DEF LinkInv, LinksOwned
    <3> QED
      BY <1>3, <1>4, <3>1
  <2>2. \A d \in Conn : owner[d] # "client" => toClient'[d] = <<>>
    BY ZenonT(60), <1>3, <1>4 DEF LinkInv, LinksOwned, Put
  <2>3. \A t \in threads' : owner[t.conn] # "none"
    <3>1. \A t \in threads : owner[t.conn] # "none"
      BY DEF LinkInv, LinksOwned
    <3>2. toServer[c] # <<>> => owner[c] # "none"
      BY DEF LinkInv, LinksOwned
    <3>3. ASSUME NEW i, threads' = threads \cup {[conn |-> c, id |-> i, said |-> 0]},
                 toServer[c] # <<>>
          PROVE  \A t \in threads' : owner[t.conn] # "none"
      <4>1. [conn |-> c, id |-> i, said |-> 0].conn = c
        OBVIOUS
      <4> DEFINE new == [conn |-> c, id |-> i, said |-> 0]
      <4> HIDE DEF new
      <4>2. threads' = threads \cup {new} /\ new.conn = c
        BY <3>3, <4>1 DEF new
      <4> QED
        BY <3>1, <3>2, <3>3, <4>2
    <3> QED
      BY <1>3, <1>4, <3>1, <3>3
  <2> QED
    BY <1>1, <1>2, <2>1, <2>2, <2>3 DEF LinkInv, LinksOwned
<1>5. ASSUME NEW t \in threads, StreamEvent(t) \/ \E code \in Code : HandlerReturns(t, code)
      PROVE  LinksOwned'
  <2>1. t \in ThreadRecord /\ t.conn \in Conn /\ [t EXCEPT !.said = 1].conn = t.conn
    BY DEF ThreadRecord
  <2>2. /\ UNCHANGED toServer
        /\ toClient' = toClient \/ \E f : toClient' = Put(toClient, t.conn, f)
        /\ threads' \subseteq threads \cup {[t EXCEPT !.said = 1]}
    BY <1>5 DEF StreamEvent, HandlerReturns, Answer
  <2>3. \A d \in Conn : owner[d] # "client" => toClient'[d] = <<>>
    BY <2>1, <2>2 DEF LinkInv, LinksOwned, Put
  <2>4. \A u \in threads' : owner[u.conn] # "none"
    <3>1. \A u \in threads : owner[u.conn] # "none"
      BY DEF LinkInv, LinksOwned
    <3> DEFINE said == [t EXCEPT !.said = 1]
    <3>2. said.conn = t.conn /\ threads' \subseteq threads \cup {said}
      BY <2>1, <2>2
    <3> HIDE DEF said
    <3> QED
      BY <3>1, <3>2
  <2> QED
    BY <1>1, <1>2, <2>2, <2>3, <2>4 DEF LinkInv, LinksOwned
<1>6. ASSUME Start \/ StopServer \/ StopJoin
      PROVE  LinksOwned'
  BY <1>1, <1>2, <1>6 DEF Start, StopServer, StopJoin, wire, clientVars, LinkInv, LinksOwned
<1> QED
  BY <1>1, <1>2, <1>4, <1>5, <1>6 DEF ServerStep, LinkInv, Code

\* A link is opened, by the client or by a peer.
LEMMA NewLinkKeepsLinks ==
  ASSUME GatewayTypes, LinkInv, NextConn \in Conn, NEW side \in {"client", "peer"},
         link' = [link EXCEPT ![NextConn] = "open"],
         owner' = [owner EXCEPT ![NextConn] = side],
         UNCHANGED <<toServer, toClient, threads>>,
         client'.conn # 0 => owner'[client'.conn] = "client"
  PROVE  LinkInv'
<1> USE DEF GatewayTypes, ServerTypes, WireTypes
<1>1. /\ owner[NextConn] = "none" /\ toClient[NextConn] = <<>>
      /\ \A c \in Conn : (link[c] # "none" \/ c = NextConn) <=> c <= NextConn
  BY NewLinkIsUnused
<1>2. NextConn \in 0 .. MaxConns
  BY ConstantTypes DEF Conn
<1>3. \A c \in Conn : link'[c] # "none" <=> c <= NextConn
  BY <1>1
<1>4. LinksInOrder'
  BY <1>2, <1>3 DEF LinksInOrder
<1>5. ASSUME NEW c \in Conn
      PROVE  /\ owner'[c] = "none" <=> link'[c] = "none"
             /\ owner'[c] = "none" => toServer'[c] = <<>>
             /\ owner'[c] # "client" => toClient'[c] = <<>>
  <2>1. CASE c = NextConn
    BY <2>1, <1>1
  <2>2. CASE c # NextConn
    <3>1. owner'[c] = owner[c] /\ link'[c] = link[c]
      BY <2>2
    <3> QED
      BY <3>1 DEF LinkInv, LinksOwned
  <2> QED
    BY <2>1, <2>2
<1>6. \A t \in threads' : owner'[t.conn] # "none"
  <2>1. \A t \in threads : t.conn \in Conn /\ owner[t.conn] # "none"
    BY DEF ThreadRecord, LinkInv, LinksOwned
  <2> QED
    BY <2>1
<1> QED
  BY <1>4, <1>5, <1>6 DEF LinkInv, LinksOwned

\* The frame that the client sends goes to a link of its own.
LEMMA SendKeepsLinks ==
  ASSUME GatewayTypes, LinkInv, NEW f, Send(f),
         NEW c \in Conn, owner[c] = "none"
  PROVE  toServer'[c] = <<>>
<1>1. client.conn # 0 => client.conn \in Conn /\ owner[client.conn] = "client"
  BY DEF GatewayTypes, ClientTypes, ClientRecord, LinkInv, LinksOwned
<1> QED
  BY <1>1 DEF Send, GatewayTypes, WireTypes, LinkInv, LinksOwned

\* The steps of the client.
LEMMA ClientStepLinks ==
  ASSUME GatewayTypes, LinkInv, ClientStep
  PROVE  LinkInv'
<1> USE DEF GatewayTypes, ServerTypes, WireTypes, ClientTypes
<1>0. client \in ClientRecord /\ client.conn \in Conn \cup {0}
  BY DEF ClientRecord
<1>1. CASE OpenLink
  <2>1. /\ NextConn \in Conn /\ link' = [link EXCEPT ![NextConn] = "open"]
        /\ owner' = [owner EXCEPT ![NextConn] = "client"]
        /\ UNCHANGED <<toServer, toClient, threads>>
        /\ client'.conn = NextConn
    BY <1>0, <1>1 DEF OpenLink, serverVars, ClientRecord
  <2>2. owner'[client'.conn] = "client"
    BY <2>1
  <2> QED
    BY <2>1, <2>2, NewLinkKeepsLinks
<1>2. CASE Disconnect
  <2>1. /\ client'.conn = 0 /\ UNCHANGED <<owner, toServer, toClient, threads>>
        /\ link' = IF client.conn # 0 THEN [link EXCEPT ![client.conn] = "cut"] ELSE link
    BY <1>0, <1>2 DEF Disconnect, serverVars, ClientRecord
  <2>2. client.conn # 0 => link[client.conn] # "none"
    BY <1>0 DEF LinkInv, LinksOwned
  <2>3. \A c \in Conn : link'[c] = "none" <=> link[c] = "none"
    BY <1>0, <2>1, <2>2
  <2> QED
    BY <2>1, <2>3 DEF LinkInv, LinksInOrder, LinksOwned
<1>3. CASE \/ Connect \/ ConnectSteps \/ ClientClosed \/ ClientEvent \/ ClientResponse \/ Deliver
           \/ \E k \in Caller : \/ \E m \in CallMethods : StartCall(k, m)
                                \/ FinishCall(k) \/ CallExpires(k) \/ EraseCall(k)
  <2>1. UNCHANGED <<link, owner, threads>>
    BY <1>3 DEF Connect, ConnectSteps, ClientClosed, ClientEvent, ClientResponse, Deliver,
                StartCall, FinishCall, CallExpires, EraseCall, wire, serverVars
  <2>2. client'.conn \in {client.conn, 0}
    BY ZenonT(60), <1>0, <1>3 DEF Connect, ConnectSteps, ClientClosed, ClientEvent, ClientResponse, Deliver,
                StartCall, FinishCall, CallExpires, EraseCall, ClientRecord
  <2>3. UNCHANGED toServer \/ \E f : Send(f)
    BY <1>3 DEF Connect, ConnectSteps, ClientClosed, ClientEvent, ClientResponse, Deliver,
                StartCall, FinishCall, CallExpires, EraseCall, wire
  <2>4. \A c \in Conn : owner[c] = "none" => toServer'[c] = <<>>
    BY <2>3, SendKeepsLinks DEF LinkInv, LinksOwned
  <2>5. \/ UNCHANGED toClient
        \/ toClient' = [toClient EXCEPT ![client.conn] = <<>>]
        \/ Incoming # <<>> /\ toClient' = [toClient EXCEPT ![client.conn] = Tail(@)]
    BY <1>3 DEF Connect, ConnectSteps, ClientClosed, ClientEvent, ClientResponse, Deliver,
                StartCall, FinishCall, CallExpires, EraseCall, wire
  <2>6. \A c \in Conn : owner[c] # "client" => toClient'[c] = <<>>
    <3>1. CASE Incoming # <<>> /\ toClient' = [toClient EXCEPT ![client.conn] = Tail(@)]
      <4>1. client.conn \in Conn /\ owner[client.conn] = "client"
        BY <1>0, <3>1 DEF Incoming, LinkInv, LinksOwned
      <4> QED
        BY <3>1, <4>1 DEF LinkInv, LinksOwned
    <3> QED
      BY <2>5, <3>1 DEF LinkInv, LinksOwned
  <2> QED
    BY <2>1, <2>2, <2>4, <2>6 DEF LinkInv, LinksInOrder, LinksOwned
<1> QED
  BY <1>1, <1>2, <1>3 DEF ClientStep

\* The steps of the peers, the network and the clock.
LEMMA OutsideLinks ==
  ASSUME GatewayTypes, LinkInv,
         \/ PeerOpens \/ Tick \/ UNCHANGED vars
         \/ \E c \in Conn : PeerSends(c) \/ CutLink(c)
  PROVE  LinkInv'
<1> USE DEF GatewayTypes, ServerTypes, WireTypes, ClientTypes
<1>1. CASE PeerOpens
  <2>1. /\ NextConn \in Conn /\ link' = [link EXCEPT ![NextConn] = "open"]
        /\ owner' = [owner EXCEPT ![NextConn] = "peer"]
        /\ UNCHANGED <<toServer, toClient, threads, client>>
    BY <1>1 DEF PeerOpens, serverVars, clientVars
  <2>2. client'.conn # 0 => owner'[client'.conn] = "client"
    <3>1. client.conn # 0 => client.conn \in Conn /\ owner[client.conn] = "client"
      BY DEF ClientRecord, LinkInv, LinksOwned
    <3>2. owner[NextConn] = "none"
      BY <2>1, NewLinkIsUnused
    <3> QED
      BY <2>1, <3>1, <3>2
  <2> QED
    BY <2>1, <2>2, NewLinkKeepsLinks
<1>2. ASSUME NEW c \in Conn, PeerSends(c)
      PROVE  LinkInv'
  <2>1. /\ owner[c] = "peer" /\ UNCHANGED <<link, owner, toClient, threads, client>>
        /\ \E f : toServer' = [toServer EXCEPT ![c] = Append(@, f)]
    BY <1>2 DEF PeerSends, serverVars, clientVars
  <2> QED
    BY <2>1 DEF LinkInv, LinksInOrder, LinksOwned
<1>3. ASSUME NEW c \in Conn, CutLink(c)
      PROVE  LinkInv'
  <2>1. /\ link[c] = "open" /\ link' = [link EXCEPT ![c] = "cut"]
        /\ UNCHANGED <<owner, toServer, toClient, threads, client>>
    BY <1>3 DEF CutLink, serverVars, clientVars
  <2>2. \A d \in Conn : link'[d] = "none" <=> link[d] = "none"
    BY <2>1
  <2> QED
    BY <2>1, <2>2 DEF LinkInv, LinksInOrder, LinksOwned
<1>4. CASE Tick \/ UNCHANGED vars
  BY SMTT(40), <1>4 DEF Tick, vars, serverVars, clientVars, wire, LinkInv, LinksInOrder, LinksOwned
<1> QED
  BY <1>1, <1>2, <1>3, <1>4

(***************************************************************************)
(* Requests and answers on their way.                                      *)
(***************************************************************************)

\* A frame of s has the id i; a response of s has it.
Has(s, i)    == \E p \in DOMAIN s : s[p].id = i
HasRes(s, i) == \E p \in DOMAIN s : s[p].type = "res" /\ s[p].id = i

\* No two frames of s have one id; 0 is the id of all that peers send.
Once(s) ==
  \A p, q \in DOMAIN s : s[p].id = s[q].id /\ s[p].id # 0 => p = q

\* No event of s follows a response with its id.
EventsFirst(s) ==
  \A p, q \in DOMAIN s :
    p < q /\ s[p].type = "res" /\ s[q].type = "event" => s[p].id # s[q].id

\* The domain of a sequence, of its tail and of a longer one.
LEMMA SeqDomains ==
  ASSUME NEW S, NEW s \in Seq(S)
  PROVE  /\ Len(s) \in Nat /\ DOMAIN s = 1 .. Len(s)
         /\ \A p \in DOMAIN s : s[p] \in S
         /\ \A f \in S : /\ DOMAIN Append(s, f) = 1 .. Len(s) + 1
                         /\ Append(s, f)[Len(s) + 1] = f
                         /\ \A p \in DOMAIN s : Append(s, f)[p] = s[p]
         /\ s # <<>> => /\ DOMAIN Tail(s) = 1 .. Len(s) - 1
                        /\ \A p \in DOMAIN Tail(s) : Tail(s)[p] = s[p + 1]
                        /\ Head(s) = s[1] /\ 1 \in DOMAIN s
<1>1. Len(s) \in Nat /\ DOMAIN s = 1 .. Len(s) /\ \A p \in DOMAIN s : s[p] \in S
  BY LenProperties, ElementOfSeq
<1>2. ASSUME NEW f \in S
      PROVE  /\ DOMAIN Append(s, f) = 1 .. Len(s) + 1
             /\ Append(s, f)[Len(s) + 1] = f
             /\ \A p \in DOMAIN s : Append(s, f)[p] = s[p]
  <2>1. /\ Append(s, f) \in Seq(S) /\ Len(Append(s, f)) = Len(s) + 1
        /\ \A p \in 1 .. Len(s) : Append(s, f)[p] = s[p]
        /\ Append(s, f)[Len(s) + 1] = f
    BY AppendProperties
  <2>2. DOMAIN Append(s, f) = 1 .. Len(Append(s, f))
    BY <2>1, LenProperties
  <2> QED
    BY <1>1, <2>1, <2>2
<1>3. ASSUME s # <<>>
      PROVE  /\ DOMAIN Tail(s) = 1 .. Len(s) - 1
             /\ \A p \in DOMAIN Tail(s) : Tail(s)[p] = s[p + 1]
             /\ Head(s) = s[1] /\ 1 \in DOMAIN s
  <2>1. /\ Tail(s) \in Seq(S) /\ Len(Tail(s)) = Len(s) - 1
        /\ \A p \in 1 .. Len(Tail(s)) : Tail(s)[p] = s[p + 1]
    BY <1>3, HeadTailProperties
  <2>2. DOMAIN Tail(s) = 1 .. Len(Tail(s))
    BY <2>1, LenProperties
  <2>3. Len(s) \in Nat \ {0}
    BY <1>3, EmptySeq
  <2>4. Head(s) = s[1]
    BY <1>3
  <2> QED
    BY <1>1, <2>1, <2>2, <2>3, <2>4
<1> QED
  BY <1>1, <1>2, <1>3

\* What stays of the frames when the first is taken.
LEMMA TailFrames ==
  ASSUME NEW S, NEW s \in Seq(S), s # <<>>
  PROVE  /\ Has(s, Head(s).id)
         /\ \A i : Has(Tail(s), i) => Has(s, i)
         /\ \A i : HasRes(Tail(s), i) => HasRes(s, i)
         /\ Once(s) => Once(Tail(s)) /\ (Head(s).id # 0 => ~ Has(Tail(s), Head(s).id))
         /\ EventsFirst(s) => EventsFirst(Tail(s))
<1>1. /\ Len(s) \in Nat /\ DOMAIN s = 1 .. Len(s) /\ DOMAIN Tail(s) = 1 .. Len(s) - 1
      /\ \A p \in DOMAIN Tail(s) : Tail(s)[p] = s[p + 1]
      /\ Head(s) = s[1] /\ 1 \in DOMAIN s
  BY SeqDomains
<1>2. \A p \in DOMAIN Tail(s) : p + 1 \in DOMAIN s /\ p + 1 # 1 /\ Tail(s)[p] = s[p + 1]
  BY <1>1
<1>3. Has(s, Head(s).id)
  BY <1>1 DEF Has
<1>4. \A i : Has(Tail(s), i) => Has(s, i)
  BY <1>2 DEF Has
<1>5. \A i : HasRes(Tail(s), i) => HasRes(s, i)
  BY <1>2 DEF HasRes
<1>6. ASSUME Once(s)
      PROVE  Once(Tail(s)) /\ (Head(s).id # 0 => ~ Has(Tail(s), Head(s).id))
  <2>1. ASSUME NEW p \in DOMAIN Tail(s), NEW q \in DOMAIN Tail(s),
               Tail(s)[p].id = Tail(s)[q].id, Tail(s)[p].id # 0
        PROVE  p = q
    <3>1. p + 1 = q + 1
      BY <1>2, <1>6, <2>1 DEF Once
    <3> QED
      BY <3>1, <1>1
  <2>2. Head(s).id # 0 => ~ Has(Tail(s), Head(s).id)
    BY <1>1, <1>2, <1>6 DEF Once, Has
  <2> QED
    BY <2>1, <2>2 DEF Once
<1>7. ASSUME EventsFirst(s)
      PROVE  EventsFirst(Tail(s))
  <2> SUFFICES ASSUME NEW p \in DOMAIN Tail(s), NEW q \in DOMAIN Tail(s), p < q,
                      Tail(s)[p].type = "res", Tail(s)[q].type = "event"
               PROVE  Tail(s)[p].id # Tail(s)[q].id
    BY DEF EventsFirst
  <2>1. p + 1 < q + 1
    BY <1>1
  <2> QED
    BY <2>1, <1>2, <1>7 DEF EventsFirst
<1> QED
  BY <1>3, <1>4, <1>5, <1>6, <1>7

\* What is added to the frames when one is sent.
LEMMA AppendFrames ==
  ASSUME NEW S, NEW s \in Seq(S), NEW f \in S
  PROVE  /\ \A i : Has(Append(s, f), i) => Has(s, i) \/ f.id = i
         /\ \A i : HasRes(Append(s, f), i) => HasRes(s, i) \/ (f.type = "res" /\ f.id = i)
         /\ Once(s) /\ (f.id = 0 \/ ~ Has(s, f.id)) => Once(Append(s, f))
         /\ EventsFirst(s) /\ (f.type = "event" => ~ HasRes(s, f.id))
              => EventsFirst(Append(s, f))
<1> DEFINE a == Append(s, f)
<1>1. /\ Len(s) \in Nat /\ DOMAIN s = 1 .. Len(s) /\ DOMAIN a = 1 .. Len(s) + 1
      /\ a[Len(s) + 1] = f /\ \A p \in DOMAIN s : a[p] = s[p]
  BY SeqDomains
<1> HIDE DEF a
<1>2. \A p \in DOMAIN a : (p \in DOMAIN s /\ a[p] = s[p]) \/ (p = Len(s) + 1 /\ a[p] = f)
  BY <1>1
<1>3. \A i : Has(a, i) => Has(s, i) \/ f.id = i
  BY <1>2 DEF Has
<1>4. \A i : HasRes(a, i) => HasRes(s, i) \/ (f.type = "res" /\ f.id = i)
  BY <1>2 DEF HasRes
<1>5. ASSUME Once(s), f.id = 0 \/ ~ Has(s, f.id)
      PROVE  Once(a)
  <2> SUFFICES ASSUME NEW p \in DOMAIN a, NEW q \in DOMAIN a, a[p].id = a[q].id, a[p].id # 0
               PROVE  p = q
    BY DEF Once
  <2>1. CASE p \in DOMAIN s /\ q \in DOMAIN s
    BY <2>1, <1>1, <1>5 DEF Once
  <2>2. CASE p \in DOMAIN s /\ q \notin DOMAIN s
    BY <2>2, <1>2, <1>5 DEF Has
  <2>3. CASE p \notin DOMAIN s /\ q \in DOMAIN s
    BY <2>3, <1>2, <1>5 DEF Has
  <2>4. CASE p \notin DOMAIN s /\ q \notin DOMAIN s
    BY <2>4, <1>2
  <2> QED
    BY <2>1, <2>2, <2>3, <2>4
<1>6. ASSUME EventsFirst(s), f.type = "event" => ~ HasRes(s, f.id)
      PROVE  EventsFirst(a)
  <2> SUFFICES ASSUME NEW p \in DOMAIN a, NEW q \in DOMAIN a, p < q,
                      a[p].type = "res", a[q].type = "event"
               PROVE  a[p].id # a[q].id
    BY DEF EventsFirst
  <2>1. p \in DOMAIN s /\ a[p] = s[p]
    BY <1>1, <1>2
  <2>2. CASE q \in DOMAIN s
    BY <2>1, <2>2, <1>1, <1>6 DEF EventsFirst
  <2>3. CASE q \notin DOMAIN s
    <3>1. a[q] = f
      BY <2>3, <1>2
    <3> QED
      BY <2>1, <3>1, <1>6 DEF HasRes
  <2> QED
    BY <2>2, <2>3
<1> QED
  BY <1>3, <1>4, <1>5, <1>6 DEF a

\* One connection: in and out are the frames on their way, run the ids that
\* handler threads work for, ans the answers sent, cnt the last id of the
\* client and mine whether the connection is the client's.  A request with an
\* id is on its way, or with a thread, or answered once.
Tidy(in, out, run, ans, cnt, mine) ==
  /\ Once(in) /\ EventsFirst(out)
  /\ \A i \in Id :
       /\ Has(in, i) \/ i \in run => i <= cnt /\ (mine => i # 0)
       /\ cnt < i => ans[i] = 0
       /\ i # 0 => /\ ans[i] <= 1
                   /\ HasRes(out, i) => ans[i] # 0
                   /\ Has(in, i) => ans[i] = 0 /\ i \notin run
                   /\ i \in run => ans[i] = 0

\* The first request is answered, dropped, or given to a thread.
LEMMA TakeTidy ==
  ASSUME NEW in \in Seq(RequestFrame), NEW out \in Seq(ClientFrame), NEW run,
         NEW ans \in [Id -> Nat], NEW cnt \in Id, NEW mine \in BOOLEAN,
         Tidy(in, out, run, ans, cnt, mine), in # <<>>
  PROVE  LET h == Head(in)
         IN  /\ Tidy(Tail(in), out, run, ans, cnt, mine)
             /\ Tidy(Tail(in), out, run \cup {h.id}, ans, cnt, mine)
             /\ Tidy(Tail(in), out, run, [ans EXCEPT ![h.id] = @ + 1], cnt, mine)
             /\ \A f \in ClientFrame : f.type = "res" /\ f.id = h.id =>
                  Tidy(Tail(in), Append(out, f), run, [ans EXCEPT ![h.id] = @ + 1], cnt, mine)
<1> DEFINE h == Head(in)
           more == [ans EXCEPT ![h.id] = @ + 1]
<1>1. h \in RequestFrame /\ h.id \in Id
  <2>1. h \in RequestFrame
    BY HeadTailProperties
  <2> HIDE DEF h
  <2> QED
    BY <2>1 DEF RequestFrame
<1>2. /\ Has(in, h.id) /\ Once(Tail(in)) /\ (h.id # 0 => ~ Has(Tail(in), h.id))
      /\ \A i : Has(Tail(in), i) => Has(in, i)
  BY TailFrames DEF Tidy
<1>3. \A i \in Id : more[i] = IF i = h.id THEN ans[i] + 1 ELSE ans[i]
  BY <1>1
<1>4. Id \subseteq Nat /\ \A i \in Id : ans[i] \in Nat
  BY ConstantTypes
<1> HIDE DEF h, more
<1>5. Tidy(Tail(in), out, run, ans, cnt, mine)
  BY <1>2 DEF Tidy
<1>6. Tidy(Tail(in), out, run \cup {h.id}, ans, cnt, mine)
  BY <1>1, <1>2 DEF Tidy
<1>7. \A i \in Id : cnt < i => i # h.id
  BY <1>1, <1>2, <1>4 DEF Tidy
<1>8. /\ \A i \in Id : cnt < i => more[i] = 0
      /\ \A i \in Id : i # 0 => /\ more[i] <= 1
                                /\ i = h.id => more[i] # 0
                                /\ ans[i] # 0 => more[i] # 0
                                /\ Has(Tail(in), i) => more[i] = 0 /\ i \notin run
                                /\ i \in run => more[i] = 0
  BY SMTT(40), <1>1, <1>2, <1>3, <1>4, <1>7 DEF Tidy
<1>9. Tidy(Tail(in), out, run, more, cnt, mine)
  <2>1. ASSUME NEW i \in Id
        PROVE  /\ Has(Tail(in), i) \/ i \in run => i <= cnt /\ (mine => i # 0)
               /\ cnt < i => more[i] = 0
               /\ i # 0 => /\ more[i] <= 1
                           /\ HasRes(out, i) => more[i] # 0
                           /\ Has(Tail(in), i) => more[i] = 0 /\ i \notin run
                           /\ i \in run => more[i] = 0
    <3>1. /\ Has(Tail(in), i) \/ i \in run => i <= cnt /\ (mine => i # 0)
          /\ i # 0 /\ HasRes(out, i) => ans[i] # 0
      BY <1>5 DEF Tidy
    <3> QED
      BY <3>1, <1>8
  <2>2. Once(Tail(in)) /\ EventsFirst(out)
    BY <1>5 DEF Tidy
  <2> QED
    BY <2>1, <2>2 DEF Tidy
<1>10. ASSUME NEW f \in ClientFrame, f.type = "res", f.id = h.id
       PROVE  Tidy(Tail(in), Append(out, f), run, more, cnt, mine)
  <2>1. /\ \A i : HasRes(Append(out, f), i) => HasRes(out, i) \/ h.id = i
        /\ EventsFirst(Append(out, f))
    BY <1>10, AppendFrames DEF Tidy
  <2>2. ASSUME NEW i \in Id, i # 0, HasRes(Append(out, f), i)
        PROVE  more[i] # 0
    <3>1. CASE HasRes(out, i)
      <4>1. ans[i] # 0
        BY <2>2, <3>1, <1>5 DEF Tidy
      <4> QED
        BY <2>2, <4>1, <1>8
    <3>2. CASE h.id = i
      BY <2>2, <3>2, <1>8
    <3> QED
      BY <2>1, <2>2, <3>1, <3>2
  <2> QED
    BY <1>9, <2>1, <2>2 DEF Tidy
<1> QED
  BY <1>5, <1>6, <1>9, <1>10 DEF h, more

\* A handler thread sends an event of its request, or ends.
LEMMA ThreadTidy ==
  ASSUME NEW in, NEW out \in Seq(ClientFrame), NEW run, NEW i \in Id, i \in run,
         NEW ans \in [Id -> Nat], NEW cnt \in Id, NEW mine \in BOOLEAN,
         Tidy(in, out, run, ans, cnt, mine)
  PROVE  /\ \A f \in ClientFrame : f.type = "event" /\ f.id = i /\ mine =>
               Tidy(in, Append(out, f), run, ans, cnt, mine)
         /\ \A rest : rest \subseteq run /\ (i # 0 => i \notin rest) =>
              /\ Tidy(in, out, rest, ans, cnt, mine)
              /\ Tidy(in, out, rest, [ans EXCEPT ![i] = @ + 1], cnt, mine)
              /\ \A f \in ClientFrame : f.type = "res" /\ f.id = i =>
                   Tidy(in, Append(out, f), rest, [ans EXCEPT ![i] = @ + 1], cnt, mine)
<1> DEFINE more == [ans EXCEPT ![i] = @ + 1]
<1>1. \A j \in Id : more[j] = IF j = i THEN ans[j] + 1 ELSE ans[j]
  OBVIOUS
<1>2. Id \subseteq Nat /\ \A j \in Id : ans[j] \in Nat
  BY ConstantTypes
<1> HIDE DEF more
<1>3. ASSUME NEW f \in ClientFrame, f.type = "event", f.id = i, mine
      PROVE  Tidy(in, Append(out, f), run, ans, cnt, mine)
  <2>1. i # 0 /\ ans[i] = 0 /\ ~ HasRes(out, i)
    BY <1>2, <1>3 DEF Tidy
  <2>2. /\ \A j : HasRes(Append(out, f), j) => HasRes(out, j)
        /\ EventsFirst(Append(out, f))
    BY <1>3, <2>1, AppendFrames DEF Tidy
  <2> QED
    BY <2>2 DEF Tidy
<1>4. ASSUME NEW rest, rest \subseteq run, i # 0 => i \notin rest
      PROVE  /\ Tidy(in, out, rest, ans, cnt, mine)
             /\ Tidy(in, out, rest, more, cnt, mine)
             /\ \A f \in ClientFrame : f.type = "res" /\ f.id = i =>
                  Tidy(in, Append(out, f), rest, more, cnt, mine)
  <2>1. Tidy(in, out, rest, ans, cnt, mine)
    BY <1>4 DEF Tidy
  <2>2. /\ \A j \in Id : cnt < j => more[j] = 0
        /\ \A j \in Id : j # 0 => /\ more[j] <= 1
                                  /\ j = i => more[j] # 0
                                  /\ ans[j] # 0 => more[j] # 0
                                  /\ Has(in, j) => more[j] = 0 /\ j \notin rest
                                  /\ j \in rest => more[j] = 0
    BY <1>1, <1>2, <1>4 DEF Tidy
  <2>3. Tidy(in, out, rest, more, cnt, mine)
    <3>1. ASSUME NEW j \in Id
          PROVE  /\ Has(in, j) \/ j \in rest => j <= cnt /\ (mine => j # 0)
                 /\ cnt < j => more[j] = 0
                 /\ j # 0 => /\ more[j] <= 1
                             /\ HasRes(out, j) => more[j] # 0
                             /\ Has(in, j) => more[j] = 0 /\ j \notin rest
                             /\ j \in rest => more[j] = 0
      <4>1. /\ Has(in, j) \/ j \in rest => j <= cnt /\ (mine => j # 0)
            /\ j # 0 /\ HasRes(out, j) => ans[j] # 0
        BY <2>1 DEF Tidy
      <4> QED
        BY <4>1, <2>2
    <3>2. Once(in) /\ EventsFirst(out)
      BY <2>1 DEF Tidy
    <3> QED
      BY <3>1, <3>2 DEF Tidy
  <2>4. ASSUME NEW f \in ClientFrame, f.type = "res", f.id = i
        PROVE  Tidy(in, Append(out, f), rest, more, cnt, mine)
    <3>1. /\ \A j : HasRes(Append(out, f), j) => HasRes(out, j) \/ i = j
          /\ EventsFirst(Append(out, f))
      BY <2>4, AppendFrames DEF Tidy
    <3>2. \A j \in Id : j # 0 /\ HasRes(Append(out, f), j) => more[j] # 0
      BY <2>2, <2>3, <3>1 DEF Tidy
    <3> QED
      BY <2>3, <3>1, <3>2 DEF Tidy
  <2> QED
    BY <2>1, <2>3, <2>4
<1> QED
  BY <1>3, <1>4 DEF more

\* A frame is sent, with a new id by the client and without one by a peer.
LEMMA SendTidy ==
  ASSUME NEW in \in Seq(RequestFrame), NEW out, NEW run, NEW f \in RequestFrame,
         NEW ans \in [Id -> Nat], NEW cnt \in Id, NEW mine \in BOOLEAN,
         Tidy(in, out, run, ans, cnt, mine)
  PROVE  /\ cnt + 1 \in Id => Tidy(in, out, run, ans, cnt + 1, mine)
         /\ f.id = cnt + 1 => Tidy(Append(in, f), out, run, ans, cnt + 1, mine)
         /\ f.id = 0 /\ ~ mine => Tidy(Append(in, f), out, run, ans, cnt, mine)
<1>1. Id \subseteq Nat /\ f.id \in Id /\ 0 \in Id
  BY ConstantTypes DEF RequestFrame
<1>2. /\ \A i : Has(Append(in, f), i) => Has(in, i) \/ f.id = i
      /\ f.id = 0 \/ ~ Has(in, f.id) => Once(Append(in, f))
  BY AppendFrames DEF Tidy
<1>3. cnt + 1 \in Id => Tidy(in, out, run, ans, cnt + 1, mine)
  BY <1>1 DEF Tidy
<1>4. ASSUME f.id = cnt + 1
      PROVE  Tidy(Append(in, f), out, run, ans, cnt + 1, mine)
  <2>1. cnt < f.id /\ f.id # 0 /\ ~ Has(in, f.id) /\ f.id \notin run /\ ans[f.id] = 0
    BY <1>1, <1>4 DEF Tidy
  <2> QED
    BY <1>1, <1>2, <1>3, <1>4, <2>1 DEF Tidy
<1>5. ASSUME f.id = 0, ~ mine
      PROVE  Tidy(Append(in, f), out, run, ans, cnt, mine)
  BY <1>1, <1>2, <1>5 DEF Tidy
<1> QED
  BY <1>3, <1>4, <1>5

\* Frames are lost, or taken by the client; the challenge is sent.
LEMMA RestTidy ==
  ASSUME NEW in \in Seq(RequestFrame), NEW out \in Seq(ClientFrame), NEW run,
         NEW ans \in [Id -> Nat], NEW cnt \in Id, NEW mine \in BOOLEAN,
         Tidy(in, out, run, ans, cnt, mine)
  PROVE  /\ Tidy(<<>>, out, run, ans, cnt, mine)
         /\ Tidy(in, <<>>, run, ans, cnt, mine)
         /\ out # <<>> => Tidy(in, Tail(out), run, ans, cnt, mine)
         /\ Tidy(in, Append(out, Challenge), run, ans, cnt, mine)
<1>1. DOMAIN <<>> = {}
  OBVIOUS
<1>2. Once(<<>>) /\ EventsFirst(<<>>) /\ \A i : ~ Has(<<>>, i) /\ ~ HasRes(<<>>, i)
  BY <1>1 DEF Once, EventsFirst, Has, HasRes
<1>3. Tidy(<<>>, out, run, ans, cnt, mine) /\ Tidy(in, <<>>, run, ans, cnt, mine)
  BY <1>2 DEF Tidy
<1>4. ASSUME out # <<>>
      PROVE  Tidy(in, Tail(out), run, ans, cnt, mine)
  BY <1>4, TailFrames DEF Tidy
<1>5. Tidy(in, Append(out, Challenge), run, ans, cnt, mine)
  <2>1. Challenge \in ClientFrame /\ Challenge.type = "challenge"
    BY FrameTypes, ConstantTypes DEF Challenge
  <2>2. /\ \A i : HasRes(Append(out, Challenge), i) => HasRes(out, i)
        /\ EventsFirst(Append(out, Challenge))
    BY <2>1, AppendFrames DEF Tidy
  <2> QED
    BY <2>2 DEF Tidy
<1> QED
  BY <1>3, <1>4, <1>5

\* A connection without requests and threads may get any owner.
LEMMA OwnerTidy ==
  ASSUME NEW out, NEW ans, NEW cnt, NEW mine, NEW own,
         Tidy(<<>>, out, {}, ans, cnt, mine)
  PROVE  Tidy(<<>>, out, {}, ans, cnt, own)
<1>1. DOMAIN <<>> = {}
  OBVIOUS
<1>2. \A i : ~ Has(<<>>, i)
  BY <1>1 DEF Has
<1> QED
  BY <1>2 DEF Tidy

\* The ids that the handler threads of a connection work for.
RunIds(c) == {t.id : t \in {u \in threads : u.conn = c}}

\* A request has one thread.
OneThread ==
  \A t, u \in threads : t.conn = u.conn /\ t.id = u.id /\ t.id # 0 => t = u

TidyConn(c) ==
  Tidy(toServer[c], toClient[c], RunIds(c), answered[c], client.counter,
       owner[c] = "client")

WireInv == OneThread /\ \A c \in Conn : TidyConn(c)

\* The types that the lemmas about Tidy ask for.
LEMMA ConnTypes ==
  ASSUME GatewayTypes, NEW c \in Conn
  PROVE  /\ toServer[c] \in Seq(RequestFrame) /\ toClient[c] \in Seq(ClientFrame)
         /\ answered[c] \in [Id -> Nat] /\ client.counter \in Id
         /\ (owner[c] = "client") \in BOOLEAN
BY DEF GatewayTypes, ServerTypes, WireTypes, ClientTypes, ClientRecord

\* A connection whose frames, threads and answers rest stays as it was.
LEMMA RestingConn ==
  ASSUME NEW c \in Conn, TidyConn(c),
         toServer'[c] = toServer[c], toClient'[c] = toClient[c], RunIds(c)' = RunIds(c),
         answered'[c] = answered[c], client'.counter = client.counter,
         owner'[c] = owner[c]
  PROVE  TidyConn(c)'
BY DEF TidyConn

\* Steps on one connection that leave the handler threads alone.
LEMMA OneConnStep ==
  ASSUME GatewayTypes, WireInv, NEW c \in Conn,
         NEW in, NEW out, NEW ans,
         toServer' = [toServer EXCEPT ![c] = in],
         toClient' = [toClient EXCEPT ![c] = out],
         answered' = [answered EXCEPT ![c] = ans],
         UNCHANGED <<threads, owner>>, client'.counter = client.counter,
         Tidy(in, out, RunIds(c), ans, client.counter, owner[c] = "client")
  PROVE  WireInv'
<1> USE DEF GatewayTypes, ServerTypes, WireTypes
<1>1. \A d \in Conn : RunIds(d)' = RunIds(d)
  BY DEF RunIds
<1>2. toServer'[c] = in /\ toClient'[c] = out /\ answered'[c] = ans
  OBVIOUS
<1>3. TidyConn(c)'
  BY <1>1, <1>2 DEF TidyConn
<1>4. ASSUME NEW d \in Conn, d # c
      PROVE  TidyConn(d)'
  BY <1>1, <1>4, RestingConn DEF WireInv
<1>5. OneThread'
  BY DEF WireInv, OneThread
<1> QED
  BY <1>3, <1>4, <1>5 DEF WireInv

\* A frame that may be put on the way to the client leaves a connection tidy
\* if it does so when it is put there.
LEMMA PutOrDrop ==
  ASSUME GatewayTypes, NEW c \in Conn, NEW f \in ClientFrame,
         toClient' = Put(toClient, c, f)
  PROVE  \E out \in {toClient[c], Append(toClient[c], f)} :
           /\ toClient' = [toClient EXCEPT ![c] = out]
           /\ out # toClient[c] => owner[c] = "client"
BY DEF Put, GatewayTypes, WireTypes

\* The first request of a connection is answered, whatever the answer.
LEMMA AnswerKeepsTidy ==
  ASSUME GatewayTypes, WireInv, NEW c \in Conn, toServer[c] # <<>>,
         NEW f \in ClientFrame, f.type = "res", f.id = Head(toServer[c]).id,
         toServer' = [toServer EXCEPT ![c] = Tail(@)], Answer(c, f),
         UNCHANGED <<threads, owner, client>>
  PROVE  WireInv'
<1> DEFINE more == [answered[c] EXCEPT ![f.id] = @ + 1]
<1>1. answered' = [answered EXCEPT ![c] = more]
  BY DEF Answer, GatewayTypes, ServerTypes
<1>2. PICK out \in {toClient[c], Append(toClient[c], f)} :
        toClient' = [toClient EXCEPT ![c] = out]
  BY PutOrDrop DEF Answer
<1>3. TidyConn(c)
  BY DEF WireInv
<1>4. /\ Tidy(Tail(toServer[c]), toClient[c], RunIds(c), more, client.counter,
              owner[c] = "client")
      /\ Tidy(Tail(toServer[c]), Append(toClient[c], f), RunIds(c), more, client.counter,
              owner[c] = "client")
  BY <1>3, ConnTypes, TakeTidy DEF TidyConn
<1>5. Tidy(Tail(toServer[c]), out, RunIds(c), more, client.counter, owner[c] = "client")
  BY <1>2, <1>4
<1>6. toServer' = [toServer EXCEPT ![c] = Tail(toServer[c])]
  OBVIOUS
<1> HIDE DEF more
<1> QED
  BY <1>1, <1>2, <1>5, <1>6, OneConnStep

\* What a step does to the ids of the handler threads.
LEMMA ThreadsChange ==
  ASSUME GatewayTypes, WireInv
  PROVE  /\ \A c, i : threads' = threads \cup {[conn |-> c, id |-> i, said |-> 0]} =>
              \A d : RunIds(d)' = IF d = c THEN RunIds(d) \cup {i} ELSE RunIds(d)
         /\ \A t \in threads : threads' = (threads \ {t}) \cup {[t EXCEPT !.said = 1]} =>
              \A d : RunIds(d)' = RunIds(d)
         /\ \A t \in threads : threads' = threads \ {t} =>
              \A d : /\ RunIds(d)' \subseteq RunIds(d)
                     /\ d # t.conn => RunIds(d)' = RunIds(d)
                     /\ d = t.conn /\ t.id # 0 => t.id \notin RunIds(d)'
<1>1. \A d, i : i \in RunIds(d) <=> \E t \in threads : t.conn = d /\ t.id = i
  BY DEF RunIds
<1>2. \A d, i : i \in RunIds(d)' <=> \E t \in threads' : t.conn = d /\ t.id = i
  BY DEF RunIds
<1>3. ASSUME NEW c, NEW i, threads' = threads \cup {[conn |-> c, id |-> i, said |-> 0]}, NEW d
      PROVE  RunIds(d)' = IF d = c THEN RunIds(d) \cup {i} ELSE RunIds(d)
  <2> DEFINE new == [conn |-> c, id |-> i, said |-> 0]
  <2>1. new.conn = c /\ new.id = i /\ threads' = threads \cup {new}
    BY <1>3
  <2> HIDE DEF new
  <2>2. \A j : j \in RunIds(d)' <=> j \in RunIds(d) \/ (d = c /\ j = i)
    BY <1>1, <1>2, <2>1
  <2> QED
    BY <2>2
<1>4. ASSUME NEW t \in threads, threads' = (threads \ {t}) \cup {[t EXCEPT !.said = 1]}, NEW d
      PROVE  RunIds(d)' = RunIds(d)
  <2> DEFINE new == [t EXCEPT !.said = 1]
  <2>1. t \in ThreadRecord
    BY DEF GatewayTypes, ServerTypes
  <2>2. new.conn = t.conn /\ new.id = t.id /\ threads' = (threads \ {t}) \cup {new}
    BY <1>4, <2>1 DEF ThreadRecord
  <2> HIDE DEF new
  <2>3. \A j : j \in RunIds(d)' <=> j \in RunIds(d)
    BY <1>1, <1>2, <2>2
  <2> QED
    BY <2>3
<1>5. ASSUME NEW t \in threads, threads' = threads \ {t}, NEW d
      PROVE  /\ RunIds(d)' \subseteq RunIds(d)
             /\ d # t.conn => RunIds(d)' = RunIds(d)
             /\ d = t.conn /\ t.id # 0 => t.id \notin RunIds(d)'
  <2>1. \A j : j \in RunIds(d)' => j \in RunIds(d)
    BY <1>1, <1>2, <1>5
  <2>2. d # t.conn => \A j : j \in RunIds(d) => j \in RunIds(d)'
    BY <1>1, <1>2, <1>5
  <2>3. d = t.conn /\ t.id # 0 => t.id \notin RunIds(d)'
    BY <1>2, <1>5 DEF WireInv, OneThread
  <2> QED
    BY <2>1, <2>2, <2>3
<1> QED
  BY <1>3, <1>4, <1>5

\* A request gets a thread of its own.
LEMMA ThreadStartsTidy ==
  ASSUME GatewayTypes, WireInv, NEW c \in Conn, toServer[c] # <<>>,
         toServer' = [toServer EXCEPT ![c] = Tail(@)],
         threads' = threads \cup {[conn |-> c, id |-> Head(toServer[c]).id, said |-> 0]},
         UNCHANGED <<toClient, answered, owner, client>>
  PROVE  WireInv'
<1> USE DEF GatewayTypes, ServerTypes, WireTypes
<1> DEFINE h == Head(toServer[c])
           new == [conn |-> c, id |-> h.id, said |-> 0]
<1>1. TidyConn(c)
  BY DEF WireInv
<1>2. /\ h \in RequestFrame /\ h.id \in Id
      /\ Has(toServer[c], h.id)
  <2>1. h \in RequestFrame /\ Has(toServer[c], h.id)
    BY TakenFrame, TailFrames, ConnTypes
  <2> HIDE DEF h
  <2> QED
    BY <2>1 DEF RequestFrame
<1>3. Tidy(Tail(toServer[c]), toClient[c], RunIds(c) \cup {h.id}, answered[c],
           client.counter, owner[c] = "client")
  BY <1>1, ConnTypes, TakeTidy DEF TidyConn
<1>4. \A d : RunIds(d)' = IF d = c THEN RunIds(d) \cup {h.id} ELSE RunIds(d)
  BY ThreadsChange
<1>5. new.conn = c /\ new.id = h.id /\ threads' = threads \cup {new}
  OBVIOUS
<1>6. h.id # 0 => h.id \notin RunIds(c)
  BY <1>1, <1>2 DEF TidyConn, Tidy
<1>7. toServer'[c] = Tail(toServer[c]) /\ \A d \in Conn : d # c => toServer'[d] = toServer[d]
  OBVIOUS
<1> HIDE DEF h, new
<1>8. TidyConn(c)'
  BY <1>3, <1>4, <1>7 DEF TidyConn
<1>9. ASSUME NEW d \in Conn, d # c
      PROVE  TidyConn(d)'
  BY <1>4, <1>7, <1>9, RestingConn DEF WireInv
<1>10. OneThread'
  <2>1. \A t \in threads : t.conn = c /\ t.id = h.id => h.id = 0
    BY <1>6 DEF RunIds
  <2> QED
    BY <1>5, <2>1 DEF WireInv, OneThread
<1> QED
  BY <1>8, <1>9, <1>10 DEF WireInv

\* A handler thread sends an event.
LEMMA EventKeepsTidy ==
  ASSUME GatewayTypes, LinkInv, WireInv, NEW t \in threads, StreamEvent(t)
  PROVE  WireInv'
<1> USE DEF GatewayTypes, ServerTypes, WireTypes
<1> DEFINE c == t.conn
           new == [t EXCEPT !.said = 1]
<1>1. t \in ThreadRecord
  OBVIOUS
<1>2. c \in Conn /\ t.id \in Id /\ new.conn = c /\ new.id = t.id
  BY <1>1 DEF ThreadRecord
<1>3. /\ threads' = (threads \ {t}) \cup {new}
      /\ UNCHANGED <<toServer, answered, owner, client>>
      /\ toClient' = toClient \/ toClient' = Put(toClient, c, Event(t.id))
  BY DEF StreamEvent, clientVars
<1>4. Event(t.id) \in ClientFrame /\ Event(t.id).type = "event" /\ Event(t.id).id = t.id
  BY <1>2, FrameTypes DEF Event
<1>5. TidyConn(c) /\ t.id \in RunIds(c)
  BY <1>2 DEF WireInv, RunIds
<1>6. \A d : RunIds(d)' = RunIds(d)
  BY <1>3, ThreadsChange
<1> HIDE DEF c, new
<1>7. PICK out \in {toClient[c], Append(toClient[c], Event(t.id))} :
        /\ toClient' = [toClient EXCEPT ![c] = out]
        /\ out # toClient[c] => owner[c] = "client"
  BY <1>2, <1>3, <1>4, PutOrDrop
<1>8. Tidy(toServer[c], out, RunIds(c), answered[c], client.counter, owner[c] = "client")
  <2>1. CASE out = toClient[c]
    BY <1>5, <2>1 DEF TidyConn
  <2>2. CASE out # toClient[c]
    <3>1. out = Append(toClient[c], Event(t.id)) /\ owner[c] = "client"
      BY <1>7, <2>2
    <3>2. /\ toServer[c] \in Seq(RequestFrame) /\ toClient[c] \in Seq(ClientFrame)
          /\ answered[c] \in [Id -> Nat] /\ client.counter \in Id
          /\ (owner[c] = "client") \in BOOLEAN
      BY <1>2, ConnTypes
    <3>3. Tidy(toServer[c], toClient[c], RunIds(c), answered[c], client.counter,
               owner[c] = "client")
      BY <1>5 DEF TidyConn
    <3>4. \A f \in ClientFrame : f.type = "event" /\ f.id = t.id /\ owner[c] = "client" =>
            Tidy(toServer[c], Append(toClient[c], f), RunIds(c), answered[c],
                 client.counter, owner[c] = "client")
      BY <1>2, <1>5, <3>2, <3>3, ThreadTidy
    <3> QED
      BY <1>4, <3>1, <3>4
  <2> QED
    BY <2>1, <2>2
<1>9. toClient'[c] = out /\ \A d \in Conn : d # c => toClient'[d] = toClient[d]
  BY <1>2, <1>7
<1>10. TidyConn(c)'
  BY <1>3, <1>6, <1>8, <1>9 DEF TidyConn
<1>11. ASSUME NEW d \in Conn, d # c
       PROVE  TidyConn(d)'
  BY <1>3, <1>6, <1>9, <1>11, RestingConn DEF WireInv
<1>12. OneThread'
  BY <1>2, <1>3 DEF WireInv, OneThread, c
<1> QED
  BY <1>10, <1>11, <1>12 DEF WireInv

\* A handler thread returns or throws.
LEMMA ReturnKeepsTidy ==
  ASSUME GatewayTypes, LinkInv, WireInv, NEW t \in threads, NEW code \in Code,
         HandlerReturns(t, code)
  PROVE  WireInv'
<1> USE DEF GatewayTypes, ServerTypes, WireTypes
<1>1. t \in ThreadRecord
  OBVIOUS
<1>2. PICK c \in Conn : c = t.conn /\ t.id \in Id
  BY <1>1 DEF ThreadRecord
<1> DEFINE f == Response(t.id, "agent.request", code)
           more == [answered[c] EXCEPT ![t.id] = @ + 1]
<1>3. /\ threads' = threads \ {t}
      /\ UNCHANGED <<toServer, owner, client>>
      /\ Answer(c, f) \/ UNCHANGED <<toClient, answered>>
  BY <1>2 DEF HandlerReturns, clientVars
<1>4. f \in ClientFrame /\ f.type = "res" /\ f.id = t.id
  <2>1. f \in ClientFrame
    BY <1>2, FrameTypes DEF Answered
  <2> QED
    BY <2>1 DEF Response
<1>5. TidyConn(c) /\ t.id \in RunIds(c)
  BY <1>2 DEF WireInv, RunIds
<1>6. \A d : /\ RunIds(d)' \subseteq RunIds(d)
             /\ d # c => RunIds(d)' = RunIds(d)
             /\ d = c /\ t.id # 0 => t.id \notin RunIds(d)'
  BY <1>2, <1>3, ThreadsChange
<1> HIDE DEF f
<1>7. \E out \in {toClient[c], Append(toClient[c], f)}, ans \in {answered[c], more} :
        /\ toClient' = [toClient EXCEPT ![c] = out]
        /\ answered' = [answered EXCEPT ![c] = ans]
        /\ out # toClient[c] => ans = more
  <2>1. CASE Answer(c, f)
    <3>1. answered' = [answered EXCEPT ![c] = more]
      BY <1>2, <1>4, <2>1 DEF Answer
    <3>2. toClient' = Put(toClient, c, f)
      BY <2>1 DEF Answer
    <3>3. \E out \in {toClient[c], Append(toClient[c], f)} :
            toClient' = [toClient EXCEPT ![c] = out]
      BY <1>4, <3>2, PutOrDrop
    <3> QED
      BY <3>1, <3>3
  <2>2. CASE UNCHANGED <<toClient, answered>>
    BY <1>2, <2>2
  <2> QED
    BY <1>3, <2>1, <2>2
<1>8. PICK out \in {toClient[c], Append(toClient[c], f)}, ans \in {answered[c], more} :
        /\ toClient' = [toClient EXCEPT ![c] = out]
        /\ answered' = [answered EXCEPT ![c] = ans]
        /\ out # toClient[c] => ans = more
  BY <1>7
<1>9. LET rest == RunIds(c)'
      IN  /\ Tidy(toServer[c], toClient[c], rest, answered[c], client.counter,
                  owner[c] = "client")
          /\ Tidy(toServer[c], toClient[c], rest, more, client.counter, owner[c] = "client")
          /\ Tidy(toServer[c], Append(toClient[c], f), rest, more, client.counter,
                  owner[c] = "client")
  <2>1. /\ toServer[c] \in Seq(RequestFrame) /\ toClient[c] \in Seq(ClientFrame)
        /\ answered[c] \in [Id -> Nat] /\ client.counter \in Id
        /\ (owner[c] = "client") \in BOOLEAN
    BY <1>2, ConnTypes
  <2>2. Tidy(toServer[c], toClient[c], RunIds(c), answered[c], client.counter,
             owner[c] = "client")
    BY <1>5 DEF TidyConn
  <2>3. \A rest : rest \subseteq RunIds(c) /\ (t.id # 0 => t.id \notin rest) =>
          /\ Tidy(toServer[c], toClient[c], rest, answered[c], client.counter,
                  owner[c] = "client")
          /\ Tidy(toServer[c], toClient[c], rest, more, client.counter,
                  owner[c] = "client")
          /\ \A g \in ClientFrame : g.type = "res" /\ g.id = t.id =>
               Tidy(toServer[c], Append(toClient[c], g), rest, more, client.counter,
                    owner[c] = "client")
    BY <1>2, <1>5, <2>1, <2>2, ThreadTidy
  <2> HIDE DEF more
  <2>4. RunIds(c)' \subseteq RunIds(c) /\ (t.id # 0 => t.id \notin RunIds(c)')
    BY <1>6
  <2> QED
    BY <1>4, <2>3, <2>4
<1> HIDE DEF more
<1>10. Tidy(toServer[c], out, RunIds(c)', ans, client.counter, owner[c] = "client")
  BY <1>8, <1>9
<1>11. /\ toClient'[c] = out /\ \A d \in Conn : d # c => toClient'[d] = toClient[d]
       /\ answered'[c] = ans /\ \A d \in Conn : d # c => answered'[d] = answered[d]
  BY <1>2, <1>8
<1>12. TidyConn(c)'
  BY <1>3, <1>10, <1>11 DEF TidyConn
<1>13. ASSUME NEW d \in Conn, d # c
       PROVE  TidyConn(d)'
  <2>1. /\ toServer'[d] = toServer[d] /\ owner'[d] = owner[d]
        /\ client'.counter = client.counter
    BY <1>3
  <2>2. toClient'[d] = toClient[d] /\ answered'[d] = answered[d]
    BY <1>11, <1>13
  <2>3. RunIds(d)' = RunIds(d) /\ TidyConn(d)
    BY <1>6, <1>13 DEF WireInv
  <2> QED
    BY <2>1, <2>2, <2>3, RestingConn
<1>14. OneThread'
  BY <1>3 DEF WireInv, OneThread
<1> QED
  BY <1>12, <1>13, <1>14 DEF WireInv

\* Steps that leave frames, threads, answers and owners alone.
LEMMA QuietKeepsTidy ==
  ASSUME WireInv, UNCHANGED <<toServer, toClient, threads, answered, owner>>,
         client'.counter = client.counter
  PROVE  WireInv'
<1>1. \A d : RunIds(d)' = RunIds(d)
  BY DEF RunIds
<1>2. \A d \in Conn : TidyConn(d)'
  BY <1>1, RestingConn DEF WireInv
<1>3. OneThread'
  BY DEF WireInv, OneThread
<1> QED
  BY <1>2, <1>3 DEF WireInv

\* The steps of the server.
LEMMA ServerStepTidy ==
  ASSUME GatewayTypes, LinkInv, WireInv, ServerStep
  PROVE  WireInv'
<1> USE DEF GatewayTypes, ServerTypes, WireTypes
<1>1. CASE Start \/ StopServer \/ StopJoin
  BY <1>1, QuietKeepsTidy DEF Start, StopServer, StopJoin, clientVars, wire
<1>2. ASSUME NEW c \in Conn
      PROVE  /\ Tidy(toServer[c], toClient[c], RunIds(c), answered[c], client.counter,
                     owner[c] = "client")
             /\ toServer[c] \in Seq(RequestFrame) /\ toClient[c] \in Seq(ClientFrame)
             /\ answered[c] \in [Id -> Nat] /\ client.counter \in Id
             /\ (owner[c] = "client") \in BOOLEAN
             /\ toServer = [toServer EXCEPT ![c] = toServer[c]]
             /\ toClient = [toClient EXCEPT ![c] = toClient[c]]
             /\ answered = [answered EXCEPT ![c] = answered[c]]
  BY ConnTypes DEF WireInv, TidyConn
<1>3. ASSUME NEW c \in Conn, OnOpen(c)
      PROVE  WireInv'
  <2>1. /\ toClient' = Put(toClient, c, Challenge)
        /\ UNCHANGED <<toServer, answered, threads, owner, client>>
    BY <1>3 DEF OnOpen, clientVars
  <2>2. Challenge \in ClientFrame
    BY FrameTypes, ConstantTypes
  <2>3. PICK out \in {toClient[c], Append(toClient[c], Challenge)} :
          toClient' = [toClient EXCEPT ![c] = out]
    BY <2>1, <2>2, PutOrDrop
  <2>4. Tidy(toServer[c], Append(toClient[c], Challenge), RunIds(c), answered[c],
             client.counter, owner[c] = "client")
    BY <1>2, RestTidy
  <2>5. Tidy(toServer[c], out, RunIds(c), answered[c], client.counter, owner[c] = "client")
    BY ZenonT(60), <1>2, <2>3, <2>4
  <2>6. /\ toServer' = [toServer EXCEPT ![c] = toServer[c]]
        /\ answered' = [answered EXCEPT ![c] = answered[c]]
    BY <1>2, <2>1
  <2>7. UNCHANGED <<threads, owner>> /\ client'.counter = client.counter
    BY <2>1
  <2> HIDE DEF GatewayTypes, ServerTypes, WireTypes
  <2> QED
    BY <2>3, <2>5, <2>6, <2>7, OneConnStep
<1>4. ASSUME NEW c \in Conn, OnClose(c)
      PROVE  WireInv'
  <2>1. /\ toServer' = [toServer EXCEPT ![c] = <<>>]
        /\ UNCHANGED <<toClient, answered, threads, owner, client>>
    BY <1>4 DEF OnClose, clientVars
  <2>2. Tidy(<<>>, toClient[c], RunIds(c), answered[c], client.counter, owner[c] = "client")
    BY <1>2, RestTidy
  <2>3. /\ toClient' = [toClient EXCEPT ![c] = toClient[c]]
        /\ answered' = [answered EXCEPT ![c] = answered[c]]
    BY <1>2, <2>1
  <2>4. UNCHANGED <<threads, owner>> /\ client'.counter = client.counter
    BY <2>1
  <2> HIDE DEF GatewayTypes, ServerTypes, WireTypes
  <2> QED
    BY ZenonT(60), <2>1, <2>2, <2>3, <2>4, OneConnStep
<1>5. ASSUME NEW c \in Conn, HandleHello(c)
      PROVE  WireInv'
  <2> DEFINE f(code) == Response(Head(toServer[c]).id, Head(toServer[c]).method, code)
  <2>1. /\ toServer[c] # <<>> /\ toServer' = [toServer EXCEPT ![c] = Tail(@)]
        /\ \E code \in Code : Answer(c, f(code))
        /\ UNCHANGED <<threads, owner, client>>
    BY <1>5 DEF HandleHello, clientVars, Code
  <2>2. \A code \in Code : /\ f(code) \in ClientFrame /\ f(code).type = "res"
                           /\ f(code).id = Head(toServer[c]).id
    <3>1. Head(toServer[c]) \in RequestFrame
      BY <2>1, TakenFrame
    <3> QED
      BY <3>1, FrameTypes DEF RequestFrame, Answered, Response
  <2> HIDE DEF f
  <2> QED
    BY <2>1, <2>2, AnswerKeepsTidy
<1>6. ASSUME NEW c \in Conn, RefuseRequest(c)
      PROVE  WireInv'
  <2> DEFINE f(code) == Response(Head(toServer[c]).id, Head(toServer[c]).method, code)
  <2>1. /\ toServer[c] # <<>> /\ toServer' = [toServer EXCEPT ![c] = Tail(@)]
        /\ (\E code \in Code : Answer(c, f(code))) \/ UNCHANGED <<toClient, answered>>
        /\ UNCHANGED <<threads, owner, client>>
    <3>1. Verdict(c, Head(toServer[c]).method) \in Code /\ "RATE_LIMITED" \in Code
      BY DEF Verdict, Code
    <3> QED
      BY <1>6, <3>1 DEF RefuseRequest, clientVars
  <2>2. \A code \in Code : /\ f(code) \in ClientFrame /\ f(code).type = "res"
                           /\ f(code).id = Head(toServer[c]).id
    <3>1. Head(toServer[c]) \in RequestFrame
      BY <2>1, TakenFrame
    <3> QED
      BY <3>1, FrameTypes DEF RequestFrame, Answered, Response
  <2> HIDE DEF f
  <2>3. CASE \E code \in Code : Answer(c, f(code))
    BY <2>1, <2>2, <2>3, AnswerKeepsTidy
  <2>4. CASE UNCHANGED <<toClient, answered>>
    <3>1. Tidy(Tail(toServer[c]), toClient[c], RunIds(c), answered[c], client.counter,
               owner[c] = "client")
      BY <1>2, <2>1, TakeTidy
    <3>2. /\ toServer' = [toServer EXCEPT ![c] = Tail(toServer[c])]
          /\ toClient' = [toClient EXCEPT ![c] = toClient[c]]
          /\ answered' = [answered EXCEPT ![c] = answered[c]]
      BY <1>2, <2>1, <2>4
    <3> QED
      BY <2>1, <3>1, <3>2, OneConnStep
  <2> QED
    BY <2>1, <2>3, <2>4
<1>7. ASSUME NEW c \in Conn, NEW code \in {"ok", "HANDLER_ERROR"}, RunRequest(c, code)
      PROVE  WireInv'
  <2> DEFINE f == Response(Head(toServer[c]).id, Head(toServer[c]).method, code)
             new == [conn |-> c, id |-> Head(toServer[c]).id, said |-> 0]
  <2>1. /\ toServer[c] # <<>> /\ toServer' = [toServer EXCEPT ![c] = Tail(@)]
        /\ \/ threads' = threads \cup {new} /\ UNCHANGED <<toClient, answered>>
           \/ Answer(c, f) /\ UNCHANGED threads
        /\ UNCHANGED <<owner, client>>
    BY <1>7 DEF RunRequest, clientVars
  <2>2. f \in ClientFrame /\ f.type = "res" /\ f.id = Head(toServer[c]).id
    <3>1. Head(toServer[c]) \in RequestFrame
      BY <2>1, TakenFrame
    <3> QED
      BY <3>1, FrameTypes DEF RequestFrame, Answered, Response, Code
  <2> HIDE DEF f
  <2>3. CASE threads' = threads \cup {new} /\ UNCHANGED <<toClient, answered>>
    BY <2>1, <2>3, ThreadStartsTidy
  <2>4. CASE Answer(c, f) /\ UNCHANGED threads
    BY <2>1, <2>2, <2>4, AnswerKeepsTidy
  <2> QED
    BY <2>1, <2>3, <2>4
<1>8. ASSUME NEW t \in threads,
             \/ StreamEvent(t)
             \/ \E code \in {"ok", "HANDLER_ERROR"} : HandlerReturns(t, code)
      PROVE  WireInv'
  BY <1>8, EventKeepsTidy, ReturnKeepsTidy DEF Code
<1> QED
  BY <1>1, <1>3, <1>4, <1>5, <1>6, <1>7, <1>8 DEF ServerStep

\* The client sends a frame with a new id.
LEMMA SendKeepsTidy ==
  ASSUME GatewayTypes, LinkInv, WireInv, NEW f \in RequestFrame,
         f.id = client.counter + 1, client'.counter = client.counter + 1, Send(f),
         UNCHANGED <<toClient, threads, answered, owner>>
  PROVE  WireInv'
<1> USE DEF GatewayTypes, ServerTypes, WireTypes, ClientTypes
<1>1. client.conn # 0 => client.conn \in Conn /\ owner[client.conn] = "client"
  BY DEF ClientRecord, LinkInv, LinksOwned
<1>2. \A d : RunIds(d)' = RunIds(d)
  BY DEF RunIds
<1>3. ASSUME NEW d \in Conn
      PROVE  toServer'[d] = toServer[d] \/ toServer'[d] = Append(toServer[d], f)
  BY <1>1 DEF Send
<1>4. client.counter + 1 \in Id
  BY DEF RequestFrame
<1>5. ASSUME NEW d \in Conn
      PROVE  TidyConn(d)'
  <2>1. Tidy(toServer[d], toClient[d], RunIds(d), answered[d], client.counter,
             owner[d] = "client")
    BY DEF WireInv, TidyConn
  <2>2. /\ Tidy(toServer[d], toClient[d], RunIds(d), answered[d], client.counter + 1,
                owner[d] = "client")
        /\ Tidy(Append(toServer[d], f), toClient[d], RunIds(d), answered[d],
                client.counter + 1, owner[d] = "client")
    BY <1>4, <2>1, ConnTypes, SendTidy
  <2>3. Tidy(toServer'[d], toClient[d], RunIds(d), answered[d], client.counter + 1,
             owner[d] = "client")
    BY <1>3, <2>2
  <2> QED
    BY <1>2, <2>3 DEF TidyConn
<1>6. OneThread'
  BY DEF WireInv, OneThread
<1> QED
  BY <1>5, <1>6 DEF WireInv

\* A link is opened.
LEMMA NewLinkKeepsTidy ==
  ASSUME GatewayTypes, LinkInv, WireInv, NextConn \in Conn,
         NEW side, owner' = [owner EXCEPT ![NextConn] = side],
         UNCHANGED <<toServer, toClient, threads, answered>>,
         client'.counter = client.counter
  PROVE  WireInv'
<1> USE DEF GatewayTypes, ServerTypes, WireTypes
<1>1. owner[NextConn] = "none" /\ toServer[NextConn] = <<>>
  BY NewLinkIsUnused
<1>2. RunIds(NextConn) = {}
  BY <1>1 DEF RunIds, LinkInv, LinksOwned
<1>3. \A d : RunIds(d)' = RunIds(d)
  BY DEF RunIds
<1>4. ASSUME NEW d \in Conn
      PROVE  TidyConn(d)'
  <2>1. Tidy(toServer[d], toClient[d], RunIds(d), answered[d], client.counter,
             owner[d] = "client")
    BY DEF WireInv, TidyConn
  <2>2. Tidy(toServer[d], toClient[d], RunIds(d), answered[d], client.counter,
             owner'[d] = "client")
    <3>1. CASE d = NextConn
      <4>1. toServer[d] = <<>> /\ RunIds(d) = {}
        BY <1>1, <1>2, <3>1
      <4>2. Tidy(<<>>, toClient[d], {}, answered[d], client.counter, owner[d] = "client")
        BY <2>1, <4>1
      <4>3. Tidy(<<>>, toClient[d], {}, answered[d], client.counter, owner'[d] = "client")
        BY <4>2, OwnerTidy
      <4> QED
        BY <4>1, <4>3
    <3>2. CASE d # NextConn
      BY <2>1, <3>2
    <3> QED
      BY <3>1, <3>2
  <2> QED
    BY <1>3, <2>2 DEF TidyConn
<1>5. OneThread'
  BY DEF WireInv, OneThread
<1> QED
  BY <1>4, <1>5 DEF WireInv

\* The client takes a frame, or loses those of a link.
LEMMA TakeKeepsTidy ==
  ASSUME GatewayTypes, WireInv, client.conn \in Conn,
         \/ toClient' = [toClient EXCEPT ![client.conn] = <<>>]
         \/ /\ toClient[client.conn] # <<>>
            /\ toClient' = [toClient EXCEPT ![client.conn] = Tail(@)],
         UNCHANGED <<toServer, threads, answered, owner>>,
         client'.counter = client.counter
  PROVE  WireInv'
<1>1. PICK c \in Conn : c = client.conn
  OBVIOUS
<1>2. ASSUME NEW d \in Conn
      PROVE  TidyConn(d)'
  <2>1. /\ toServer[d] \in Seq(RequestFrame) /\ toClient[d] \in Seq(ClientFrame)
        /\ answered[d] \in [Id -> Nat] /\ client.counter \in Id
        /\ (owner[d] = "client") \in BOOLEAN
    BY ConnTypes
  <2>2. PICK out \in Seq(ClientFrame) : out = toClient[d]
    BY <2>1
  <2>3. Tidy(toServer[d], out, RunIds(d), answered[d], client.counter, owner[d] = "client")
    BY <2>2 DEF WireInv, TidyConn
  <2>4. /\ Tidy(toServer[d], <<>>, RunIds(d), answered[d], client.counter,
                owner[d] = "client")
        /\ out # <<>> => Tidy(toServer[d], Tail(out), RunIds(d), answered[d],
                              client.counter, owner[d] = "client")
    BY <2>1, <2>3, RestTidy
  <2>5. \/ toClient'[d] = out \/ toClient'[d] = <<>>
        \/ out # <<>> /\ toClient'[d] = Tail(out)
    BY <1>1, <2>2 DEF GatewayTypes, WireTypes
  <2>6. Tidy(toServer[d], toClient'[d], RunIds(d), answered[d], client.counter,
             owner[d] = "client")
    BY <2>3, <2>4, <2>5
  <2>7. RunIds(d)' = RunIds(d)
    BY DEF RunIds
  <2> QED
    BY <2>6, <2>7 DEF TidyConn
<1>3. OneThread'
  BY DEF WireInv, OneThread
<1> QED
  BY <1>2, <1>3 DEF WireInv

\* The steps of the client.
LEMMA ClientStepTidy ==
  ASSUME GatewayTypes, LinkInv, WireInv, ClientStep
  PROVE  WireInv'
<1>0. client \in ClientRecord /\ client.counter \in Id /\ Id = 0 .. MaxIds /\ MaxIds \in Nat
  BY ConstantTypes DEF GatewayTypes, ClientTypes, ClientRecord, Id
<1>1. CASE Connect \/ ConnectSteps \/ Deliver \/ Disconnect
           \/ \E k \in Caller : FinishCall(k) \/ CallExpires(k) \/ EraseCall(k)
  <2>1. UNCHANGED <<toServer, toClient, threads, answered, owner>>
    BY <1>1 DEF Connect, ConnectSteps, Deliver, Disconnect, FinishCall, CallExpires,
                EraseCall, serverVars, wire
  <2>2. client'.counter = client.counter
    BY <1>0, <1>1 DEF Connect, ConnectSteps, Deliver, Disconnect, FinishCall, CallExpires,
                EraseCall, ClientRecord
  <2> QED
    BY <2>1, <2>2, QuietKeepsTidy
<1>2. CASE OpenLink
  <2>1. /\ NextConn \in Conn /\ owner' = [owner EXCEPT ![NextConn] = "client"]
        /\ UNCHANGED <<toServer, toClient, threads, answered>>
        /\ client'.counter = client.counter
    BY <1>0, <1>2 DEF OpenLink, serverVars, ClientRecord
  <2> QED
    BY <2>1, NewLinkKeepsTidy
<1>3. CASE ClientClosed
  <2>1. /\ client.conn \in Conn /\ toClient' = [toClient EXCEPT ![client.conn] = <<>>]
        /\ UNCHANGED <<toServer, threads, answered, owner>>
        /\ client'.counter = client.counter
    BY <1>0, <1>3 DEF ClientClosed, serverVars, ClientRecord
  <2> QED
    BY <2>1, TakeKeepsTidy
<1>4. CASE ClientResponse \/ (ClientEvent /\ UNCHANGED <<client, toServer>>)
  <2>1. /\ client.conn \in Conn /\ toClient[client.conn] # <<>>
        /\ toClient' = [toClient EXCEPT ![client.conn] = Tail(@)]
        /\ UNCHANGED <<toServer, threads, answered, owner>>
    BY <1>4, IncomingFrame DEF ClientResponse, ClientEvent, serverVars
  <2>2. client'.counter = client.counter
    BY <1>0, <1>4 DEF ClientResponse, ClientEvent, ClientRecord
  <2> QED
    BY <2>1, <2>2, TakeKeepsTidy
<1>5. CASE ClientEvent /\ ~ UNCHANGED <<client, toServer>>
  <2> DEFINE f == Hello(client.counter + 1, TokenOk, {"operator.read", "operator.write"})
             in == toServer'
             mid == [toClient EXCEPT ![client.conn] = Tail(@)]
  <2>1. /\ client.conn \in Conn /\ toClient[client.conn] # <<>>
        /\ toClient' = [toClient EXCEPT ![client.conn] = Tail(@)]
        /\ UNCHANGED <<threads, answered, owner>>
        /\ client.counter < MaxIds /\ Send(f)
        /\ client' = [client EXCEPT !.counter = @ + 1, !.helloId = client.counter + 1]
    BY <1>5, IncomingFrame DEF ClientEvent, serverVars
  <2>2. client.counter + 1 \in Id /\ client'.counter = client.counter + 1
    BY <1>0, <2>1 DEF ClientRecord
  <2>3. f \in RequestFrame /\ f.id = client.counter + 1
    <3>1. {"operator.read", "operator.write"} \in SUBSET ReadScopes
      BY DEF ReadScopes
    <3> QED
      BY <2>2, <3>1, FrameTypes, ConstantTypes DEF Hello
  <2> HIDE DEF f
  <2>4. PICK c \in Conn : c = client.conn
    BY <2>1
  <2>5. ASSUME NEW d \in Conn
        PROVE  TidyConn(d)'
    <3>1. Tidy(toServer[d], toClient[d], RunIds(d), answered[d], client.counter,
               owner[d] = "client")
      BY DEF WireInv, TidyConn
    <3>2. toServer'[d] = toServer[d] \/ toServer'[d] = Append(toServer[d], f)
      BY <2>1, <2>4 DEF Send, GatewayTypes, WireTypes
    <3>3. \/ toClient'[d] = toClient[d]
          \/ toClient[d] # <<>> /\ toClient'[d] = Tail(toClient[d])
      BY <2>1, <2>4 DEF GatewayTypes, WireTypes
    <3>4. RunIds(d)' = RunIds(d)
      BY <2>1 DEF RunIds
    <3>8. /\ toServer[d] \in Seq(RequestFrame) /\ toClient[d] \in Seq(ClientFrame)
          /\ answered[d] \in [Id -> Nat] /\ client.counter \in Id
          /\ (owner[d] = "client") \in BOOLEAN
      BY ConnTypes
    <3>9. /\ Tidy(toServer[d], toClient[d], RunIds(d), answered[d], client.counter + 1,
                  owner[d] = "client")
          /\ Tidy(Append(toServer[d], f), toClient[d], RunIds(d), answered[d],
                  client.counter + 1, owner[d] = "client")
      BY <2>2, <2>3, <3>1, <3>8, SendTidy
    <3>5. Tidy(toServer'[d], toClient[d], RunIds(d), answered[d], client.counter + 1,
               owner[d] = "client")
      BY <3>2, <3>9
    <3>6. toServer'[d] \in Seq(RequestFrame)
      BY <2>1, <2>3, SendTypes
    <3>7. Tidy(toServer'[d], toClient'[d], RunIds(d), answered[d], client.counter + 1,
               owner[d] = "client")
      <4>1. PICK out \in Seq(ClientFrame) : out = toClient[d]
        BY <3>8
      <4>2. toServer'[d] \in Seq(RequestFrame)
        BY <3>6
      <4>3. Tidy(toServer'[d], out, RunIds(d), answered[d], client.counter + 1,
                 owner[d] = "client")
        BY <3>5, <4>1
      <4>4. out # <<>> => Tidy(toServer'[d], Tail(out), RunIds(d), answered[d],
                               client.counter + 1, owner[d] = "client")
        BY <2>2, <3>8, <4>2, <4>3, RestTidy
      <4> QED
        BY <3>3, <4>1, <4>3, <4>4
    <3> QED
      BY <2>1, <2>2, <3>4, <3>7 DEF TidyConn
  <2>6. OneThread'
    BY <2>1 DEF WireInv, OneThread
  <2> QED
    BY <2>5, <2>6 DEF WireInv
<1>6. ASSUME NEW k \in Caller, NEW m \in CallMethods, StartCall(k, m)
      PROVE  WireInv'
  <2> DEFINE f == Request(client.counter + 1, m)
  <2>1. /\ Send(f) /\ UNCHANGED <<toClient, threads, answered, owner>>
        /\ client.counter + 1 <= MaxIds
        /\ client' = [client EXCEPT !.counter = client.counter + 1]
    BY <1>6 DEF StartCall, serverVars
  <2>2. client.counter + 1 \in Id /\ client'.counter = client.counter + 1
    BY <1>0, <2>1 DEF ClientRecord
  <2>3. f \in RequestFrame /\ f.id = client.counter + 1
    <3>1. m \in Method
      BY DEF Method
    <3> QED
      BY <2>2, <3>1, FrameTypes DEF Request
  <2> HIDE DEF f
  <2> QED
    BY <2>1, <2>2, <2>3, SendKeepsTidy
<1> QED
  BY <1>1, <1>2, <1>3, <1>4, <1>5, <1>6 DEF ClientStep

\* The steps of the peers, the network and the clock.
LEMMA OutsideTidy ==
  ASSUME GatewayTypes, LinkInv, WireInv,
         \/ PeerOpens \/ Tick \/ UNCHANGED vars
         \/ \E c \in Conn : PeerSends(c) \/ CutLink(c)
  PROVE  WireInv'
<1>1. CASE PeerOpens
  <2>1. /\ NextConn \in Conn /\ owner' = [owner EXCEPT ![NextConn] = "peer"]
        /\ UNCHANGED <<toServer, toClient, threads, answered, client>>
    BY <1>1 DEF PeerOpens, serverVars, clientVars
  <2>2. client'.counter = client.counter
    BY <2>1
  <2> QED
    BY <2>1, <2>2, NewLinkKeepsTidy
<1>2. ASSUME NEW c \in Conn, PeerSends(c)
      PROVE  WireInv'
  <2>1. PICK f \in PeerRequests : toServer' = [toServer EXCEPT ![c] = Append(@, f)]
    BY <1>2 DEF PeerSends
  <2>2. /\ owner[c] = "peer" /\ UNCHANGED <<toClient, answered, threads, owner>>
        /\ client'.counter = client.counter
    BY <1>2 DEF PeerSends, serverVars, clientVars
  <2>3. f \in RequestFrame /\ f.id = 0
    BY ConstantTypes
  <2>4. Tidy(toServer[c], toClient[c], RunIds(c), answered[c], client.counter,
             owner[c] = "client")
    BY DEF WireInv, TidyConn
  <2>5. Tidy(Append(toServer[c], f), toClient[c], RunIds(c), answered[c], client.counter,
             owner[c] = "client")
    BY <2>2, <2>3, <2>4, ConnTypes, SendTidy
  <2>6. /\ toServer' = [toServer EXCEPT ![c] = Append(toServer[c], f)]
        /\ toClient' = [toClient EXCEPT ![c] = toClient[c]]
        /\ answered' = [answered EXCEPT ![c] = answered[c]]
    BY <2>1, <2>2 DEF GatewayTypes, ServerTypes, WireTypes
  <2> QED
    BY <2>2, <2>5, <2>6, OneConnStep
<1>3. CASE Tick \/ UNCHANGED vars \/ \E c \in Conn : CutLink(c)
  <2>1. UNCHANGED <<toServer, toClient, threads, answered, owner, client>>
    BY <1>3 DEF Tick, vars, CutLink, serverVars, clientVars, wire
  <2>2. client'.counter = client.counter
    BY <2>1
  <2> QED
    BY <2>1, <2>2, QuietKeepsTidy
<1> QED
  BY <1>1, <1>2, <1>3

(***************************************************************************)
(* Whose answer an answer is.                                              *)
(***************************************************************************)
FramesOf(s) == {s[p] : p \in DOMAIN s}

\* A call that runs with the id i is one of the method m.
Asked(i, m) ==
  \A k \in Caller : call[k].pc # "idle" /\ call[k].id = i => call[k].method = m

\* Whatever carries an id, a request, an answer, a handler thread or the socket
\* thread of the client, is about the method of the call with that id.
AskedOnWire ==
  /\ \A c \in Conn : \A f \in FramesOf(toServer[c]) : Asked(f.id, f.method)
  /\ \A c \in Conn : \A f \in FramesOf(toClient[c]) : f.type = "res" => Asked(f.id, f.method)
  /\ \A t \in threads : Asked(t.id, "agent.request")

AskedByClient ==
  /\ reader # NoFrame => reader.id <= client.counter /\ Asked(reader.id, reader.method)
  /\ \A k \in Caller : IF call[k].pc = "idle" THEN call[k] = NoCall
                       ELSE call[k].id \in 1 .. client.counter
  /\ OwnAnswer

AskedInv == AskedOnWire /\ AskedByClient

\* The frames of a sequence that loses or gets one.
LEMMA FramesLaws ==
  /\ FramesOf(<<>>) = {}
  /\ \A S : \A s \in Seq(S) :
       /\ s # <<>> => Head(s) \in FramesOf(s) /\ FramesOf(Tail(s)) \subseteq FramesOf(s)
       /\ \A f \in S : FramesOf(Append(s, f)) \subseteq FramesOf(s) \cup {f}
<1>1. FramesOf(<<>>) = {}
  BY DEF FramesOf
<1>2. ASSUME NEW S, NEW s \in Seq(S), s # <<>>
      PROVE  Head(s) \in FramesOf(s) /\ FramesOf(Tail(s)) \subseteq FramesOf(s)
  <2>1. /\ Len(s) \in Nat /\ DOMAIN s = 1 .. Len(s) /\ DOMAIN Tail(s) = 1 .. Len(s) - 1
        /\ \A p \in DOMAIN Tail(s) : Tail(s)[p] = s[p + 1]
        /\ Head(s) = s[1] /\ 1 \in DOMAIN s
    BY <1>2, SeqDomains
  <2>2. \A p \in DOMAIN Tail(s) : p + 1 \in DOMAIN s /\ Tail(s)[p] = s[p + 1]
    BY <2>1
  <2> QED
    BY <2>1, <2>2 DEF FramesOf
<1>3. ASSUME NEW S, NEW s \in Seq(S), NEW f \in S
      PROVE  FramesOf(Append(s, f)) \subseteq FramesOf(s) \cup {f}
  <2> DEFINE a == Append(s, f)
  <2>1. /\ Len(s) \in Nat /\ DOMAIN s = 1 .. Len(s) /\ DOMAIN a = 1 .. Len(s) + 1
        /\ a[Len(s) + 1] = f /\ \A p \in DOMAIN s : a[p] = s[p]
    BY SeqDomains
  <2> HIDE DEF a
  <2>2. \A p \in DOMAIN a : (p \in DOMAIN s /\ a[p] = s[p]) \/ a[p] = f
    BY <2>1
  <2>3. FramesOf(a) \subseteq FramesOf(s) \cup {f}
    BY <2>2 DEF FramesOf
  <2> QED
    BY <2>3 DEF a
<1> QED
  BY <1>1, <1>2, <1>3

\* Every id on its way is one that the client has given.
LEMMA IdsOnWire ==
  ASSUME GatewayTypes, WireInv
  PROVE  /\ \A c \in Conn : \A f \in FramesOf(toServer[c]) : f.id \in 0 .. client.counter
         /\ \A c \in Conn : \A f \in FramesOf(toClient[c]) :
              f.type = "res" => f.id \in 0 .. client.counter
         /\ \A t \in threads : t.id \in 0 .. client.counter
<1>1. Id \subseteq Nat /\ client.counter \in Id
      /\ \A i \in Id : i <= client.counter => i \in 0 .. client.counter
  <2>1. Id \subseteq Nat /\ client.counter \in Id
    BY ConstantTypes DEF GatewayTypes, ClientTypes, ClientRecord
  <2>2. ASSUME NEW n \in Nat, NEW i \in Nat, i <= n
        PROVE  i \in 0 .. n
    BY <2>2
  <2> QED
    BY <2>1, <2>2
<1>2. ASSUME NEW c \in Conn
      PROVE  /\ Tidy(toServer[c], toClient[c], RunIds(c), answered[c], client.counter,
                     owner[c] = "client")
             /\ toServer[c] \in Seq(RequestFrame) /\ toClient[c] \in Seq(ClientFrame)
  BY ConnTypes DEF WireInv, TidyConn
<1>3. ASSUME NEW c \in Conn, NEW f \in FramesOf(toServer[c])
      PROVE  f.id \in 0 .. client.counter
  <2>1. PICK p \in DOMAIN toServer[c] : f = toServer[c][p]
    BY DEF FramesOf
  <2>2. f \in RequestFrame
    BY <1>2, <2>1, SeqDomains
  <2>3. f.id \in Id /\ Has(toServer[c], f.id)
    BY <2>1, <2>2 DEF RequestFrame, Has
  <2>4. f.id <= client.counter
    BY <1>2, <2>3 DEF Tidy
  <2> QED
    BY <1>1, <2>3, <2>4
<1>4. ASSUME NEW c \in Conn, NEW f \in FramesOf(toClient[c]), f.type = "res"
      PROVE  f.id \in 0 .. client.counter
  <2>1. PICK p \in DOMAIN toClient[c] : f = toClient[c][p]
    BY DEF FramesOf
  <2>2. f \in ClientFrame
    BY <1>2, <2>1, SeqDomains
  <2>3. f.id \in Id /\ HasRes(toClient[c], f.id)
    BY <1>4, <2>1, <2>2 DEF ClientFrame, HasRes
  <2>4. f.id <= client.counter
    <3>1. f.id = 0 \/ ~ (client.counter < f.id)
      BY <1>2, <2>3 DEF Tidy
    <3>2. \A i, n \in Nat : i = 0 \/ ~ (n < i) => i <= n
      OBVIOUS
    <3> QED
      BY <1>1, <2>3, <3>1, <3>2
  <2> QED
    BY <1>1, <2>3, <2>4
<1>5. ASSUME NEW t \in threads
      PROVE  t.id \in 0 .. client.counter
  <2>1. t.conn \in Conn /\ t.id \in Id /\ t.id \in RunIds(t.conn)
    BY DEF GatewayTypes, ServerTypes, ThreadRecord, RunIds
  <2>2. t.id <= client.counter
    BY <1>2, <2>1 DEF Tidy
  <2> QED
    BY <1>1, <2>1, <2>2
<1> QED
  BY <1>3, <1>4, <1>5

\* A step of the server passes on what was asked.
LEMMA PassedOn ==
  ASSUME AskedInv, UNCHANGED <<call, reader, client>>,
         \A c \in Conn : FramesOf(toServer'[c]) \subseteq FramesOf(toServer[c]),
         \A c \in Conn : \A f \in FramesOf(toClient'[c]) :
           f \in FramesOf(toClient[c]) \/ f.type # "res" \/ Asked(f.id, f.method),
         \A t \in threads' : Asked(t.id, "agent.request")
  PROVE  AskedInv'
<1>1. \A i, m : Asked(i, m)' <=> Asked(i, m)
  BY DEF Asked
<1>2. AskedOnWire'
  BY <1>1 DEF AskedInv, AskedOnWire
<1>3. AskedByClient'
  BY <1>1 DEF AskedInv, AskedByClient, OwnAnswer
<1> QED
  BY <1>2, <1>3 DEF AskedInv

\* What may be put on the way to a client.
LEMMA PutFrames ==
  ASSUME GatewayTypes, NEW c \in Conn, NEW f \in ClientFrame,
         toClient' = toClient \/ toClient' = Put(toClient, c, f)
  PROVE  \A d \in Conn : FramesOf(toClient'[d]) \subseteq FramesOf(toClient[d]) \cup {f}
<1> SUFFICES ASSUME NEW d \in Conn
             PROVE  FramesOf(toClient'[d]) \subseteq FramesOf(toClient[d]) \cup {f}
  OBVIOUS
<1>1. PICK out \in Seq(ClientFrame) : out = toClient[d]
  BY ConnTypes
<1>2. FramesOf(Append(out, f)) \subseteq FramesOf(out) \cup {f}
  BY FramesLaws
<1>3. toClient' = toClient \/ toClient' = [toClient EXCEPT ![c] = Append(toClient[c], f)]
  BY PutTypes
<1>4. toClient \in [Conn -> Seq(ClientFrame)]
  BY DEF GatewayTypes, WireTypes
<1>5. toClient'[d] = out \/ toClient'[d] = Append(out, f)
  BY <1>1, <1>3, <1>4
<1> QED
  BY <1>1, <1>2, <1>5

\* An answer to c, of which the first request is taken or none.
LEMMA AnswerPassedOn ==
  ASSUME GatewayTypes, AskedInv, NEW c \in Conn, NEW f \in ClientFrame, Answer(c, f),
         Asked(f.id, f.method), UNCHANGED <<call, reader, client>>,
         \A d \in Conn : FramesOf(toServer'[d]) \subseteq FramesOf(toServer[d]),
         threads' \subseteq threads
  PROVE  AskedInv'
<1>3. \A d \in Conn : FramesOf(toClient'[d]) \subseteq FramesOf(toClient[d]) \cup {f}
  BY PutFrames DEF Answer
<1>4. \A t \in threads' : Asked(t.id, "agent.request")
  BY DEF AskedInv, AskedOnWire
<1> QED
  BY <1>3, <1>4, PassedOn

\* The steps of the server.
LEMMA ServerStepAsked ==
  ASSUME GatewayTypes, AskedInv, ServerStep
  PROVE  AskedInv'
<1>1. CASE Start \/ StopServer \/ StopJoin
  BY <1>1, PassedOn DEF Start, StopServer, StopJoin, clientVars, wire, AskedInv, AskedOnWire
<1>2. ASSUME NEW c \in Conn
      PROVE  toServer[c] \in Seq(RequestFrame) /\ toClient[c] \in Seq(ClientFrame)
  BY ConnTypes
<1>3. ASSUME NEW c \in Conn, OnOpen(c)
      PROVE  AskedInv'
  <2>1. /\ toClient' = Put(toClient, c, Challenge)
        /\ UNCHANGED <<toServer, threads, call, reader, client>>
    BY <1>3 DEF OnOpen, clientVars
  <2>2. Challenge \in ClientFrame /\ Challenge.type # "res"
    BY FrameTypes, ConstantTypes DEF Challenge
  <2>4. \A d \in Conn : FramesOf(toClient'[d]) \subseteq FramesOf(toClient[d]) \cup {Challenge}
    BY <2>1, <2>2, PutFrames
  <2> QED
    BY <2>1, <2>2, <2>4, PassedOn DEF AskedInv, AskedOnWire
<1>4. ASSUME NEW c \in Conn, OnClose(c)
      PROVE  AskedInv'
  <2>1. /\ toServer' = [toServer EXCEPT ![c] = <<>>]
        /\ UNCHANGED <<toClient, threads, call, reader, client>>
    BY <1>4 DEF OnClose, clientVars
  <2>2. \A d \in Conn : toServer'[d] = toServer[d] \/ toServer'[d] = <<>>
    BY <2>1 DEF GatewayTypes, WireTypes
  <2>3. \A d \in Conn : FramesOf(toServer'[d]) \subseteq FramesOf(toServer[d])
    BY <2>2, FramesLaws
  <2> QED
    BY <2>1, <2>3, PassedOn DEF AskedInv, AskedOnWire
<1>5. ASSUME NEW c \in Conn, toServer[c] # <<>>, toServer' = [toServer EXCEPT ![c] = Tail(@)]
      PROVE  /\ Head(toServer[c]) \in RequestFrame
             /\ Asked(Head(toServer[c]).id, Head(toServer[c]).method)
             /\ \A d \in Conn : FramesOf(toServer'[d]) \subseteq FramesOf(toServer[d])
  <2>1. Head(toServer[c]) \in FramesOf(toServer[c])
    BY <1>2, <1>5, FramesLaws
  <2>2. FramesOf(Tail(toServer[c])) \subseteq FramesOf(toServer[c])
    BY <1>2, <1>5, FramesLaws
  <2>3. \A d \in Conn : toServer'[d] = IF d = c THEN Tail(toServer[c]) ELSE toServer[d]
    BY <1>5 DEF GatewayTypes, WireTypes
  <2>4. \A d \in Conn : FramesOf(toServer'[d]) \subseteq FramesOf(toServer[d])
    BY <2>2, <2>3
  <2> QED
    BY <1>5, <2>1, <2>4, TakenFrame DEF AskedInv, AskedOnWire
<1>6. ASSUME NEW c \in Conn, toServer[c] # <<>>, toServer' = [toServer EXCEPT ![c] = Tail(@)],
             NEW code \in Code,
             Answer(c, Response(Head(toServer[c]).id, Head(toServer[c]).method, code)),
             UNCHANGED <<threads, call, reader, client>>
      PROVE  AskedInv'
  <2> DEFINE h == Head(toServer[c])
             f == Response(h.id, h.method, code)
  <2>1. /\ h \in RequestFrame /\ Asked(h.id, h.method)
        /\ \A d \in Conn : FramesOf(toServer'[d]) \subseteq FramesOf(toServer[d])
    BY <1>5, <1>6
  <2> HIDE DEF h
  <2>2. f \in ClientFrame
    BY <2>1, FrameTypes DEF RequestFrame, Answered
  <2>3. f.id = h.id /\ f.method = h.method
    BY DEF Response
  <2>4. Answer(c, f)
    BY <1>6 DEF h
  <2> HIDE DEF f
  <2> QED
    BY <1>6, <2>1, <2>2, <2>3, <2>4, AnswerPassedOn
<1>7. ASSUME NEW c \in Conn, HandleHello(c)
      PROVE  AskedInv'
  <2>1. PICK code \in Code :
          Answer(c, Response(Head(toServer[c]).id, Head(toServer[c]).method, code))
    BY <1>7 DEF HandleHello, Code
  <2>2. /\ toServer[c] # <<>> /\ toServer' = [toServer EXCEPT ![c] = Tail(@)]
        /\ UNCHANGED <<threads, call, reader, client>>
    BY <1>7 DEF HandleHello, clientVars
  <2> QED
    BY <2>1, <2>2, <1>6
<1>8. ASSUME NEW c \in Conn, RefuseRequest(c)
      PROVE  AskedInv'
  <2>1. \/ UNCHANGED toClient
        \/ \E code \in Code :
             Answer(c, Response(Head(toServer[c]).id, Head(toServer[c]).method, code))
    <3>1. \A method : Verdict(c, method) \in Code /\ "RATE_LIMITED" \in Code
      BY DEF Verdict, Code
    <3> QED
      BY <1>8, <3>1 DEF RefuseRequest
  <2>2. /\ toServer[c] # <<>> /\ toServer' = [toServer EXCEPT ![c] = Tail(@)]
        /\ UNCHANGED <<threads, call, reader, client>>
    BY <1>8 DEF RefuseRequest, clientVars
  <2>3. CASE UNCHANGED toClient
    BY <2>2, <2>3, <1>5, PassedOn DEF AskedInv, AskedOnWire
  <2> QED
    BY <2>1, <2>2, <2>3, <1>6
<1>9. ASSUME NEW c \in Conn, NEW code \in {"ok", "HANDLER_ERROR"}, RunRequest(c, code)
      PROVE  AskedInv'
  <2> DEFINE f == Head(toServer[c])
  <2>1. /\ toServer[c] # <<>> /\ toServer' = [toServer EXCEPT ![c] = Tail(@)]
        /\ UNCHANGED <<call, reader, client>>
    BY <1>9 DEF RunRequest, clientVars
  <2>2. CASE Answer(c, Response(f.id, f.method, code)) /\ UNCHANGED threads
    BY <2>1, <2>2, <1>6 DEF Code
  <2>3. CASE /\ f.method \in AsyncMethods /\ UNCHANGED toClient
             /\ threads' = threads \cup {[conn |-> c, id |-> f.id, said |-> 0]}
    <3>1. /\ Asked(f.id, f.method)
          /\ \A d \in Conn : FramesOf(toServer'[d]) \subseteq FramesOf(toServer[d])
      BY <2>1, <1>5
    <3>2. f.method = "agent.request"
      BY <2>3 DEF AsyncMethods
    <3> HIDE DEF f
    <3>3. \A t \in threads' : Asked(t.id, "agent.request")
      BY <2>3, <3>1, <3>2 DEF AskedInv, AskedOnWire
    <3> QED
      BY <2>1, <2>3, <3>1, <3>3, PassedOn
  <2> QED
    BY <1>9, <2>2, <2>3 DEF RunRequest
<1>10. ASSUME NEW t \in threads, StreamEvent(t)
       PROVE  AskedInv'
  <2>1. /\ threads' = (threads \ {t}) \cup {[t EXCEPT !.said = 1]}
        /\ toClient' = toClient \/ toClient' = Put(toClient, t.conn, Event(t.id))
        /\ UNCHANGED <<toServer, call, reader, client>>
    BY <1>10 DEF StreamEvent, clientVars
  <2>2. t.conn \in Conn /\ t.id \in Id /\ t \in ThreadRecord
    BY DEF GatewayTypes, ServerTypes, ThreadRecord
  <2>3. Event(t.id) \in ClientFrame /\ Event(t.id).type # "res"
    BY <2>2, FrameTypes DEF Event
  <2>5. \A d \in Conn : FramesOf(toClient'[d]) \subseteq FramesOf(toClient[d]) \cup {Event(t.id)}
    <3> DEFINE f == Event(t.id)
    <3>1. f \in ClientFrame /\ (toClient' = toClient \/ toClient' = Put(toClient, t.conn, f))
      BY <2>1, <2>3
    <3> HIDE DEF f
    <3>2. \A d \in Conn : FramesOf(toClient'[d]) \subseteq FramesOf(toClient[d]) \cup {f}
      BY <2>2, <3>1, PutFrames
    <3> QED
      BY <3>2 DEF f
  <2>6. [t EXCEPT !.said = 1].id = t.id
    BY <2>2 DEF ThreadRecord
  <2>7. \A u \in threads' : Asked(u.id, "agent.request")
    BY <2>1, <2>6 DEF AskedInv, AskedOnWire
  <2> QED
    BY <2>1, <2>3, <2>5, <2>7, PassedOn
<1>11. ASSUME NEW t \in threads, NEW code \in {"ok", "HANDLER_ERROR"}, HandlerReturns(t, code)
       PROVE  AskedInv'
  <2> DEFINE f == Response(t.id, "agent.request", code)
  <2>1. /\ threads' \subseteq threads /\ UNCHANGED <<toServer, call, reader, client>>
        /\ UNCHANGED toClient \/ Answer(t.conn, f)
    BY <1>11 DEF HandlerReturns, clientVars
  <2>2. t.conn \in Conn /\ t.id \in Id
    BY DEF GatewayTypes, ServerTypes, ThreadRecord
  <2>3. f \in ClientFrame
    BY <2>2, FrameTypes DEF Answered, Code
  <2>4. Asked(t.id, "agent.request") /\ f.id = t.id /\ f.method = "agent.request"
    BY DEF AskedInv, AskedOnWire, Response
  <2> HIDE DEF f
  <2>5. CASE Answer(t.conn, f)
    BY <2>1, <2>2, <2>3, <2>4, <2>5, AnswerPassedOn
  <2>6. CASE UNCHANGED toClient
    BY <2>1, <2>6, PassedOn DEF AskedInv, AskedOnWire
  <2> QED
    BY <2>1, <2>5, <2>6
<1> QED
  BY <1>1, <1>3, <1>4, <1>7, <1>8, <1>9, <1>10, <1>11 DEF ServerStep

\* A step of the client or of the network: what was asked stays asked, and what
\* is sent is asked.
LEMMA StaysAsked ==
  ASSUME GatewayTypes, WireInv, AskedInv, UNCHANGED threads,
         \A i, m : i \in 0 .. client.counter /\ Asked(i, m) => Asked(i, m)',
         \A c \in Conn : FramesOf(toClient'[c]) \subseteq FramesOf(toClient[c]),
         \A c \in Conn : \A f \in FramesOf(toServer'[c]) :
           f \in FramesOf(toServer[c]) \/ Asked(f.id, f.method)'
  PROVE  AskedOnWire'
<1>1. \A c \in Conn : \A f \in FramesOf(toServer'[c]) : Asked(f.id, f.method)'
  BY IdsOnWire DEF AskedInv, AskedOnWire
<1>2. \A c \in Conn : \A f \in FramesOf(toClient'[c]) :
        f.type = "res" => Asked(f.id, f.method)'
  BY IdsOnWire DEF AskedInv, AskedOnWire
<1>3. \A t \in threads : Asked(t.id, "agent.request")'
  BY IdsOnWire DEF AskedInv, AskedOnWire
<1> QED
  BY <1>1, <1>2, <1>3 DEF AskedOnWire

\* The frame that the client sends.
LEMMA SendFrames ==
  ASSUME GatewayTypes, NEW f \in RequestFrame, Send(f)
  PROVE  \A d \in Conn : FramesOf(toServer'[d]) \subseteq FramesOf(toServer[d]) \cup {f}
<1> SUFFICES ASSUME NEW d \in Conn
             PROVE  FramesOf(toServer'[d]) \subseteq FramesOf(toServer[d]) \cup {f}
  OBVIOUS
<1>1. PICK in \in Seq(RequestFrame) : in = toServer[d]
  BY ConnTypes
<1>2. FramesOf(Append(in, f)) \subseteq FramesOf(in) \cup {f}
  BY FramesLaws
<1>3. toServer \in [Conn -> Seq(RequestFrame)] /\ client.conn \in Conn \cup {0}
  BY DEF GatewayTypes, WireTypes, ClientTypes, ClientRecord
<1>4. toServer'[d] = in \/ toServer'[d] = Append(in, f)
  BY <1>1, <1>3 DEF Send
<1> QED
  BY <1>1, <1>2, <1>4

\* The frames that the client takes or loses.
LEMMA LessFrames ==
  ASSUME GatewayTypes, client.conn \in Conn,
         \/ toClient' = [toClient EXCEPT ![client.conn] = <<>>]
         \/ /\ toClient[client.conn] # <<>>
            /\ toClient' = [toClient EXCEPT ![client.conn] = Tail(@)]
  PROVE  \A d \in Conn : FramesOf(toClient'[d]) \subseteq FramesOf(toClient[d])
<1> SUFFICES ASSUME NEW d \in Conn
             PROVE  FramesOf(toClient'[d]) \subseteq FramesOf(toClient[d])
  OBVIOUS
<1>1. PICK out \in Seq(ClientFrame) : out = toClient[d]
  BY ConnTypes
<1>2. /\ FramesOf(<<>>) \subseteq FramesOf(out)
      /\ out # <<>> => FramesOf(Tail(out)) \subseteq FramesOf(out)
  BY FramesLaws
<1>3. toClient \in [Conn -> Seq(ClientFrame)]
  BY DEF GatewayTypes, WireTypes
<1>4. toClient'[d] = out \/ toClient'[d] = <<>> \/ (out # <<>> /\ toClient'[d] = Tail(out))
  BY <1>1, <1>3
<1> QED
  BY <1>1, <1>2, <1>4

\* The steps of the client.
LEMMA ClientStepAsked ==
  ASSUME GatewayTypes, WireInv, AskedInv, ClientStep
  PROVE  AskedInv'
<1>0. /\ client \in ClientRecord /\ client.counter \in Id /\ Id = 0 .. MaxIds /\ MaxIds \in Nat
      /\ call \in [Caller -> CallRecord] /\ reader \in ClientFrame
  BY ConstantTypes DEF GatewayTypes, ClientTypes, ClientRecord, Id
<1>1. ASSUME UNCHANGED call
      PROVE  \A i, m : Asked(i, m)' <=> Asked(i, m)
  BY <1>1 DEF Asked
<1>2. \A m : Asked(client.counter + 1, m)
  BY <1>0 DEF Asked, AskedInv, AskedByClient
<1>3. ASSUME UNCHANGED <<call, reader>>, client'.counter \in {client.counter, client.counter + 1}
      PROVE  AskedByClient'
  <2>1. /\ reader # NoFrame => reader.id <= client.counter /\ Asked(reader.id, reader.method)
        /\ \A k \in Caller : IF call[k].pc = "idle" THEN call[k] = NoCall
                             ELSE call[k].id \in 1 .. client.counter
        /\ OwnAnswer
    BY DEF AskedInv, AskedByClient
  <2>2. reader.id \in Nat /\ client.counter \in Nat /\ client'.counter \in Nat
    BY <1>0, <1>3, ConstantTypes DEF ClientFrame
  <2>3. reader # NoFrame => reader.id <= client'.counter /\ Asked(reader.id, reader.method)'
    BY <2>1, <2>2, <1>1, <1>3
  <2>4. \A k \in Caller : IF call[k].pc = "idle" THEN call[k] = NoCall
                          ELSE call[k].id \in 1 .. client'.counter
    BY <2>1, <2>2, <1>3
  <2>5. OwnAnswer'
    BY <2>1, <1>3 DEF OwnAnswer
  <2> QED
    BY <1>3, <2>3, <2>4, <2>5 DEF AskedByClient
<1>4. CASE Connect \/ ConnectSteps \/ Disconnect \/ OpenLink
  <2>1. UNCHANGED <<toServer, toClient, threads, call, reader>>
    BY <1>4 DEF Connect, ConnectSteps, Disconnect, OpenLink, serverVars, wire
  <2>2. client'.counter = client.counter
    BY <1>0, <1>4 DEF Connect, ConnectSteps, Disconnect, OpenLink, ClientRecord
  <2> QED
    BY <2>1, <2>2, <1>1, <1>3, StaysAsked DEF AskedInv
<1>5. CASE ClientClosed
  <2>1. /\ client.conn \in Conn /\ toClient' = [toClient EXCEPT ![client.conn] = <<>>]
        /\ UNCHANGED <<toServer, threads, call, reader>>
        /\ client'.counter = client.counter
    BY <1>0, <1>5 DEF ClientClosed, serverVars, ClientRecord
  <2>2. \A d \in Conn : FramesOf(toClient'[d]) \subseteq FramesOf(toClient[d])
    BY <2>1, LessFrames
  <2> QED
    BY <2>1, <2>2, <1>1, <1>3, StaysAsked DEF AskedInv
<1>6. CASE ClientEvent
  <2> DEFINE f == Hello(client.counter + 1, TokenOk, {"operator.read", "operator.write"})
  <2>1. /\ client.conn \in Conn /\ toClient[client.conn] # <<>>
        /\ toClient' = [toClient EXCEPT ![client.conn] = Tail(@)]
        /\ UNCHANGED <<threads, call, reader>>
        /\ \/ UNCHANGED <<client, toServer>>
           \/ /\ client.counter < MaxIds /\ Send(f)
              /\ client' = [client EXCEPT !.counter = @ + 1, !.helloId = client.counter + 1]
    BY <1>6, IncomingFrame DEF ClientEvent, serverVars
  <2>2. \A d \in Conn : FramesOf(toClient'[d]) \subseteq FramesOf(toClient[d])
    BY <2>1, LessFrames
  <2>3. client'.counter \in {client.counter, client.counter + 1}
    BY <1>0, <2>1 DEF ClientRecord
  <2>4. ASSUME Send(f), client.counter < MaxIds, NEW d \in Conn,
               NEW g \in FramesOf(toServer'[d])
        PROVE  g \in FramesOf(toServer[d]) \/ Asked(g.id, g.method)
    <3>1. f \in RequestFrame /\ f.id = client.counter + 1
      <4>1. {"operator.read", "operator.write"} \in SUBSET ReadScopes
        BY DEF ReadScopes
      <4>2. client.counter + 1 \in Id
        BY <1>0, <2>4
      <4> QED
        BY <4>1, <4>2, FrameTypes, ConstantTypes DEF Hello
    <3>2. Send(f)
      BY <2>4
    <3> HIDE DEF f
    <3>3. g \in FramesOf(toServer[d]) \/ g = f
      BY <3>1, <3>2, <2>4, SendFrames
    <3> QED
      BY <3>1, <3>3, <1>2
  <2>5. \A d \in Conn : \A g \in FramesOf(toServer'[d]) :
          g \in FramesOf(toServer[d]) \/ Asked(g.id, g.method)
    BY <2>1, <2>4
  <2> HIDE DEF f
  <2>6. AskedOnWire'
    BY <2>1, <2>2, <2>5, <1>1, StaysAsked
  <2> QED
    BY <2>1, <2>3, <2>6, <1>3 DEF AskedInv
<1>7. CASE ClientResponse
  <2>1. /\ client.conn \in Conn /\ toClient[client.conn] # <<>>
        /\ Incoming = toClient[client.conn]
        /\ toClient' = [toClient EXCEPT ![client.conn] = Tail(@)]
        /\ UNCHANGED <<toServer, threads, call>>
        /\ Head(Incoming).type = "res"
        /\ reader' = Head(Incoming) \/ reader' = NoFrame
    BY <1>7, IncomingFrame DEF ClientResponse, serverVars
  <2>2. client'.counter = client.counter
    BY <1>0, <1>7 DEF ClientResponse, ClientRecord
  <2>3. \A d \in Conn : FramesOf(toClient'[d]) \subseteq FramesOf(toClient[d])
    BY <2>1, LessFrames
  <2>4. Head(Incoming) \in FramesOf(toClient[client.conn])
    BY <2>1, ConnTypes, FramesLaws
  <2>5. /\ Head(Incoming).id \in 0 .. client.counter
        /\ Asked(Head(Incoming).id, Head(Incoming).method)
    BY <2>1, <2>4, IdsOnWire DEF AskedInv, AskedOnWire
  <2>6. Head(Incoming).id <= client.counter
    BY <1>0, <2>5
  <2>7. reader' # NoFrame => reader'.id <= client'.counter /\ Asked(reader'.id, reader'.method)
    BY <2>1, <2>2, <2>5, <2>6
  <2>8. /\ \A k \in Caller : IF call[k].pc = "idle" THEN call[k] = NoCall
                             ELSE call[k].id \in 1 .. client'.counter
        /\ OwnAnswer'
    BY <2>1, <2>2 DEF AskedInv, AskedByClient, OwnAnswer
  <2>9. AskedByClient'
    BY <2>1, <2>7, <2>8, <1>1 DEF AskedByClient
  <2> QED
    BY <2>1, <2>3, <2>9, <1>1, StaysAsked DEF AskedInv
<1>8. ASSUME NEW k \in Caller, UNCHANGED <<toServer, toClient, threads, client>>,
             UNCHANGED reader \/ reader' = NoFrame,
             NEW d \in CallRecord, call' = [call EXCEPT ![k] = d],
             \/ d = NoCall
             \/ /\ d.pc # "idle" /\ call[k].pc # "idle"
                /\ d.id = call[k].id /\ d.method = call[k].method,
             d.answer # NoFrame => d.answer.id = d.id /\ d.answer.method = d.method
      PROVE  AskedInv'
  <2>1. NoCall.pc = "idle"
    BY DEF NoCall
  <2>2. \A j \in Caller : call'[j] = IF j = k THEN d ELSE call[j]
    BY <1>0, <1>8
  <2>3. \A i, m : Asked(i, m) =>
          \A j \in Caller : call'[j].pc # "idle" /\ call'[j].id = i => call'[j].method = m
    BY <1>8, <2>1, <2>2 DEF Asked
  <2>4. AskedOnWire'
    <3>1. \A i, m : Asked(i, m) => Asked(i, m)'
      BY <2>3 DEF Asked
    <3> QED
      BY <1>8, <3>1, StaysAsked
  <2>5. \A j \in Caller : IF call'[j].pc = "idle" THEN call'[j] = NoCall
                          ELSE call'[j].id \in 1 .. client.counter
    BY <1>8, <2>1, <2>2 DEF AskedInv, AskedByClient
  <2>6. OwnAnswer'
    BY <1>8, <2>2 DEF AskedInv, AskedByClient, OwnAnswer
  <2>7. (reader # NoFrame => reader.id <= client.counter /\ Asked(reader.id, reader.method))'
    <3>1. reader # NoFrame => reader.id <= client.counter /\ Asked(reader.id, reader.method)
      BY DEF AskedInv, AskedByClient
    <3>2. CASE reader' = NoFrame
      BY <3>2
    <3>3. CASE UNCHANGED reader
      BY <1>8, <2>3, <3>1, <3>3 DEF Asked
    <3> QED
      BY <1>8, <3>2, <3>3
  <2> QED
    BY <1>8, <2>4, <2>5, <2>6, <2>7 DEF AskedInv, AskedByClient
<1>9. CASE Deliver
  <2>1. PICK k \in Caller : /\ call[k].id = reader.id /\ call[k].pc = "wait"
                            /\ call' = [call EXCEPT ![k].answer = reader]
    BY <1>9 DEF Deliver
  <2>2. /\ reader # NoFrame /\ reader' = NoFrame
        /\ UNCHANGED <<toServer, toClient, threads, client>>
    BY <1>9 DEF Deliver, serverVars, wire
  <2> DEFINE e == [call[k] EXCEPT !.answer = reader]
  <2>6. call[k] \in CallRecord
    BY <1>0
  <2>7. /\ e \in CallRecord /\ e.pc = call[k].pc /\ e.id = call[k].id
        /\ e.method = call[k].method /\ e.answer = reader
    BY <2>6, <1>0 DEF CallRecord
  <2>3. PICK d \in CallRecord : /\ d = e /\ d.pc = call[k].pc /\ d.id = call[k].id
                                /\ d.method = call[k].method /\ d.answer = reader
    BY <2>7
  <2>4. call' = [call EXCEPT ![k] = d]
    BY <1>0, <2>1, <2>3
  <2>5. reader.method = call[k].method
    BY <2>1, <2>2 DEF AskedInv, AskedByClient, Asked
  <2> QED
    <3>1. d.pc # "idle" /\ call[k].pc # "idle"
      BY <2>1, <2>3
    <3>2. d.answer # NoFrame => d.answer.id = d.id /\ d.answer.method = d.method
      BY <2>1, <2>3, <2>5
    <3> QED
      BY <2>2, <2>3, <2>4, <3>1, <3>2, <1>8
<1>10. ASSUME NEW k \in Caller, FinishCall(k) \/ EraseCall(k)
       PROVE  AskedInv'
  <2>1. /\ call' = [call EXCEPT ![k] = NoCall]
        /\ UNCHANGED <<toServer, toClient, threads, client, reader>>
    BY <1>10 DEF FinishCall, EraseCall, serverVars, wire
  <2>2. NoCall \in CallRecord /\ NoCall.answer = NoFrame
    BY ConstantTypes DEF NoCall
  <2> QED
    BY <2>1, <2>2, <1>8
<1>11. ASSUME NEW k \in Caller, CallExpires(k)
       PROVE  AskedInv'
  <2>1. /\ call' = [call EXCEPT ![k].pc = "expired"] /\ call[k].pc = "wait"
        /\ UNCHANGED <<toServer, toClient, threads, client, reader>>
    BY <1>11 DEF CallExpires, serverVars, wire
  <2> DEFINE e == [call[k] EXCEPT !.pc = "expired"]
  <2>5. call[k] \in CallRecord
    BY <1>0
  <2>6. /\ e \in CallRecord /\ e.pc = "expired" /\ e.id = call[k].id
        /\ e.method = call[k].method /\ e.answer = call[k].answer
    BY <2>5 DEF CallRecord
  <2>2. PICK d \in CallRecord : /\ d = e /\ d.pc = "expired" /\ d.id = call[k].id
                                /\ d.method = call[k].method /\ d.answer = call[k].answer
    BY <2>6
  <2>3. call' = [call EXCEPT ![k] = d]
    BY <1>0, <2>1, <2>2
  <2>4. d.answer # NoFrame => d.answer.id = d.id /\ d.answer.method = d.method
    BY <2>2 DEF AskedInv, AskedByClient, OwnAnswer
  <2> QED
    BY <2>1, <2>2, <2>3, <2>4, <1>8
<1>12. ASSUME NEW k \in Caller, NEW m \in CallMethods, StartCall(k, m)
       PROVE  AskedInv'
  <2> DEFINE id == client.counter + 1
             d == [pc |-> "wait", id |-> id, method |-> m, answer |-> NoFrame]
             f == Request(id, m)
  <2>1. /\ client' = [client EXCEPT !.counter = id] /\ id <= MaxIds
        /\ Send(f) /\ call' = [call EXCEPT ![k] = d] /\ reader = NoFrame
        /\ UNCHANGED <<threads, toClient, reader>>
    BY <1>12 DEF StartCall, serverVars
  <2>2. id \in Id /\ id \in Nat /\ client.counter \in Nat /\ client'.counter = id
    BY <1>0, <2>1 DEF ClientRecord
  <2>3. \A j \in Caller : call'[j] = IF j = k THEN d ELSE call[j]
    BY <1>0, <2>1
  <2>4. d.pc = "wait" /\ d.id = id /\ d.method = m /\ d.answer = NoFrame
    OBVIOUS
  <2>5. f \in RequestFrame /\ f.id = id /\ f.method = m
    <3>1. m \in Method
      BY DEF Method
    <3> QED
      BY <2>2, <3>1, FrameTypes DEF Request
  <2> HIDE DEF d, f
  <2>6. \A i, n : i \in 0 .. client.counter /\ Asked(i, n) => Asked(i, n)'
    BY <2>2, <2>3, <2>4 DEF Asked
  <2>7. \A i : i = id => Asked(i, m)'
    BY <1>2, <2>3, <2>4 DEF Asked
  <2>8. \A c \in Conn : FramesOf(toServer'[c]) \subseteq FramesOf(toServer[c]) \cup {f}
    BY <2>1, <2>5, SendFrames
  <2>9. AskedOnWire'
    <3>1. ASSUME NEW c \in Conn, NEW g \in FramesOf(toServer'[c])
          PROVE  g \in FramesOf(toServer[c]) \/ Asked(g.id, g.method)'
      <4>1. g \in FramesOf(toServer[c]) \/ (g.id = id /\ g.method = m)
        BY <2>5, <2>8
      <4> QED
        BY <2>7, <4>1
    <3>2. \A c \in Conn : FramesOf(toClient'[c]) \subseteq FramesOf(toClient[c])
      BY <2>1
    <3> QED
      BY <2>1, <2>6, <3>1, <3>2, StaysAsked
  <2>10. \A j \in Caller : IF call'[j].pc = "idle" THEN call'[j] = NoCall
                           ELSE call'[j].id \in 1 .. client'.counter
    BY <2>2, <2>3, <2>4 DEF AskedInv, AskedByClient
  <2>11. OwnAnswer'
    BY <2>3, <2>4 DEF AskedInv, AskedByClient, OwnAnswer
  <2> QED
    BY <2>1, <2>9, <2>10, <2>11 DEF AskedInv, AskedByClient
<1> QED
  BY <1>4, <1>5, <1>6, <1>7, <1>9, <1>10, <1>11, <1>12 DEF ClientStep

\* The steps of the peers, the network and the clock.
LEMMA OutsideAsked ==
  ASSUME GatewayTypes, WireInv, AskedInv,
         \/ PeerOpens \/ Tick \/ UNCHANGED vars
         \/ \E c \in Conn : PeerSends(c) \/ CutLink(c)
  PROVE  AskedInv'
<1>1. UNCHANGED <<toClient, threads, call, reader, client>>
  BY DEF PeerOpens, Tick, PeerSends, CutLink, vars, serverVars, clientVars, wire
<1>2. \A i, m : Asked(i, m)' <=> Asked(i, m)
  BY <1>1 DEF Asked
<1>3. AskedByClient'
  BY <1>1, <1>2 DEF AskedInv, AskedByClient, OwnAnswer
<1>4. \A m : Asked(0, m)
  BY ConstantTypes DEF GatewayTypes, ClientTypes, ClientRecord, AskedInv, AskedByClient, Asked
<1>5. ASSUME NEW d \in Conn, NEW g \in FramesOf(toServer'[d])
      PROVE  g \in FramesOf(toServer[d]) \/ Asked(g.id, g.method)
  <2>1. CASE UNCHANGED toServer
    BY <1>5, <2>1
  <2>2. ASSUME NEW c \in Conn, PeerSends(c)
        PROVE  g \in FramesOf(toServer[d]) \/ Asked(g.id, g.method)
    <3>1. PICK f \in PeerRequests : toServer' = [toServer EXCEPT ![c] = Append(@, f)]
      BY <2>2 DEF PeerSends
    <3>2. f \in RequestFrame /\ f.id = 0
      BY ConstantTypes
    <3>3. PICK in \in Seq(RequestFrame) : in = toServer[d]
      BY ConnTypes
    <3>4. toServer'[d] = in \/ toServer'[d] = Append(in, f)
      BY <3>1, <3>3 DEF GatewayTypes, WireTypes
    <3>5. g \in FramesOf(in) \/ g = f
      BY <1>5, <3>2, <3>4, FramesLaws
    <3> QED
      BY <1>4, <3>2, <3>3, <3>5
  <2>3. UNCHANGED toServer \/ \E c \in Conn : PeerSends(c)
    BY DEF PeerOpens, Tick, CutLink, vars, wire
  <2> QED
    BY <2>1, <2>2, <2>3
<1>6. AskedOnWire'
  BY <1>1, <1>2, <1>5, StaysAsked
<1> QED
  BY <1>3, <1>6 DEF AskedInv

(***************************************************************************)
(* All of it together.                                                     *)
(***************************************************************************)
NowBounded == now \in 0 .. MaxTicks

\* Requests are noted at the times at which they came.
LEMMA WindowEntries ==
  ASSUME LimitInv, NowBounded
  PROVE  windows \in [Conn -> Seq(0 .. MaxTicks)]
<1>1. /\ windows \in [Conn -> Seq(Nat)] /\ accepted \in [Conn -> Seq(Nat)]
      /\ now \in Nat /\ MaxTicks \in Nat /\ now <= MaxTicks
  BY GatewayAssumption DEF LimitInv, LimitTypes, NowBounded
<1>2. ASSUME NEW c \in Conn
      PROVE  windows[c] \in Seq(0 .. MaxTicks)
  <2> DEFINE w == windows[c]
             a == accepted[c]
  <2>1. w \in Seq(Nat) /\ a \in Seq(Nat) /\ InOrder(a) /\ IsWindow(w, a)
    BY <1>1 DEF LimitInv, Limited
  <2> HIDE DEF w, a
  <2>2. PICK k \in 0 .. Len(a) : LacksFirst(w, a, k, now - window_seconds)
    BY <2>1 DEF IsWindow
  <2>3. Len(w) \in Nat /\ Len(a) \in Nat /\ DOMAIN w = 1 .. Len(w)
    BY <2>1, LenProperties
  <2>4. ASSUME NEW i \in 1 .. Len(w)
        PROVE  w[i] \in 0 .. MaxTicks
    <3>1. w[i] = a[k + i] /\ k + i \in 1 .. Len(a)
      BY <2>2, <2>3 DEF LacksFirst
    <3>2. a[k + i] <= now /\ a[k + i] \in Nat
      BY <2>1, <3>1, ElementOfSeq DEF InOrder
    <3> QED
      BY <1>1, <3>1, <3>2
  <2>5. w = [i \in 1 .. Len(w) |-> w[i]]
    BY <2>1, <2>3
  <2>6. w \in [1 .. Len(w) -> 0 .. MaxTicks]
    BY <2>4, <2>5
  <2>7. w \in Seq(0 .. MaxTicks)
    BY <2>3, <2>6, SeqDef
  <2> QED
    BY <2>7 DEF w
<1> QED
  BY <1>1, <1>2

\* The conjunction of the invariants is inductive; the limits have their own.
LEMMA WireInvariant ==
  Spec => [](GatewayTypes /\ LinkInv /\ WireInv /\ AskedInv /\ NowBounded)
<1>1. Init => LinkInv /\ WireInv /\ AskedInv /\ NowBounded
  <2> SUFFICES ASSUME Init PROVE LinkInv /\ WireInv /\ AskedInv /\ NowBounded
    OBVIOUS
  <2>1. /\ link = [c \in Conn |-> "none"] /\ owner = [c \in Conn |-> "none"]
        /\ toServer = [c \in Conn |-> <<>>] /\ toClient = [c \in Conn |-> <<>>]
        /\ threads = {} /\ reader = NoFrame /\ call = [k \in Caller |-> NoCall]
        /\ answered = [c \in Conn |-> [i \in Id |-> 0]]
    BY DEF Init
  <2>2. client.conn = 0 /\ client.counter = 0
    BY DEF Init, NewClient
  <2>3. LinkInv
    <3>1. 0 \in 0 .. MaxConns /\ \A c \in Conn : ~ (c <= 0)
      BY ConstantTypes DEF Conn
    <3>2. LinksInOrder
      BY <2>1, <3>1 DEF LinksInOrder
    <3> QED
      BY <2>1, <2>2, <3>2 DEF LinkInv, LinksOwned
  <2>4. DOMAIN <<>> = {}
    OBVIOUS
  <2>5. WireInv
    <3>1. \A c \in Conn : RunIds(c) = {}
      BY <2>1 DEF RunIds
    <3>2. Once(<<>>) /\ EventsFirst(<<>>) /\ \A i : ~ Has(<<>>, i) /\ ~ HasRes(<<>>, i)
      BY <2>4 DEF Once, EventsFirst, Has, HasRes
    <3>3. \A own : Tidy(<<>>, <<>>, {}, [i \in Id |-> 0], 0, own)
      BY <3>2 DEF Tidy
    <3>4. \A c \in Conn : TidyConn(c)
      BY <2>1, <2>2, <3>1, <3>3 DEF TidyConn
    <3> QED
      BY <2>1, <3>4 DEF WireInv, OneThread
  <2>6. AskedInv
    <3>1. NoCall.pc = "idle" /\ NoCall.answer = NoFrame
      BY DEF NoCall
    <3> QED
      BY <2>1, <3>1, FramesLaws DEF AskedInv, AskedOnWire, AskedByClient, OwnAnswer
  <2>7. NowBounded
    BY GatewayAssumption DEF Init, NowBounded
  <2> QED
    BY <2>3, <2>5, <2>6, <2>7
<1>2. GatewayTypes /\ LinkInv /\ WireInv /\ AskedInv /\ NowBounded /\ [Next]_vars
        => LinkInv' /\ WireInv' /\ AskedInv' /\ NowBounded'
  <2> SUFFICES ASSUME GatewayTypes, LinkInv, WireInv, AskedInv, NowBounded, [Next]_vars
               PROVE  LinkInv' /\ WireInv' /\ AskedInv' /\ NowBounded'
    OBVIOUS
  <2>1. NowBounded'
    <3>1. CASE Tick
      BY <3>1, GatewayAssumption DEF Tick, NowBounded
    <3>2. CASE ~ Tick
      <4>1. UNCHANGED now
        BY <3>2, OthersLeaveLimiter DEF LimiterRests, RefuseRequest, RunRequest
      <4> QED
        BY <4>1 DEF NowBounded
    <3> QED
      BY <3>1, <3>2
  <2>2. CASE ServerStep
    BY <2>1, <2>2, ServerStepLinks, ServerStepTidy, ServerStepAsked
  <2>3. CASE ClientStep
    BY <2>1, <2>3, ClientStepLinks, ClientStepTidy, ClientStepAsked
  <2>4. CASE \/ PeerOpens \/ Tick \/ UNCHANGED vars
             \/ \E c \in Conn : PeerSends(c) \/ CutLink(c)
    BY <2>1, <2>4, OutsideLinks, OutsideTidy, OutsideAsked
  <2> QED
    BY <2>2, <2>3, <2>4 DEF Next
<1> QED
  BY <1>1, <1>2, TypesInvariant, PTL DEF Spec

\* A call that returns a result returns the answer to its own request; a request
\* is answered at most once and no streamed event follows its answer
\* (gateway_client.cpp:244, gateway_server.cpp:446), whatever the number of
\* callers, links and requests.
THEOREM AnswersAlwaysMatch == Spec => []AnswersMatch
<1>1. GatewayTypes /\ LinkInv /\ WireInv /\ AskedInv /\ NowBounded /\ LimitInv
        => AnswersMatch
  <2> SUFFICES ASSUME GatewayTypes, WireInv, AskedInv, NowBounded, LimitInv
               PROVE  AnswersMatch
    OBVIOUS
  <2>1. OwnAnswer
    BY DEF AskedInv, AskedByClient
  <2>2. AnsweredOnce
    BY DEF AnsweredOnce, WireInv, TidyConn, Tidy, EventsFirst
  <2>3. TypeOK
    <3>1. windows \in [Conn -> Seq(0 .. MaxTicks)]
      BY WindowEntries
    <3>2. \A c \in Conn : conns[c].scopes \subseteq ReadScopes
      BY DEF GatewayTypes, ServerTypes, ConnRecord
    <3>3. \A t \in threads : t.conn \in Conn /\ t.id \in Id
      BY DEF GatewayTypes, ServerTypes, ThreadRecord
    <3>4. client.conn \in Conn \cup {0}
      BY DEF GatewayTypes, ClientTypes, ClientRecord
    <3> QED
      BY <3>1, <3>2, <3>3, <3>4 DEF TypeOK, GatewayTypes, ServerTypes, WireTypes, ClientTypes
  <2> QED
    BY <2>1, <2>2, <2>3 DEF AnswersMatch
<1> QED
  BY <1>1, WireInvariant, LimitsInvariant, PTL

=============================================================================
