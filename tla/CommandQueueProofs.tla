------------------------- MODULE CommandQueueProofs -------------------------
(***************************************************************************)
(* Proofs about CommandQueue for every set of sessions, every bound on the *)
(* number of commands and every configuration.                             *)
(***************************************************************************)
EXTENDS CommandQueueMailbox, FiniteSetTheorems, SequenceTheorems, TLAPS

(* The pending deque holds its commands in the order of their ids.         *)
Increasing(q) == \A i, j \in 1 .. Len(q) : i < j => q[i] < q[j]

(* Appending an id newer than every pending one keeps the deque ordered.   *)
LEMMA AppendIncreasing ==
  ASSUME NEW q \in Seq(Ids), Increasing(q), NEW c \in Ids,
         \A e \in Elements(q) : e < c
  PROVE  /\ Append(q, c) \in Seq(Ids)
         /\ Increasing(Append(q, c))
         /\ Elements(Append(q, c)) = Elements(q) \cup {c}
<1>1. /\ Append(q, c) \in Seq(Ids)
      /\ Len(Append(q, c)) = Len(q) + 1
      /\ \A i \in 1 .. Len(q) : Append(q, c)[i] = q[i]
      /\ Append(q, c)[Len(q) + 1] = c
  BY AppendProperties
<1>2. Len(q) \in Nat
  BY LenProperties
<1>3. Increasing(Append(q, c))
  BY <1>1, <1>2 DEF Increasing, Elements
<1>4. Elements(Append(q, c)) = Elements(q) \cup {c}
  BY <1>1, <1>2 DEF Elements
<1> QED BY <1>1, <1>3, <1>4

(* A contiguous part of an ordered deque is ordered.                       *)
LEMMA SubSeqIncreasing ==
  ASSUME NEW q \in Seq(Ids), Increasing(q),
         NEW m \in Int, NEW n \in Int, 1 <= m, n <= Len(q)
  PROVE  /\ SubSeq(q, m, n) \in Seq(Ids)
         /\ Increasing(SubSeq(q, m, n))
         /\ Elements(SubSeq(q, m, n)) \subseteq Elements(q)
         /\ Len(SubSeq(q, m, n)) = IF m <= n THEN n - m + 1 ELSE 0
         /\ \A i \in 1 .. n - m + 1 : SubSeq(q, m, n)[i] = q[m + i - 1]
<1>1. Len(q) \in Nat /\ q \in [1 .. Len(q) -> Ids]
  BY LenProperties
<1>2. \A i \in m .. n : q[i] \in Ids
  BY <1>1
<1>3. /\ SubSeq(q, m, n) \in Seq(Ids)
      /\ Len(SubSeq(q, m, n)) = IF m <= n THEN n - m + 1 ELSE 0
      /\ \A i \in 1 .. n - m + 1 : SubSeq(q, m, n)[i] = q[m + i - 1]
  BY <1>2, SubSeqProperties
<1>4. Increasing(SubSeq(q, m, n))
  <2> SUFFICES ASSUME NEW i \in 1 .. Len(SubSeq(q, m, n)),
                      NEW j \in 1 .. Len(SubSeq(q, m, n)), i < j
               PROVE  SubSeq(q, m, n)[i] < SubSeq(q, m, n)[j]
    BY DEF Increasing
  <2>1. /\ i \in 1 .. n - m + 1
        /\ j \in 1 .. n - m + 1
    BY <1>3
  <2>2. /\ m + i - 1 \in 1 .. Len(q)
        /\ m + j - 1 \in 1 .. Len(q)
        /\ m + i - 1 < m + j - 1
    BY <2>1, <1>1
  <2>3. q[m + i - 1] < q[m + j - 1]
    BY <2>2 DEF Increasing
  <2> QED BY <2>1, <2>3, <1>3
<1>5. Elements(SubSeq(q, m, n)) \subseteq Elements(q)
  <2> SUFFICES ASSUME NEW i \in 1 .. Len(SubSeq(q, m, n))
               PROVE  \E j \in 1 .. Len(q) : q[j] = SubSeq(q, m, n)[i]
    BY DEF Elements
  <2>1. i \in 1 .. n - m + 1 /\ m + i - 1 \in 1 .. Len(q)
    BY <1>1, <1>3
  <2> QED BY <2>1, <1>3
<1> QED BY <1>3, <1>4, <1>5

(* Erasing a block from the middle of an ordered deque leaves it ordered.  *)
LEMMA GlueIncreasing ==
  ASSUME NEW q \in Seq(Ids), Increasing(q),
         NEW a \in Int, NEW b \in Int, 0 <= a, a < b, a <= Len(q)
  PROVE  LET r == SubSeq(q, 1, a) \o SubSeq(q, b, Len(q))
         IN  /\ r \in Seq(Ids)
             /\ Increasing(r)
             /\ Elements(r) =
                  {q[i] : i \in {j \in 1 .. Len(q) : j <= a \/ j >= b}}
<1> DEFINE s == SubSeq(q, 1, a)
           t == SubSeq(q, b, Len(q))
           r == s \o t
<1>1. Len(q) \in Nat /\ q \in [1 .. Len(q) -> Ids]
  BY LenProperties
<1>2. /\ s \in Seq(Ids)
      /\ Len(s) = a
      /\ \A i \in 1 .. a : s[i] = q[i]
  BY <1>1, SubSeqIncreasing
<1>3. /\ t \in Seq(Ids)
      /\ Len(t) = IF b <= Len(q) THEN Len(q) - b + 1 ELSE 0
      /\ \A i \in 1 .. Len(q) - b + 1 : t[i] = q[b + i - 1]
  BY <1>1, SubSeqIncreasing
<1>4. /\ r \in Seq(Ids)
      /\ Len(r) = a + Len(t)
      /\ \A i \in 1 .. a + Len(t) :
           r[i] = IF i <= a THEN s[i] ELSE t[i - a]
  <2> HIDE DEF s, t
  <2>1. /\ r \in Seq(Ids)
        /\ Len(r) = Len(s) + Len(t)
        /\ \A i \in 1 .. Len(s) + Len(t) :
             r[i] = IF i <= Len(s) THEN s[i] ELSE t[i - Len(s)]
    <3>1. s \in Seq(Ids) /\ t \in Seq(Ids)
      BY <1>2, <1>3
    <3> QED BY <3>1, ConcatProperties
  <2> HIDE DEF r
  <2> QED BY <1>2, <2>1
<1> DEFINE pos(i) == IF i <= a THEN i ELSE b + (i - a) - 1
<1>5. \A i \in 1 .. Len(r) :
         /\ pos(i) \in 1 .. Len(q)
         /\ r[i] = q[pos(i)]
         /\ pos(i) <= a \/ pos(i) >= b
  <2> HIDE DEF r, s, t
  <2> SUFFICES ASSUME NEW i \in 1 .. Len(r)
               PROVE  /\ pos(i) \in 1 .. Len(q)
                      /\ r[i] = q[pos(i)]
                      /\ pos(i) <= a \/ pos(i) >= b
    OBVIOUS
  <2>1. CASE i <= a
    BY <2>1, <1>1, <1>2, <1>4
  <2>2. CASE i > a
    <3>1. Len(t) = Len(q) - b + 1 /\ i - a \in 1 .. Len(q) - b + 1
      BY SMTT(40), <2>2, <1>1, <1>3, <1>4
    <3>2. r[i] = t[i - a]
      BY <2>2, <1>4
    <3>3. t[i - a] = q[b + (i - a) - 1]
      BY <3>1, <1>3
    <3>4. pos(i) = b + (i - a) - 1
      BY <2>2
    <3> QED BY <3>1, <3>2, <3>3, <3>4, <1>1
  <2> QED BY <2>1, <2>2
<1>6. Increasing(r)
  <2> HIDE DEF r, s, t
  <2> SUFFICES ASSUME NEW i \in 1 .. Len(r), NEW j \in 1 .. Len(r), i < j
               PROVE  r[i] < r[j]
    BY DEF Increasing
  <2>1. pos(i) < pos(j)
    BY <1>1, <1>2, <1>3, <1>4
  <2>2. q[pos(i)] < q[pos(j)]
    BY <2>1, <1>5, Increasing(q) DEF Increasing
  <2> QED BY <2>2, <1>5
<1>7. Elements(r) = {q[i] : i \in {j \in 1 .. Len(q) : j <= a \/ j >= b}}
  <2> HIDE DEF r, s, t
  <2>1. Elements(r) \subseteq {q[i] : i \in {j \in 1 .. Len(q) : j <= a \/ j >= b}}
    BY <1>5 DEF Elements
  <2>2. ASSUME NEW k \in 1 .. Len(q), k <= a \/ k >= b
        PROVE  q[k] \in Elements(r)
    <3>1. CASE k <= a
      <4>1. k \in 1 .. Len(r) /\ r[k] = q[k]
        BY <3>1, <1>2, <1>3, <1>4, <1>1
      <4> QED BY <4>1 DEF Elements
    <3>2. CASE k >= b
      <4> DEFINE p == k - b + 1 + a
      <4>1. p \in 1 .. Len(r) /\ ~(p <= a) /\ pos(p) = k
        BY <3>2, <1>1, <1>3, <1>4
      <4>2. r[p] = q[k]
        BY <4>1, <1>5
      <4> QED BY <4>1, <4>2 DEF Elements
    <3> QED BY <2>2, <3>1, <3>2
  <2> QED BY <2>1, <2>2
<1> QED BY <1>4, <1>6, <1>7

-----------------------------------------------------------------------------
(* The operations of a lane *)

(* A lane of the right shape; one that is not in lanes_ is empty.          *)
LaneOK(l) ==
  /\ l \in Lane
  /\ Increasing(l.pending)
  /\ ~l.exists => IsIdle(l)

(* The empty queue of a new lane is ordered and holds nothing.             *)
LEMMA EmptyIncreasing ==
  <<>> \in Seq(Ids) /\ Increasing(<<>>) /\ Elements(<<>>) = {}
BY EmptySeq DEF Increasing, Elements

(* A lane built from a configuration is well-formed, inserted in the map   *)
(* or not.                                                                 *)
LEMMA NewLaneOK ==
  ASSUME NEW cfg \in QueueConfig
  PROVE  /\ LaneOK(NewLane(cfg))
         /\ LaneOK([NewLane(cfg) EXCEPT !.exists = FALSE])
BY EmptyIncreasing, ClientAssumption
DEF LaneOK, NewLane, QueueConfig, Lane, IsIdle

(* InterruptActive keeps a lane well-formed, frees its active slot and     *)
(* adds nothing to the queue.                                              *)
LEMMA InterruptLaneOK ==
  ASSUME NEW l, LaneOK(l)
  PROVE  /\ LaneOK(InterruptActive(l))
         /\ InterruptActive(l).exists = l.exists
         /\ InterruptActive(l).active = NoCommand
         /\ Elements(InterruptActive(l).pending) \subseteq Elements(l.pending)
<1> DEFINE q == l.pending
           r == IF Len(q) > 1 THEN <<q[Len(q)]>> ELSE q
<1>1. q \in Seq(Ids) /\ Len(q) \in Nat
  BY LenProperties DEF LaneOK, Lane
<1>2. r \in Seq(Ids) /\ Increasing(r) /\ Elements(r) \subseteq Elements(q)
  BY <1>1, LenProperties DEF LaneOK, Increasing, Elements
<1>3. ~l.exists => r = <<>>
  BY <1>1 DEF LaneOK, IsIdle
<1>4. InterruptActive(l) = [l EXCEPT !.active = NoCommand, !.pending = r]
  BY DEF InterruptActive
<1> HIDE DEF r
<1> QED BY <1>2, <1>3, <1>4 DEF LaneOK, Lane, IsIdle

(* Enqueue of an id larger than all pending ones keeps the lane well-      *)
(* formed and adds exactly that id.                                        *)
LEMMA EnqueueLaneOK ==
  ASSUME NEW l, LaneOK(l), l.exists, NEW c \in Ids,
         \A e \in Elements(l.pending) : e < c
  PROVE  /\ LaneOK(Enqueue(l, c))
         /\ Enqueue(l, c).exists
         /\ Enqueue(l, c).active = l.active
         /\ Elements(Enqueue(l, c).pending) = Elements(l.pending) \cup {c}
<1>1. l.pending \in Seq(Ids) /\ Increasing(l.pending)
  BY DEF LaneOK, Lane
<1>2. /\ Append(l.pending, c) \in Seq(Ids)
      /\ Increasing(Append(l.pending, c))
      /\ Elements(Append(l.pending, c)) = Elements(l.pending) \cup {c}
  BY <1>1, AppendIncreasing
<1> QED BY <1>2 DEF LaneOK, Lane, Enqueue, IsIdle

(* ApplyCapOverflow removes commands from the deque and does nothing else  *)
(* to the lane.                                                            *)
LEMMA OverflowLaneOK ==
  ASSUME NEW l, LaneOK(l), l.exists, l.pending # <<>>
  PROVE  /\ LaneOK(ApplyCapOverflow(l))
         /\ ApplyCapOverflow(l).exists
         /\ ApplyCapOverflow(l).active = l.active
         /\ Elements(ApplyCapOverflow(l).pending) \subseteq Elements(l.pending)
<1> DEFINE q == l.pending
           n == Len(q)
           k == OverCap(l)
           r == CASE l.drop = "summarize"   -> SubSeq(q, 1, 1) \o SubSeq(q, k + 2, n)
                  [] l.drop = "drop-oldest" -> SubSeq(q, k + 1, n)
                  [] l.drop = "reject"      -> SubSeq(q, 1, n - k)
<1>1. /\ q \in Seq(Ids) /\ Increasing(q) /\ n \in Nat \ {0}
      /\ l.cap \in Int /\ l.drop \in DropPolicy
  BY EmptySeq DEF LaneOK, Lane
<1>2. k \in Nat
  BY <1>1 DEF OverCap
<1>3. r \in Seq(Ids) /\ Increasing(r) /\ Elements(r) \subseteq Elements(q)
  <2> HIDE DEF k
  <2>1. CASE l.drop = "summarize"
    <3> DEFINE g == SubSeq(q, 1, 1) \o SubSeq(q, k + 2, n)
    <3>1. /\ g \in Seq(Ids)
          /\ Increasing(g)
          /\ Elements(g) = {q[i] : i \in {j \in 1 .. n : j <= 1 \/ j >= k + 2}}
      BY <1>1, <1>2, GlueIncreasing
    <3>2. r = g
      BY <2>1
    <3> HIDE DEF g, r
    <3> QED BY <3>1, <3>2 DEF Elements
  <2>2. CASE l.drop = "drop-oldest"
    <3>1. r = SubSeq(q, k + 1, n)
      BY <2>2
    <3> HIDE DEF r
    <3> QED BY <3>1, <1>1, <1>2, SubSeqIncreasing
  <2>3. CASE l.drop = "reject"
    <3>1. r = SubSeq(q, 1, n - k)
      BY <2>3
    <3> HIDE DEF r
    <3> QED BY <3>1, <1>1, <1>2, SubSeqIncreasing
  <2> QED BY <1>1, <2>1, <2>2, <2>3 DEF DropPolicy
<1>4. ApplyCapOverflow(l) = [l EXCEPT !.pending = r]
  BY DEF ApplyCapOverflow
<1> HIDE DEF r
<1> QED BY <1>3, <1>4 DEF LaneOK, Lane

(* CancelPending keeps the lane well-formed and removes exactly the        *)
(* cancelled id.                                                           *)
LEMMA CancelLaneOK ==
  ASSUME NEW l, LaneOK(l), l.exists, NEW c \in Elements(l.pending)
  PROVE  /\ LaneOK(CancelPending(l, c))
         /\ CancelPending(l, c).exists
         /\ CancelPending(l, c).active = l.active
         /\ Elements(CancelPending(l, c).pending) = Elements(l.pending) \ {c}
<1> DEFINE q == l.pending
           i == CHOOSE j \in 1 .. Len(q) : q[j] = c
           r == SubSeq(q, 1, i - 1) \o SubSeq(q, i + 1, Len(q))
<1>1. q \in Seq(Ids) /\ Increasing(q) /\ Len(q) \in Nat /\ q \in [1 .. Len(q) -> Ids]
  BY LenProperties DEF LaneOK, Lane
<1>2. i \in 1 .. Len(q) /\ q[i] = c
  BY DEF Elements
<1> HIDE DEF i
<1>3. /\ r \in Seq(Ids)
      /\ Increasing(r)
      /\ Elements(r) = {q[m] : m \in {j \in 1 .. Len(q) : j <= i - 1 \/ j >= i + 1}}
  BY <1>1, <1>2, GlueIncreasing
<1>4. \A j \in 1 .. Len(q) : q[j] = c <=> j = i
  BY <1>1, <1>2 DEF Increasing, Ids
<1>5. Elements(r) = Elements(q) \ {c}
  <2> HIDE DEF r, q
  <2>1. \A j \in 1 .. Len(q) : (j <= i - 1 \/ j >= i + 1) <=> j # i
    BY <1>1, <1>2
  <2> QED BY <1>2, <1>3, <1>4, <2>1 DEF Elements
<1>6. CancelPending(l, c) = [l EXCEPT !.pending = r]
  BY DEF CancelPending, i
<1> HIDE DEF r
<1> QED BY <1>3, <1>5, <1>6 DEF LaneOK, Lane

(* Activation takes the oldest pending command; everything that stays      *)
(* pending is newer.                                                       *)
LEMMA ActivateLaneOK ==
  ASSUME NEW l, LaneOK(l), l.exists, l.pending # <<>>
  PROVE  /\ Head(l.pending) \in Elements(l.pending)
         /\ LaneOK(Activate(l))
         /\ Activate(l).exists
         /\ Activate(l).active = Head(l.pending)
         /\ Elements(Activate(l).pending) \subseteq Elements(l.pending)
         /\ \A e \in Elements(Activate(l).pending) : Head(l.pending) < e
         /\ \A e \in Elements(l.pending) : Head(l.pending) <= e
<1> DEFINE q == l.pending
           rest == Tail(q)
           r == IF Drains(mode[Head(q)], rest) THEN <<>> ELSE rest
<1>1. /\ q \in Seq(Ids) /\ Increasing(q) /\ Len(q) \in Nat \ {0}
      /\ q \in [1 .. Len(q) -> Ids]
  BY EmptySeq, LenProperties DEF LaneOK, Lane
<1>2. Head(q) = q[1] /\ rest = SubSeq(q, 2, Len(q))
  BY <1>1, TailIsSubSeq
<1>3. /\ rest \in Seq(Ids)
      /\ Increasing(rest)
      /\ Elements(rest) \subseteq Elements(q)
      /\ Len(rest) = Len(q) - 1
      /\ \A i \in 1 .. Len(q) - 1 : rest[i] = q[i + 1]
  <2> HIDE DEF rest, q
  <2>1. /\ SubSeq(q, 2, Len(q)) \in Seq(Ids)
        /\ Increasing(SubSeq(q, 2, Len(q)))
        /\ Elements(SubSeq(q, 2, Len(q))) \subseteq Elements(q)
        /\ Len(SubSeq(q, 2, Len(q))) = IF 2 <= Len(q) THEN Len(q) - 2 + 1 ELSE 0
        /\ \A i \in 1 .. Len(q) - 2 + 1 : SubSeq(q, 2, Len(q))[i] = q[2 + i - 1]
    BY <1>1, SubSeqIncreasing
  <2> QED BY <1>1, <1>2, <2>1
<1>4. \A e \in Elements(rest) : Head(q) < e
  <2> HIDE DEF rest, q
  <2> SUFFICES ASSUME NEW i \in 1 .. Len(rest)
               PROVE  q[1] < rest[i]
    BY <1>2 DEF Elements
  <2>1. i + 1 \in 1 .. Len(q) /\ 1 \in 1 .. Len(q) /\ 1 < i + 1
    BY <1>1, <1>3
  <2> QED BY <1>1, <1>3, <2>1 DEF Increasing
<1>5. \A e \in Elements(q) : Head(q) <= e
  BY SMTT(40), <1>1, <1>2 DEF Elements, Increasing, Ids
<1>6. Head(q) \in Elements(q) /\ Head(q) \in Ids
  BY <1>1, <1>2 DEF Elements
<1>7. /\ r \in Seq(Ids) /\ Increasing(r) /\ Elements(r) \subseteq Elements(rest)
  BY <1>3, EmptyIncreasing
<1>8. Activate(l) = [l EXCEPT !.active = Head(q), !.pending = r]
  BY DEF Activate
<1> HIDE DEF r, rest
<1> QED BY <1>3, <1>4, <1>5, <1>6, <1>7, <1>8 DEF LaneOK, Lane

-----------------------------------------------------------------------------
(* Type correctness *)

(* The strengthening that makes TypeOK inductive: lanes are well formed    *)
(* and hold issued ids only, so that Submit's id is newer than all of them. *)
Typed ==
  /\ TypeOK
  /\ \A s \in Session : LaneOK(lanes[s])
  /\ \A s \in Session : \A c \in Pending(s) : c < nextId

(* The constructor establishes Typed.                                      *)
LEMMA TypedInit == Init => Typed
<1> SUFFICES ASSUME Init PROVE Typed
  OBVIOUS
<1>1. LaneOK(AbsentLane)
  BY NewLaneOK, ConfigAssumption DEF AbsentLane
<1>2. AbsentLane.pending = <<>>
  BY DEF AbsentLane, NewLane
<1>3. AbsentLane \in Lane
  BY <1>1 DEF LaneOK
<1>4. session \in [Ids -> Session]
  BY SessionAssumption DEF Init
<1>5. TypeOK
  <2>1. lanes \in [Session -> Lane] /\ config \in QueueConfig
    BY <1>3, ConfigAssumption DEF Init
  <2>2. thread \in [Ids -> Phase] /\ mode \in [Ids -> QueueMode]
    BY DEF Init, Phase, QueueMode
  <2>3. text \in [Ids -> SUBSET Ids] /\ collected \in [Ids -> SUBSET Ids] /\ short \subseteq Ids
    BY DEF Init
  <2>4. nextId \in 1 .. MaxCommands + 1 /\ ripe \in 0 .. MaxCommands
    BY CommandsAssumption DEF Init
  <2>5. /\ command_to_session \subseteq Ids
        /\ workers \subseteq Ids
        /\ joining \subseteq Ids
        /\ cancelled \subseteq Ids
        /\ active_count \in Int
    BY DEF Init
  <2>6. /\ running \in BOOLEAN
        /\ dispatcher \in {"none", "loop"}
        /\ owner \in {"idle", "join_dispatcher", "join_workers"}
    BY DEF Init
  <2> QED BY <1>4, <2>1, <2>2, <2>3, <2>4, <2>5, <2>6 DEF TypeOK
<1>6. \A s \in Session : Pending(s) = {}
  BY <1>2, EmptyIncreasing DEF Pending, Init
<1> QED BY <1>1, <1>5, <1>6 DEF Typed, Init

(* What waits in a lane is a set of command ids.                           *)
LEMMA PendingIds ==
  ASSUME Typed, NEW s \in Session
  PROVE  Pending(s) \subseteq Ids
<1>1. lanes[s].pending \in Seq(Ids)
  BY DEF Typed, LaneOK, Lane
<1> QED BY <1>1, LenProperties DEF Pending, Elements

(* get_lane returns a well-formed lane that holds issued ids only.         *)
LEMMA GetLaneOK ==
  ASSUME Typed, NEW s \in Session
  PROVE  /\ LaneOK(get_lane(s))
         /\ get_lane(s).exists
         /\ get_lane(s).active = lanes[s].active
         /\ get_lane(s).pending = lanes[s].pending
<1>1. config \in QueueConfig /\ LaneOK(lanes[s])
  BY DEF Typed, TypeOK
<1>2. CASE lanes[s].exists
  BY <1>1, <1>2 DEF get_lane
<1>3. CASE ~lanes[s].exists
  BY <1>1, <1>3, NewLaneOK DEF get_lane, NewLane, LaneOK, IsIdle
<1> QED BY <1>2, <1>3

(* What Submit puts into the lane, before and after the overflow check.    *)
LEMMA SubmitLanes ==
  ASSUME Typed, NEW s \in Session, NEW m \in SubmitModes, Submit(s, m)
  PROVE  /\ nextId \in Ids
         /\ LaneOK(lanes'[s])
         /\ lanes'[s].exists
         /\ Elements(lanes'[s].pending) \subseteq Pending(s) \cup {nextId}
         /\ \/ lanes'[s].active = lanes[s].active
            \/ /\ lanes'[s].active = NoCommand
               /\ ResolvedMode(get_lane(s), m) = "interrupt"
         /\ \A t \in Session \ {s} : lanes'[t] = lanes[t]
         /\ Elements(lanes'[s].pending) \subseteq command_to_session'
              \cup (Pending(s) \ command_to_session)
         /\ command_to_session' \subseteq command_to_session \cup {nextId}
         /\ \A t \in Session \ {s} : Pending(t) \cap Pending(s) = {} =>
               Pending(t) \cap command_to_session \subseteq command_to_session'
         /\ lanes' \in [Session -> Lane]
         /\ text' \in [Ids -> SUBSET Ids] /\ short' \subseteq Ids
<1> DEFINE c     == nextId
           lane0 == get_lane(s)
           md    == ResolvedMode(lane0, m)
           lane1 == IF md = "interrupt" /\ HasActive(lane0)
                    THEN InterruptActive(lane0) ELSE lane0
           lane2 == Enqueue(lane1, c)
<1>1. nextId \in Ids
  BY CommandsAssumption DEF Submit, Typed, TypeOK, Ids
<1>2. /\ LaneOK(lane0) /\ lane0.exists
      /\ lane0.active = lanes[s].active
      /\ Elements(lane0.pending) = Pending(s)
  BY GetLaneOK DEF Pending
<1>3. /\ LaneOK(lane1) /\ lane1.exists
      /\ \/ lane1.active = lanes[s].active
         \/ lane1.active = NoCommand /\ md = "interrupt"
      /\ Elements(lane1.pending) \subseteq Pending(s)
  <2> HIDE DEF lane0
  <2> QED BY <1>2, InterruptLaneOK
<1>4. \A e \in Elements(lane1.pending) : e < c
  BY <1>3 DEF Typed
<1>5. /\ LaneOK(lane2) /\ lane2.exists
      /\ lane2.active = lane1.active
      /\ Elements(lane2.pending) = Elements(lane1.pending) \cup {c}
      /\ lane2.pending # <<>>
  <2> HIDE DEF lane1
  <2>1. /\ LaneOK(lane2) /\ lane2.exists
        /\ lane2.active = lane1.active
        /\ Elements(lane2.pending) = Elements(lane1.pending) \cup {c}
    BY <1>1, <1>3, <1>4, EnqueueLaneOK
  <2> QED BY <2>1, EmptyIncreasing
<1>6. /\ LaneOK(ApplyCapOverflow(lane2))
      /\ ApplyCapOverflow(lane2).exists
      /\ ApplyCapOverflow(lane2).active = lane2.active
      /\ Elements(ApplyCapOverflow(lane2).pending) \subseteq Elements(lane2.pending)
  <2> HIDE DEF lane2
  <2> QED BY <1>5, OverflowLaneOK
<1>7. \/ /\ lanes' = [lanes EXCEPT ![s] = lane2]
         /\ command_to_session' = command_to_session \cup {c}
      \/ /\ lanes' = [lanes EXCEPT ![s] = ApplyCapOverflow(lane2)]
         /\ command_to_session' =
              (command_to_session \cup {c}) \ DroppedIds(lane2)
  BY DEF Submit
<1>8. DroppedIds(lane2) =
        Elements(lane2.pending) \ Elements(ApplyCapOverflow(lane2).pending)
  BY DEF DroppedIds
<1>9. lanes \in [Session -> Lane]
  BY DEF Typed, TypeOK
<1>10. ASSUME NEW l, LaneOK(l), lanes' = [lanes EXCEPT ![s] = l]
       PROVE  /\ lanes'[s] = l
              /\ lanes' \in [Session -> Lane]
              /\ \A t \in Session \ {s} : lanes'[t] = lanes[t]
  BY <1>9, <1>10 DEF LaneOK
<1>11. \A t \in Session : \A e \in Pending(t) : e < c /\ e # c
  BY <1>1 DEF Typed, Ids
<1>14. text' \in [Ids -> SUBSET Ids] /\ short' \subseteq Ids
  <2> DEFINE text1 == [text EXCEPT ![c] = {c}]
  <2>1. text1 \in [Ids -> SUBSET Ids]
    BY <1>1 DEF Typed, TypeOK
  <2>2. text' = text1 \/ text' = TextAfterOverflow(lane2, text1)
    BY DEF Submit
  <2>3. Elements(lane2.pending) \subseteq Ids
    BY <1>5, LenProperties DEF LaneOK, Lane, Elements
  <2>4. DroppedIds(lane2) \subseteq Ids
    BY <1>8, <2>3
  <2> HIDE DEF text1, lane2
  <2>5. TextAfterOverflow(lane2, text1) \in [Ids -> SUBSET Ids]
    <3>1. UNION {text1[d] : d \in DroppedIds(lane2)} \subseteq Ids
      BY <2>1, <2>4
    <3> DEFINE u == UNION {text1[d] : d \in DroppedIds(lane2)}
    <3> HIDE DEF u
    <3>2. \A h : [text1 EXCEPT ![h] = @ \cup u] \in [Ids -> SUBSET Ids]
      BY <2>1, <3>1 DEF u
    <3> QED BY <2>1, <3>2 DEF TextAfterOverflow, u
  <2>6. short' = short \/ short' = ShortAfterOverflow(lane2, text1, short)
    BY DEF Submit, text1, lane2
  <2>7. ShortAfterOverflow(lane2, text1, short) \subseteq Ids
    <3>1. lane2.pending # <<>> => Head(lane2.pending) \in Elements(lane2.pending)
      BY <1>5, ActivateLaneOK
    <3>2. DroppedIds(lane2) \cup {Head(lane2.pending)} \subseteq Ids
      BY <1>5, <2>3, <2>4, <3>1
    <3> QED BY <2>1, <3>2 DEF ShortAfterOverflow, Typed, TypeOK
  <2> QED BY <2>1, <2>2, <2>5, <2>6, <2>7 DEF Typed, TypeOK
<1> HIDE DEF lane2, lane1, c
<1>12. CASE /\ lanes' = [lanes EXCEPT ![s] = lane2]
            /\ command_to_session' = command_to_session \cup {c}
  BY <1>12, <1>1, <1>3, <1>5, <1>10, <1>14 DEF c
<1>13. CASE /\ lanes' = [lanes EXCEPT ![s] = ApplyCapOverflow(lane2)]
            /\ command_to_session' =
                 (command_to_session \cup {c}) \ DroppedIds(lane2)
  BY <1>13, <1>1, <1>3, <1>5, <1>6, <1>8, <1>10, <1>11, <1>14 DEF c
<1> QED BY <1>7, <1>12, <1>13

(* Submit preserves Typed in each of its modes.                            *)
LEMMA TypedSubmit ==
  ASSUME Typed, NEW s \in Session, NEW m \in SubmitModes, Submit(s, m)
  PROVE  Typed'
<1>1. /\ nextId \in Ids
      /\ LaneOK(lanes'[s])
      /\ Elements(lanes'[s].pending) \subseteq Pending(s) \cup {nextId}
      /\ \A t \in Session \ {s} : lanes'[t] = lanes[t]
      /\ command_to_session' \subseteq command_to_session \cup {nextId}
      /\ lanes' \in [Session -> Lane]
  BY SubmitLanes
<1>2. nextId' = nextId + 1 /\ nextId' \in 1 .. MaxCommands + 1
  BY <1>1, CommandsAssumption DEF Submit, Ids
<1>3. session' \in [Ids -> Session]
  BY <1>1 DEF Submit, Typed, TypeOK
<1>4. mode' \in [Ids -> QueueMode]
  <2>1. get_lane(s).mode \in QueueMode
    BY GetLaneOK DEF LaneOK, Lane
  <2>2. ResolvedMode(get_lane(s), m) \in QueueMode
    BY <2>1, ClientAssumption DEF ResolvedMode
  <2> QED BY <2>2, <1>1 DEF Submit, Typed, TypeOK
<1>5. text' \in [Ids -> SUBSET Ids] /\ short' \subseteq Ids
  BY SubmitLanes
<1>6. TypeOK'
  <2>1. /\ config' = config /\ active_count' = active_count
        /\ workers' = workers /\ running' = running
        /\ dispatcher' = dispatcher /\ owner' = owner
        /\ joining' = joining /\ thread' = thread
        /\ collected' = collected /\ ripe' = ripe /\ cancelled' = cancelled
    BY DEF Submit, threadVars
  <2>2. command_to_session' \subseteq Ids
    BY <1>1, <2>1 DEF Typed, TypeOK
  <2> QED BY <1>1, <1>2, <1>3, <1>4, <1>5, <2>1, <2>2 DEF Typed, TypeOK
<1>7. \A t \in Session : LaneOK(lanes'[t])
  BY <1>1 DEF Typed
<1>8. \A t \in Session : \A c \in Elements(lanes'[t].pending) : c < nextId'
  <2>1. \A t \in Session : \A c \in Elements(lanes'[t].pending) :
          c \in Pending(t) \cup {nextId}
    BY <1>1 DEF Pending
  <2>2. \A t \in Session : \A c \in Pending(t) : c < nextId /\ c \in Int
    BY PendingIds DEF Typed, Ids
  <2> QED BY <2>1, <2>2, <1>1, <1>2 DEF Ids
<1> QED BY <1>6, <1>7, <1>8 DEF Typed, Pending

(* One lane is replaced by a well-formed one that holds no new ids, and    *)
(* the other typed variables keep their types.                             *)
LEMMA TypedLaneUpdate ==
  ASSUME Typed, NEW s \in Session, NEW l, LaneOK(l),
         lanes' = [lanes EXCEPT ![s] = l],
         Elements(l.pending) \subseteq Pending(s),
         nextId' = nextId
  PROVE  /\ lanes' \in [Session -> Lane]
         /\ \A t \in Session : LaneOK(lanes'[t])
         /\ \A t \in Session : \A c \in Pending(t)' : c < nextId'
<1>1. lanes \in [Session -> Lane]
  BY DEF Typed, TypeOK
<1>2. \A t \in Session : lanes'[t] = IF t = s THEN l ELSE lanes[t]
  BY <1>1
<1>3. lanes' \in [Session -> Lane]
  BY <1>1 DEF LaneOK
<1>4. \A t \in Session : LaneOK(lanes'[t])
  BY <1>2 DEF Typed
<1>5. \A t \in Session : Elements(lanes'[t].pending) \subseteq Elements(lanes[t].pending)
  BY <1>2 DEF Pending
<1> QED BY <1>3, <1>4, <1>5 DEF Typed, Pending

(* Cancel preserves Typed.                                                 *)
LEMMA TypedCancel ==
  ASSUME Typed, NEW c \in Cancellable, Cancel(c)
  PROVE  Typed'
<1> DEFINE s == session[c]
           l == get_lane(s)
<1>1. c \in Ids /\ s \in Session
  BY ClientAssumption DEF Typed, TypeOK
<1>2. /\ LaneOK(l) /\ l.exists
      /\ Elements(l.pending) = Pending(s)
  BY <1>1, GetLaneOK DEF Pending
<1>3. \E k : /\ LaneOK(k)
             /\ Elements(k.pending) \subseteq Pending(s)
             /\ lanes' = [lanes EXCEPT ![s] = k]
  <2>1. CASE c \in Elements(l.pending)
    <3>1. lanes' = [lanes EXCEPT ![s] = CancelPending(l, c)]
      BY <2>1 DEF Cancel
    <3> HIDE DEF l
    <3>2. /\ LaneOK(CancelPending(l, c))
          /\ Elements(CancelPending(l, c).pending) \subseteq Pending(s)
      BY <2>1, <1>2, CancelLaneOK
    <3> QED BY <3>1, <3>2
  <2>2. CASE c \notin Elements(l.pending)
    BY <2>2, <1>2 DEF Cancel
  <2> QED BY <2>1, <2>2
<1>4. /\ lanes' \in [Session -> Lane]
      /\ \A t \in Session : LaneOK(lanes'[t])
      /\ \A t \in Session : \A d \in Pending(t)' : d < nextId'
  <2>1. nextId' = nextId
    BY DEF Cancel, commandVars
  <2> HIDE DEF s
  <2> QED BY <1>1, <1>3, <2>1, TypedLaneUpdate
<1>5. cancelled' \subseteq Ids /\ command_to_session' \subseteq Ids
  BY <1>1 DEF Cancel, Typed, TypeOK
<1>6. TypeOK'
  BY <1>4, <1>5 DEF Cancel, Typed, TypeOK, threadVars, commandVars
<1> QED BY <1>4, <1>6 DEF Typed

(* AbortSession preserves Typed.                                           *)
LEMMA TypedAbort ==
  ASSUME Typed, NEW s \in Abortable, AbortSession(s)
  PROVE  Typed'
<1>1. s \in Session /\ LaneOK(lanes[s])
  BY ClientAssumption DEF Typed
<1>2. lanes' = [lanes EXCEPT ![s] = InterruptActive(lanes[s])]
  BY DEF AbortSession
<1>3. /\ LaneOK(InterruptActive(lanes[s]))
      /\ Elements(InterruptActive(lanes[s]).pending) \subseteq Pending(s)
  BY <1>1, InterruptLaneOK DEF Pending
<1>4. /\ lanes' \in [Session -> Lane]
      /\ \A t \in Session : LaneOK(lanes'[t])
      /\ \A t \in Session : \A d \in Pending(t)' : d < nextId'
  <2>1. nextId' = nextId
    BY DEF AbortSession, commandVars
  <2> QED BY <1>1, <1>2, <1>3, <2>1, TypedLaneUpdate
<1>5. TypeOK'
  BY <1>4 DEF AbortSession, Typed, TypeOK, threadVars, commandVars, historyVars
<1> QED BY <1>4, <1>5 DEF Typed

(* ConfigureSession preserves Typed.                                       *)
LEMMA TypedConfigure ==
  ASSUME Typed, NEW s \in Session, NEW o \in Overrides, ConfigureSession(s, o)
  PROVE  Typed'
<1> DEFINE l == get_lane(s)
           k == [l EXCEPT !.mode = o.mode,
                          !.debounce = IF o.debounce >= 0 THEN o.debounce ELSE @,
                          !.cap = IF o.cap >= 0 THEN o.cap ELSE @,
                          !.drop = IF o.drop # "" THEN o.drop ELSE @]
<1>1. /\ LaneOK(l) /\ l.exists
      /\ Elements(l.pending) = Pending(s)
  BY GetLaneOK DEF Pending
<1>2. o \in Override
  BY ConfigAssumption
<1>3. lanes' = [lanes EXCEPT ![s] = k]
  BY DEF ConfigureSession
<1>4. LaneOK(k) /\ k.pending = l.pending
  <2> HIDE DEF l
  <2> QED BY <1>1, <1>2 DEF LaneOK, Lane, Override
<1>5. /\ lanes' \in [Session -> Lane]
      /\ \A t \in Session : LaneOK(lanes'[t])
      /\ \A t \in Session : \A d \in Pending(t)' : d < nextId'
  <2>1. nextId' = nextId
    BY DEF ConfigureSession, commandVars
  <2> HIDE DEF k, l
  <2> QED BY <1>1, <1>3, <1>4, <2>1, TypedLaneUpdate
<1>6. TypeOK'
  BY <1>5 DEF ConfigureSession, Typed, TypeOK, threadVars, commandVars, historyVars
<1> QED BY <1>5, <1>6 DEF Typed

(* The commands a scan that activates the lanes D starts.                  *)
Started(D) == {Head(lanes[s].pending) : s \in D}

(* What a scan does, with the set of lanes it activates named.             *)
LEMMA ScanFacts ==
  ASSUME Typed, DispatcherScan
  PROVE  \E D \in SUBSET Session :
           /\ \A s \in D : /\ lanes[s].exists
                           /\ lanes[s].active = NoCommand
                           /\ lanes[s].pending # <<>>
           /\ IsFiniteSet(D)
           /\ Cardinality(D) \in Nat
           /\ D # {} => active_count + Cardinality(D) <= config.max_concurrent
           /\ active_count' = active_count + Cardinality(D)
           /\ lanes' = [s \in Session |->
                          IF s \in D THEN Activate(lanes[s])
                          ELSE IF IsIdle(lanes[s]) THEN AbsentLane
                          ELSE lanes[s]]
           /\ thread' = [c \in Ids |-> IF c \in Started(D) THEN "todo"
                                       ELSE thread[c]]
           /\ command_to_session' = command_to_session \ Started(D)
           /\ collected' = [c \in Ids |->
                IF c \in Started(D) /\ mode[c] = "collect"
                THEN UNION {text[d] : d \in Pending(session[c]) \ {c}}
                ELSE collected[c]]
<1>1. PICK D \in ScanChoices :
           /\ active_count' = active_count + Cardinality(D)
           /\ lanes' = [s \in Session |->
                          IF s \in D THEN Activate(lanes[s])
                          ELSE IF IsIdle(lanes[s]) THEN AbsentLane
                          ELSE lanes[s]]
           /\ thread' = [c \in Ids |-> IF c \in Started(D) THEN "todo"
                                       ELSE thread[c]]
           /\ command_to_session' = command_to_session \ Started(D)
           /\ collected' = [c \in Ids |->
                IF c \in Started(D) /\ mode[c] = "collect"
                THEN UNION {text[d] : d \in Pending(session[c]) \ {c}}
                ELSE collected[c]]
  BY DEF DispatcherScan, Started
<1>2. D \subseteq Session /\ D \subseteq Activatable
  BY DEF ScanChoices, Activatable
<1>3. \A s \in D : /\ lanes[s].exists
                   /\ lanes[s].active = NoCommand
                   /\ lanes[s].pending # <<>>
  BY <1>2 DEF Activatable, CanActivate
<1>4. IsFiniteSet(D) /\ Cardinality(D) \in Nat
  BY <1>2, SessionAssumption, FS_Subset, FS_CardinalityType
<1>5. IsFiniteSet(Activatable) /\ Cardinality(Activatable) \in Nat
  BY SessionAssumption, FS_Subset, FS_CardinalityType DEF Activatable
<1>6. active_count \in Int /\ config.max_concurrent \in Int
  BY DEF Typed, TypeOK, QueueConfig
<1>7. Cardinality(D) <= FreeSlots
  BY <1>5, <1>6 DEF ScanChoices, FreeSlots
<1>8. D # {} => Cardinality(D) # 0
  BY <1>4, FS_EmptySet
<1>9. D # {} => active_count + Cardinality(D) <= config.max_concurrent
  BY <1>4, <1>6, <1>7, <1>8 DEF FreeSlots
<1> QED BY <1>1, <1>2, <1>3, <1>4, <1>9

(* A session without a lane reads as a well-formed lane with nothing in    *)
(* it.                                                                     *)
LEMMA AbsentLaneOK ==
  /\ LaneOK(AbsentLane)
  /\ AbsentLane.active = NoCommand
  /\ AbsentLane.pending = <<>>
  /\ Elements(AbsentLane.pending) = {}
BY NewLaneOK, ConfigAssumption, EmptyIncreasing DEF AbsentLane, NewLane

(* Each lane after a scan.                                                 *)
LEMMA ScanLane ==
  ASSUME Typed, NEW D \in SUBSET Session,
         \A s \in D : lanes[s].exists /\ lanes[s].pending # <<>>,
         lanes' = [s \in Session |->
                    IF s \in D THEN Activate(lanes[s])
                    ELSE IF IsIdle(lanes[s]) THEN AbsentLane
                    ELSE lanes[s]],
         NEW s \in Session
  PROVE  /\ LaneOK(lanes'[s])
         /\ Elements(lanes'[s].pending) \subseteq Pending(s)
         /\ s \in D => /\ Head(lanes[s].pending) \in Pending(s)
                       /\ Head(lanes[s].pending) \in Ids
                       /\ lanes'[s].active = Head(lanes[s].pending)
                       /\ \A e \in Elements(lanes'[s].pending) :
                            Head(lanes[s].pending) < e
                       /\ \A e \in Pending(s) : Head(lanes[s].pending) <= e
         /\ s \notin D => lanes'[s].active = lanes[s].active
<1>1. LaneOK(lanes[s])
  BY DEF Typed
<1>2. CASE s \in D
  BY <1>1, <1>2, ActivateLaneOK, PendingIds DEF Pending
<1>3. CASE s \notin D
  BY <1>1, <1>3, AbsentLaneOK DEF Pending, IsIdle
<1> QED BY <1>2, <1>3

(* The dispatcher's scan preserves Typed.                                  *)
LEMMA TypedScan ==
  ASSUME Typed, DispatcherScan
  PROVE  Typed'
<1>1. PICK D \in SUBSET Session :
           /\ \A s \in D : /\ lanes[s].exists
                           /\ lanes[s].pending # <<>>
           /\ Cardinality(D) \in Nat
           /\ active_count' = active_count + Cardinality(D)
           /\ lanes' = [s \in Session |->
                          IF s \in D THEN Activate(lanes[s])
                          ELSE IF IsIdle(lanes[s]) THEN AbsentLane
                          ELSE lanes[s]]
           /\ thread' = [c \in Ids |-> IF c \in Started(D) THEN "todo"
                                       ELSE thread[c]]
           /\ command_to_session' = command_to_session \ Started(D)
           /\ collected' = [c \in Ids |->
                IF c \in Started(D) /\ mode[c] = "collect"
                THEN UNION {text[d] : d \in Pending(session[c]) \ {c}}
                ELSE collected[c]]
  BY ScanFacts
<1>2. \A s \in Session : LaneOK(lanes'[s])
  BY <1>1, ScanLane
<1>3. \A s \in Session : Elements(lanes'[s].pending) \subseteq Pending(s)
  BY <1>1, ScanLane
<1>4. nextId' = nextId
  BY DEF DispatcherScan
<1>5. lanes' \in [Session -> Lane]
  BY <1>1, <1>2 DEF LaneOK
<1>6. thread' \in [Ids -> Phase]
  BY <1>1 DEF Typed, TypeOK, Phase
<1>7. collected' \in [Ids -> SUBSET Ids]
  <2>1. \A c \in Ids : Pending(session[c]) \subseteq Ids
    BY PendingIds DEF Typed, TypeOK
  <2>2. \A c \in Ids : UNION {text[d] : d \in Pending(session[c]) \ {c}} \in SUBSET Ids
    BY <2>1 DEF Typed, TypeOK
  <2> QED BY <1>1, <2>2 DEF Typed, TypeOK
<1>8. active_count' \in Int /\ command_to_session' \subseteq Ids
  BY <1>1 DEF Typed, TypeOK
<1>9. TypeOK'
  BY <1>5, <1>6, <1>7, <1>8 DEF DispatcherScan, Typed, TypeOK, historyVars
<1> QED BY <1>2, <1>3, <1>4, <1>9 DEF Typed, Pending

(* The worker's completion preserves Typed, even when the lane was erased  *)
(* meanwhile.                                                              *)
LEMMA TypedComplete ==
  ASSUME Typed, NEW c \in Ids, CompleteCommand(c)
  PROVE  Typed'
<1> DEFINE s == session[c]
           k == IF lanes[s].exists THEN CompleteActive(lanes[s]) ELSE lanes[s]
<1>1. s \in Session /\ LaneOK(lanes[s])
  BY DEF Typed, TypeOK
<1>2. LaneOK(k) /\ k.pending = lanes[s].pending
  <2> HIDE DEF s
  <2> QED BY <1>1 DEF LaneOK, Lane, CompleteActive, IsIdle
<1>3. lanes' = [lanes EXCEPT ![s] = k]
  BY DEF CompleteCommand
<1>4. /\ lanes' \in [Session -> Lane]
      /\ \A t \in Session : LaneOK(lanes'[t])
      /\ \A t \in Session : \A d \in Pending(t)' : d < nextId'
  <2>1. nextId' = nextId
    BY DEF CompleteCommand, commandVars
  <2>2. Elements(k.pending) \subseteq Pending(s)
    BY <1>2 DEF Pending
  <2> HIDE DEF k, s
  <2> QED BY <1>1, <1>2, <1>3, <2>1, <2>2, TypedLaneUpdate
<1>5. TypeOK'
  <2>1. active_count' \in Int /\ thread' \in [Ids -> Phase]
    BY DEF CompleteCommand, Typed, TypeOK, Phase
  <2> QED BY <1>4, <2>1 DEF CompleteCommand, Typed, TypeOK, commandVars, historyVars
<1> QED BY <1>4, <1>5 DEF Typed

(* Every step of the queue, its clients and its threads preserves Typed.   *)
LEMMA TypedStep == Typed /\ [Next]_vars => Typed'
<1> SUFFICES ASSUME Typed, [Next]_vars PROVE Typed'
  OBVIOUS
<1>1. CASE ClientNext
  <2>1. ASSUME NEW cfg \in Configs, SetConfig(cfg) PROVE Typed'
    <3>1. config' \in QueueConfig
      BY <2>1, ConfigAssumption DEF SetConfig
    <3>2. TypeOK' /\ lanes' = lanes /\ nextId' = nextId
      BY <2>1, <3>1 DEF SetConfig, Typed, TypeOK, threadVars, commandVars,
                        historyVars
    <3> QED BY <3>2 DEF Typed, Pending
  <2> QED BY <1>1, <2>1, TypedSubmit, TypedCancel, TypedAbort, TypedConfigure
          DEF ClientNext
<1>2. CASE DispatcherScan
  BY <1>2, TypedScan
<1>3. ASSUME NEW c \in Ids, SpawnWorker(c) \/ ExecutorReturns(c)
      PROVE  Typed'
  <2>1. thread' \in [Ids -> Phase] /\ workers' \subseteq Ids
    BY <1>3 DEF SpawnWorker, ExecutorReturns, Typed, TypeOK, Phase
  <2>2. TypeOK' /\ lanes' = lanes /\ nextId' = nextId
    BY <1>3, <2>1 DEF SpawnWorker, ExecutorReturns, Typed, TypeOK, queueVars,
                      commandVars, historyVars
  <2> QED BY <2>2 DEF Typed, Pending
<1>4. CASE WorkerNext
  BY <1>3, <1>4, TypedComplete DEF WorkerNext
<1>5. ASSUME NEW s \in Session, DebounceElapses(s) PROVE Typed'
  <2>1. lanes[s].pending \in Seq(Ids) /\ lanes[s].pending # <<>>
    BY <1>5 DEF DebounceElapses, Typed, LaneOK, Lane
  <2>2. ripe' \in Ids
    BY <2>1, <1>5, HeadTailProperties DEF DebounceElapses
  <2>3. ripe' \in 0 .. MaxCommands
    BY <2>2 DEF Ids
  <2>4. TypeOK' /\ lanes' = lanes /\ nextId' = nextId
    BY <1>5, <2>3 DEF DebounceElapses, Typed, TypeOK, queueVars, threadVars,
                      historyVars
  <2> QED BY <2>4 DEF Typed, Pending
<1>6. CASE DispatcherExit \/ Start \/ StopBegin \/ StopSwapWorkers \/ StopReturn
  <2>1. TypeOK' /\ lanes' = lanes /\ nextId' = nextId
    BY <1>6 DEF DispatcherExit, Start, StopBegin, StopSwapWorkers, StopReturn,
                Typed, TypeOK, queueVars, commandVars, historyVars
  <2> QED BY <2>1 DEF Typed, Pending
<1>7. CASE UNCHANGED vars
  <2>1. TypeOK' /\ lanes' = lanes /\ nextId' = nextId
    BY <1>7 DEF vars, queueVars, threadVars, commandVars, historyVars, Typed,
                TypeOK
  <2> QED BY <2>1 DEF Typed, Pending
<1> QED BY <1>1, <1>2, <1>4, <1>5, <1>6, <1>7 DEF Next

(* Typed is an inductive invariant of the command queue.                   *)
THEOREM TypedInvariant == Spec => []Typed
BY TypedInit, TypedStep, PTL DEF Spec

(* Every variable keeps its type, for every number of sessions and         *)
(* commands and every configuration that SetConfig or ConfigureSession     *)
(* installs.                                                               *)
THEOREM TypeCorrect == Spec => []TypeOK
<1>1. Typed => TypeOK
  BY DEF Typed
<1> QED BY <1>1, TypedInvariant, PTL

-----------------------------------------------------------------------------
(* Ownership of commands *)

(* A pending command belongs to its lane, has not run, can be cancelled    *)
(* and is newer than everything its session ever started.                  *)
PendingOwned ==
  \A s \in Session : \A c \in Pending(s) :
    /\ session[c] = s
    /\ thread[c] = "none"
    /\ c \in command_to_session
    /\ c \notin cancelled
    /\ \A d \in Ids : thread[d] # "none" /\ session[d] = s => d < c

Issued == \A c \in Ids : thread[c] # "none" \/ c \in cancelled => c < nextId

(* The inductive invariant behind PendingMapped, ActiveLaneHasWorker,      *)
(* CancelledNeverRuns and StartOrder.                                      *)
Owned ==
  /\ Typed
  /\ PendingOwned
  /\ Issued
  /\ ActiveLaneHasWorker
  /\ CancelledNeverRuns

(* The constructor establishes Owned.                                      *)
LEMMA OwnedInit == Init => Owned
<1> SUFFICES ASSUME Init PROVE Owned
  OBVIOUS
<1>1. \A s \in Session : Pending(s) = {} /\ ~HasActive(lanes[s])
  BY AbsentLaneOK DEF Pending, HasActive, Init
<1> QED BY <1>1, TypedInit
        DEF Owned, PendingOwned, Issued, ActiveLaneHasWorker,
            CancelledNeverRuns, Init

(* Submit preserves Owned: the new id goes to one lane and to the map of   *)
(* ids, the dropped ones leave both.                                       *)
LEMMA OwnedSubmit ==
  ASSUME Owned, NEW s \in Session, NEW m \in SubmitModes, Submit(s, m)
  PROVE  Owned'
<1>1. /\ nextId \in Ids
      /\ Elements(lanes'[s].pending) \subseteq Pending(s) \cup {nextId}
      /\ lanes'[s].active = lanes[s].active \/ lanes'[s].active = NoCommand
      /\ \A t \in Session \ {s} : lanes'[t] = lanes[t]
      /\ Elements(lanes'[s].pending) \subseteq command_to_session'
           \cup (Pending(s) \ command_to_session)
      /\ \A t \in Session \ {s} : Pending(t) \cap Pending(s) = {} =>
            Pending(t) \cap command_to_session \subseteq command_to_session'
  BY SubmitLanes DEF Owned
<1>2. /\ thread' = thread /\ cancelled' = cancelled /\ nextId' = nextId + 1
      /\ session' = [session EXCEPT ![nextId] = s]
  BY DEF Submit, threadVars
<1>3. thread[nextId] = "none" /\ nextId \notin cancelled
  BY <1>1 DEF Owned, Issued, Ids
<1>4. \A d \in Ids : d # nextId => session'[d] = session[d]
  BY <1>2 DEF Owned, Typed, TypeOK
<1>5. session'[nextId] = s
  BY <1>1, <1>2 DEF Owned, Typed, TypeOK
<1>6. \A t \in Session : \A c \in Pending(t) : c \in Ids /\ c # nextId
  BY PendingIds DEF Owned, Typed, Ids
<1>7. \A t \in Session : Elements(lanes'[t].pending) \subseteq command_to_session'
  <2>1. \A t \in Session : Pending(t) \subseteq command_to_session
    BY DEF Owned, PendingOwned
  <2>2. \A t \in Session \ {s} : Pending(t) \cap Pending(s) = {}
    BY DEF Owned, PendingOwned
  <2> QED BY <1>1, <2>1, <2>2 DEF Pending
<1>8. PendingOwned'
  <2> SUFFICES ASSUME NEW t \in Session, NEW c \in Elements(lanes'[t].pending)
               PROVE  /\ session'[c] = t
                      /\ thread[c] = "none"
                      /\ c \in command_to_session'
                      /\ c \notin cancelled
                      /\ \A d \in Ids :
                           thread[d] # "none" /\ session'[d] = t => d < c
    BY <1>2 DEF PendingOwned, Pending
  <2>1. c \in command_to_session'
    BY <1>7
  <2>2. CASE c \in Pending(t)
    BY <2>1, <2>2, <1>3, <1>4, <1>6 DEF Owned, PendingOwned
  <2>3. CASE c = nextId /\ t = s
    <3>1. \A d \in Ids : thread[d] # "none" => d < nextId
      BY DEF Owned, Issued
    <3> QED BY <2>1, <2>3, <3>1, <1>3, <1>5
  <2> QED BY <2>2, <2>3, <1>1 DEF Pending
<1>9. Issued'
  BY <1>1, <1>2 DEF Owned, Issued, Ids
<1>10. ActiveLaneHasWorker'
  <2> SUFFICES ASSUME NEW t \in Session, lanes'[t].active # NoCommand
               PROVE  lanes'[t].active \in Live' /\ session'[lanes'[t].active] = t
    BY DEF ActiveLaneHasWorker, HasActive
  <2>1. lanes'[t].active = lanes[t].active
    BY <1>1
  <2>2. lanes[t].active \in Live /\ session[lanes[t].active] = t
    BY <2>1 DEF Owned, ActiveLaneHasWorker, HasActive
  <2>3. lanes[t].active \in Ids /\ lanes[t].active # nextId
    BY <2>2, <1>3 DEF Live
  <2> QED BY <2>1, <2>2, <2>3, <1>2, <1>4 DEF Live
<1>11. CancelledNeverRuns'
  BY <1>2 DEF Owned, CancelledNeverRuns
<1>12. Typed'
  BY TypedSubmit DEF Owned
<1> QED BY <1>8, <1>9, <1>10, <1>11, <1>12 DEF Owned

(* Steps that shrink the pending deques, forget active commands and leave  *)
(* the runs alone.                                                         *)
LEMMA OwnedShrink ==
  ASSUME Owned, Typed',
         UNCHANGED <<thread, session, nextId>>,
         \A t \in Session : Elements(lanes'[t].pending) \subseteq Pending(t),
         \A t \in Session : lanes'[t].active \in {lanes[t].active, NoCommand},
         \A t \in Session : Elements(lanes'[t].pending) \subseteq command_to_session',
         \A t \in Session : Elements(lanes'[t].pending) \cap cancelled' = {},
         \A c \in cancelled' : c \in cancelled \/ \E t \in Session : c \in Pending(t)
  PROVE  Owned'
<1>1. PendingOwned'
  BY DEF Owned, PendingOwned, Pending
<1>2. Issued'
  BY PendingIds DEF Owned, Issued, Typed
<1>3. ActiveLaneHasWorker'
  BY DEF Owned, ActiveLaneHasWorker, HasActive, Live
<1>4. CancelledNeverRuns'
  BY DEF Owned, CancelledNeverRuns, PendingOwned
<1> QED BY <1>1, <1>2, <1>3, <1>4 DEF Owned

(* Cancel preserves Owned: a cancelled id is in no queue.                  *)
LEMMA OwnedCancel ==
  ASSUME Owned, NEW c \in Cancellable, Cancel(c)
  PROVE  Owned'
<1> DEFINE s == session[c]
           l == get_lane(s)
<1>1. c \in Ids /\ s \in Session /\ lanes \in [Session -> Lane]
  BY ClientAssumption DEF Owned, Typed, TypeOK
<1>2. /\ LaneOK(l) /\ l.exists /\ l.active = lanes[s].active
      /\ Elements(l.pending) = Pending(s)
  BY <1>1, GetLaneOK DEF Pending, Owned
<1>3. /\ UNCHANGED <<thread, session, nextId>>
      /\ command_to_session' = command_to_session \ {c}
  BY DEF Cancel, threadVars, commandVars
<1>4. \A t \in Session \ {s} : lanes'[t] = lanes[t]
  BY <1>1 DEF Cancel
<1>5. /\ Elements(lanes'[s].pending) = Pending(s) \ {c}
      /\ lanes'[s].active = lanes[s].active
      /\ cancelled' = cancelled \/ (cancelled' = cancelled \cup {c} /\ c \in Pending(s))
  <2>1. CASE c \in Elements(l.pending)
    <3>1. /\ lanes' = [lanes EXCEPT ![s] = CancelPending(l, c)]
          /\ cancelled' = cancelled \cup {c}
      BY <2>1 DEF Cancel
    <3>2. /\ Elements(CancelPending(l, c).pending) = Pending(s) \ {c}
          /\ CancelPending(l, c).active = lanes[s].active
      <4> HIDE DEF l
      <4> QED BY <2>1, <1>2, CancelLaneOK
    <3> HIDE DEF l, s
    <3> QED BY <3>1, <3>2, <2>1, <1>1, <1>2
  <2>2. CASE c \notin Elements(l.pending)
    <3>1. lanes' = [lanes EXCEPT ![s] = l] /\ cancelled' = cancelled
      BY <2>2 DEF Cancel
    <3> HIDE DEF l, s
    <3> QED BY <3>1, <2>2, <1>1, <1>2
  <2> QED BY <2>1, <2>2
<1>6. \A t \in Session \ {s} : c \notin Pending(t)
  BY DEF Owned, PendingOwned
<1>7. \A t \in Session : Elements(lanes'[t].pending) \subseteq Pending(t) \ {c}
  BY <1>4, <1>5, <1>6 DEF Pending
<1>8. \A t \in Session : Pending(t) \subseteq command_to_session
                         /\ Pending(t) \cap cancelled = {}
  BY DEF Owned, PendingOwned
<1>9. Typed'
  BY TypedCancel DEF Owned
<1>10. \A t \in Session : lanes'[t].active = lanes[t].active
  BY <1>4, <1>5
<1>11. \A t \in Session : /\ Elements(lanes'[t].pending) \subseteq command_to_session'
                          /\ Elements(lanes'[t].pending) \cap cancelled' = {}
  BY <1>3, <1>5, <1>7, <1>8
<1> QED BY <1>1, <1>3, <1>5, <1>7, <1>9, <1>10, <1>11, OwnedShrink

(* AbortSession preserves Owned.                                           *)
LEMMA OwnedAbort ==
  ASSUME Owned, NEW s \in Abortable, AbortSession(s)
  PROVE  Owned'
<1>1. s \in Session /\ LaneOK(lanes[s]) /\ lanes \in [Session -> Lane]
  BY ClientAssumption DEF Owned, Typed, TypeOK
<1>2. /\ UNCHANGED <<thread, session, nextId, cancelled>>
      /\ command_to_session' = command_to_session \ {lanes[s].active}
      /\ lanes' = [lanes EXCEPT ![s] = InterruptActive(lanes[s])]
  BY DEF AbortSession, threadVars, commandVars, historyVars
<1>3. \A t \in Session : Elements(lanes'[t].pending) \subseteq Pending(t)
  BY <1>1, <1>2, InterruptLaneOK DEF Pending
<1>4. \A t \in Session : lanes'[t].active \in {lanes[t].active, NoCommand}
  BY <1>1, <1>2, InterruptLaneOK
<1>5. \A t \in Session : \A c \in Pending(t) :
        c \in command_to_session /\ c \notin cancelled /\ c # lanes[s].active
  <2>1. \A t \in Session : \A c \in Pending(t) :
          c \in Ids /\ c \in command_to_session /\ c \notin cancelled /\ c \notin Live
    BY PendingIds DEF Owned, PendingOwned, Live
  <2>2. lanes[s].active \in Live \/ lanes[s].active = NoCommand
    BY <1>1 DEF Owned, ActiveLaneHasWorker, HasActive
  <2> QED BY <2>1, <2>2, ClientAssumption
<1>6. Typed'
  BY TypedAbort DEF Owned
<1> QED BY <1>2, <1>3, <1>4, <1>5, <1>6, OwnedShrink

(* ConfigureSession preserves Owned: it changes no queue.                  *)
LEMMA OwnedConfigure ==
  ASSUME Owned, NEW s \in Session, NEW o \in Overrides, ConfigureSession(s, o)
  PROVE  Owned'
<1>1. /\ LaneOK(get_lane(s))
      /\ get_lane(s).active = lanes[s].active
      /\ get_lane(s).pending = lanes[s].pending
      /\ lanes \in [Session -> Lane]
  BY GetLaneOK DEF Owned, Typed, TypeOK
<1>2. UNCHANGED <<thread, session, nextId, cancelled, command_to_session>>
  BY DEF ConfigureSession, threadVars, commandVars, historyVars
<1>3. /\ lanes'[s].active = get_lane(s).active
      /\ lanes'[s].pending = get_lane(s).pending
      /\ \A t \in Session \ {s} : lanes'[t] = lanes[t]
  <2> DEFINE l == get_lane(s)
  <2>1. lanes'[s] = [l EXCEPT !.mode = o.mode,
                        !.debounce = IF o.debounce >= 0 THEN o.debounce ELSE @,
                        !.cap = IF o.cap >= 0 THEN o.cap ELSE @,
                        !.drop = IF o.drop # "" THEN o.drop ELSE @]
    BY <1>1 DEF ConfigureSession
  <2>2. \A t \in Session \ {s} : lanes'[t] = lanes[t]
    BY <1>1 DEF ConfigureSession
  <2>3. l \in Lane
    BY <1>1 DEF LaneOK
  <2> HIDE DEF l
  <2>4. lanes'[s].active = l.active /\ lanes'[s].pending = l.pending
    BY <2>1, <2>3 DEF Lane
  <2> QED BY <2>2, <2>4 DEF l
<1>4. \A t \in Session : /\ lanes'[t].pending = lanes[t].pending
                         /\ lanes'[t].active = lanes[t].active
  BY <1>1, <1>3
<1>5. \A t \in Session : Pending(t) \subseteq command_to_session
                         /\ Pending(t) \cap cancelled = {}
  BY DEF Owned, PendingOwned
<1>6. Typed'
  BY TypedConfigure DEF Owned
<1>7. \A t \in Session : Elements(lanes'[t].pending) = Pending(t)
  BY <1>4 DEF Pending
<1> QED BY <1>2, <1>4, <1>5, <1>6, <1>7, OwnedShrink

(* A scan starts exactly the oldest pending command of each lane it        *)
(* activates.                                                              *)
LEMMA OwnedScan ==
  ASSUME Owned, DispatcherScan
  PROVE  Owned'
<1>1. PICK D \in SUBSET Session :
           /\ \A s \in D : /\ lanes[s].exists
                           /\ lanes[s].active = NoCommand
                           /\ lanes[s].pending # <<>>
           /\ lanes' = [s \in Session |->
                          IF s \in D THEN Activate(lanes[s])
                          ELSE IF IsIdle(lanes[s]) THEN AbsentLane
                          ELSE lanes[s]]
           /\ thread' = [c \in Ids |-> IF c \in Started(D) THEN "todo"
                                       ELSE thread[c]]
           /\ command_to_session' = command_to_session \ Started(D)
  BY ScanFacts DEF Owned
<1>2. UNCHANGED <<session, nextId, cancelled>>
  BY DEF DispatcherScan, historyVars
<1>3. \A s \in Session :
         /\ Elements(lanes'[s].pending) \subseteq Pending(s)
         /\ s \in D => /\ Head(lanes[s].pending) \in Pending(s)
                       /\ Head(lanes[s].pending) \in Ids
                       /\ lanes'[s].active = Head(lanes[s].pending)
                       /\ \A e \in Elements(lanes'[s].pending) :
                            Head(lanes[s].pending) < e
         /\ s \notin D => lanes'[s].active = lanes[s].active
  BY <1>1, ScanLane DEF Owned
<1>4. \A s \in D : /\ session[Head(lanes[s].pending)] = s
                   /\ thread[Head(lanes[s].pending)] = "none"
                   /\ Head(lanes[s].pending) \notin cancelled
                   /\ Head(lanes[s].pending) < nextId
  BY <1>3 DEF Owned, PendingOwned, Typed
<1>5. \A c \in Started(D) : \E s \in D : c = Head(lanes[s].pending)
  BY DEF Started
<1>6. \A s \in Session : \A c \in Elements(lanes'[s].pending) :
        c \in Ids /\ c \notin Started(D)
  <2> SUFFICES ASSUME NEW s \in Session, NEW c \in Elements(lanes'[s].pending),
                      c \in Started(D)
               PROVE  FALSE
    BY <1>3, PendingIds DEF Owned
  <2>1. PICK t \in D : c = Head(lanes[t].pending)
    BY <1>5
  <2>2. session[c] = s /\ session[c] = t /\ c \in Ids
    BY <2>1, <1>3, <1>4 DEF Owned, PendingOwned
  <2>3. c < c
    BY <2>1, <2>2, <1>3
  <2> QED BY <2>2, <2>3 DEF Ids
<1>7. PendingOwned'
  <2> SUFFICES ASSUME NEW s \in Session, NEW c \in Elements(lanes'[s].pending)
               PROVE  /\ session[c] = s
                      /\ thread'[c] = "none"
                      /\ c \in command_to_session'
                      /\ c \notin cancelled
                      /\ \A d \in Ids : thread'[d] # "none" /\ session[d] = s => d < c
    BY <1>2 DEF PendingOwned, Pending
  <2>1. c \in Pending(s) /\ c \in Ids /\ c \notin Started(D)
    BY <1>3, <1>6
  <2>2. /\ session[c] = s /\ thread[c] = "none" /\ c \in command_to_session
        /\ c \notin cancelled
        /\ \A d \in Ids : thread[d] # "none" /\ session[d] = s => d < c
    BY <2>1 DEF Owned, PendingOwned
  <2>3. ASSUME NEW d \in Ids, thread'[d] # "none", session[d] = s
        PROVE  d < c
    <3>1. CASE d \in Started(D)
      <4>1. PICK t \in D : d = Head(lanes[t].pending)
        BY <1>5, <3>1
      <4>2. t = s
        BY <4>1, <2>3, <1>4
      <4> QED BY <4>1, <4>2, <1>3
    <3>2. CASE d \notin Started(D)
      BY <3>2, <2>2, <2>3, <1>1
    <3> QED BY <3>1, <3>2
  <2> QED BY <1>1, <2>1, <2>2, <2>3
<1>8. Issued'
  <2>1. \A c \in Started(D) : c < nextId
    BY <1>4, <1>5
  <2> QED BY <1>1, <1>2, <2>1 DEF Owned, Issued
<1>9. ActiveLaneHasWorker'
  <2> SUFFICES ASSUME NEW s \in Session, lanes'[s].active # NoCommand
               PROVE  lanes'[s].active \in Live' /\ session[lanes'[s].active] = s
    BY <1>2 DEF ActiveLaneHasWorker, HasActive
  <2>1. CASE s \in D
    BY <2>1, <1>1, <1>3, <1>4 DEF Live, Started
  <2>2. CASE s \notin D
    <3>1. lanes[s].active \in Live /\ session[lanes[s].active] = s
          /\ lanes'[s].active = lanes[s].active
      BY <2>2, <1>3 DEF Owned, ActiveLaneHasWorker, HasActive
    <3>2. lanes[s].active \in Ids /\ thread[lanes[s].active] \in {"todo", "running", "answered"}
      BY <3>1 DEF Live
    <3> QED BY <3>1, <3>2, <1>1 DEF Live
  <2> QED BY <2>1, <2>2
<1>10. CancelledNeverRuns'
  <2>1. \A c \in cancelled : c \in Ids /\ c \notin Started(D)
    BY <1>4, <1>5 DEF Owned, Typed, TypeOK
  <2> QED BY <1>1, <1>2, <2>1 DEF Owned, CancelledNeverRuns
<1>11. Typed'
  BY TypedScan DEF Owned
<1> QED BY <1>7, <1>8, <1>9, <1>10, <1>11 DEF Owned

(* A worker that moves on between dispatch and completion stays live.      *)
LEMMA OwnedWorker ==
  ASSUME Owned, NEW c \in Ids, SpawnWorker(c) \/ ExecutorReturns(c)
  PROVE  Owned' /\ Live' = Live
<1>1. UNCHANGED <<lanes, command_to_session, session, nextId, cancelled>>
  BY DEF SpawnWorker, ExecutorReturns, queueVars, commandVars, historyVars
<1>2. \E p \in {"running", "answered"} : thread' = [thread EXCEPT ![c] = p]
  BY DEF SpawnWorker, ExecutorReturns
<1>3. thread[c] \in {"todo", "running"} /\ thread \in [Ids -> Phase]
  BY DEF SpawnWorker, ExecutorReturns, Owned, Typed, TypeOK
<1>4. \A d \in Ids : thread'[d] = "none" <=> thread[d] = "none"
  BY <1>2, <1>3
<1>5. Live' = Live
  BY <1>2, <1>3 DEF Live
<1>6. PendingOwned'
  BY <1>1, <1>4, PendingIds DEF Owned, PendingOwned, Pending
<1>7. Issued'
  BY <1>1, <1>4 DEF Owned, Issued
<1>8. ActiveLaneHasWorker'
  BY <1>1, <1>5 DEF Owned, ActiveLaneHasWorker
<1>9. CancelledNeverRuns'
  BY <1>1, <1>4 DEF Owned, CancelledNeverRuns, Typed, TypeOK
<1>10. Typed'
  <2>1. WorkerNext
    BY DEF WorkerNext
  <2> QED BY <2>1, TypedStep DEF Owned, Next
<1> QED BY <1>5, <1>6, <1>7, <1>8, <1>9, <1>10 DEF Owned

(* The worker's completion preserves Owned and ends exactly its own run.   *)
LEMMA OwnedComplete ==
  ASSUME Owned, NEW c \in Ids, CompleteCommand(c)
  PROVE  Owned' /\ Live' = Live \ {c} /\ c \in Live
<1>1. UNCHANGED <<command_to_session, session, nextId, cancelled>>
  BY DEF CompleteCommand, commandVars, historyVars
<1>2. /\ thread[c] = "answered" /\ thread \in [Ids -> Phase]
      /\ thread' = [thread EXCEPT ![c] = "done"]
      /\ session[c] \in Session
      /\ lanes \in [Session -> Lane]
  BY DEF CompleteCommand, Owned, Typed, TypeOK
<1>3. Live' = Live \ {c} /\ c \in Live
  BY <1>2 DEF Live
<1>4. \A d \in Ids : thread'[d] = "none" <=> thread[d] = "none"
  BY <1>2
<1>5. /\ \A t \in Session : lanes'[t].pending = lanes[t].pending
      /\ \A t \in Session \ {session[c]} : lanes'[t] = lanes[t]
      /\ lanes'[session[c]].active = NoCommand
  <2> DEFINE s == session[c]
  <2>1. LaneOK(lanes[s])
    BY <1>2 DEF Owned, Typed
  <2>2. lanes' = [lanes EXCEPT ![s] =
                   IF lanes[s].exists THEN CompleteActive(lanes[s]) ELSE lanes[s]]
    BY DEF CompleteCommand
  <2> HIDE DEF s
  <2>3. s \in Session
    BY <1>2 DEF s
  <2>4. /\ \A t \in Session : lanes'[t].pending = lanes[t].pending
        /\ \A t \in Session \ {s} : lanes'[t] = lanes[t]
        /\ lanes'[s].active = NoCommand
    BY <1>2, <2>1, <2>2, <2>3 DEF LaneOK, Lane, IsIdle, CompleteActive
  <2> QED BY <2>4 DEF s
<1>6. PendingOwned'
  BY <1>1, <1>4, <1>5, PendingIds DEF Owned, PendingOwned, Pending
<1>7. Issued'
  BY <1>1, <1>4 DEF Owned, Issued
<1>8. ActiveLaneHasWorker'
  BY <1>1, <1>2, <1>3, <1>5 DEF Owned, ActiveLaneHasWorker, HasActive
<1>9. CancelledNeverRuns'
  BY <1>1, <1>4 DEF Owned, CancelledNeverRuns, Typed, TypeOK
<1>10. Typed'
  BY TypedComplete DEF Owned
<1> QED BY <1>3, <1>6, <1>7, <1>8, <1>9, <1>10 DEF Owned

(* Steps that touch neither lanes nor commands nor runs.                   *)
LEMMA OwnedUnchanged ==
  ASSUME Owned, Typed',
         UNCHANGED <<lanes, command_to_session, thread, session, nextId, cancelled>>
  PROVE  Owned' /\ Live' = Live
BY DEF Owned, PendingOwned, Issued, ActiveLaneHasWorker, CancelledNeverRuns,
       Pending, Live

(* Every step preserves Owned.                                             *)
LEMMA OwnedStep == Owned /\ [Next]_vars => Owned'
<1> SUFFICES ASSUME Owned, [Next]_vars PROVE Owned'
  OBVIOUS
<1>1. Typed'
  BY TypedStep DEF Owned
<1>2. CASE ClientNext
  <2>1. ASSUME NEW cfg \in Configs, SetConfig(cfg) PROVE Owned'
    BY <2>1, <1>1, OwnedUnchanged
       DEF SetConfig, threadVars, commandVars, historyVars
  <2> QED BY <1>2, <2>1, OwnedSubmit, OwnedCancel, OwnedAbort, OwnedConfigure
          DEF ClientNext
<1>3. CASE DispatcherScan
  BY <1>3, OwnedScan
<1>4. CASE WorkerNext
  BY <1>4, OwnedWorker, OwnedComplete DEF WorkerNext
<1>5. CASE \/ \E s \in Session : DebounceElapses(s)
           \/ DispatcherExit \/ Start \/ StopBegin \/ StopSwapWorkers \/ StopReturn
  BY <1>5, <1>1, OwnedUnchanged
     DEF DebounceElapses, DispatcherExit, Start, StopBegin, StopSwapWorkers,
         StopReturn, queueVars, threadVars, commandVars, historyVars
<1>6. CASE UNCHANGED vars
  BY <1>6, <1>1, OwnedUnchanged
     DEF vars, queueVars, threadVars, commandVars, historyVars
<1> QED BY <1>2, <1>3, <1>4, <1>5, <1>6 DEF Next

(* Owned is an inductive invariant of the command queue.                   *)
THEOREM OwnedInvariant == Spec => []Owned
BY OwnedInit, OwnedStep, PTL DEF Spec

(* Every pending command stays cancellable.                                *)
THEOREM PendingAlwaysMapped == Spec => []PendingMapped
<1>1. Owned => PendingMapped
  BY DEF Owned, PendingOwned, PendingMapped
<1> QED BY <1>1, OwnedInvariant, PTL

(* A lane never shows an active command that no worker will complete.      *)
THEOREM NoOrphanLane == Spec => []ActiveLaneHasWorker
<1>1. Owned => ActiveLaneHasWorker
  BY DEF Owned
<1> QED BY <1>1, OwnedInvariant, PTL

(* Cancel returning true excludes the command's run.                       *)
THEOREM CancelExcludesRun == Spec => []CancelledNeverRuns
<1>1. Owned => CancelledNeverRuns
  BY DEF Owned
<1> QED BY <1>1, OwnedInvariant, PTL

-----------------------------------------------------------------------------
(* Counting runs *)

(* Different lanes have different front commands, so a scan starts as many *)
(* runs as it activates lanes.                                             *)
LEMMA ScanStarts ==
  ASSUME Owned, NEW D \in SUBSET Session, IsFiniteSet(D),
         \A s \in D : lanes[s].exists /\ lanes[s].pending # <<>>
  PROVE  /\ Started(D) \subseteq Ids \ Live
         /\ IsFiniteSet(Started(D))
         /\ Cardinality(Started(D)) = Cardinality(D)
<1>1. \A s \in D : /\ Head(lanes[s].pending) \in Pending(s)
                   /\ Head(lanes[s].pending) \in Ids
  BY ActivateLaneOK, PendingIds DEF Owned, Typed, Pending
<1>2. \A s \in D : /\ session[Head(lanes[s].pending)] = s
                   /\ thread[Head(lanes[s].pending)] = "none"
  BY <1>1 DEF Owned, PendingOwned
<1>3. Started(D) \subseteq Ids \ Live
  BY <1>1, <1>2 DEF Started, Live
<1> DEFINE f == [s \in D |-> Head(lanes[s].pending)]
<1>4. f \in Surjection(D, Started(D))
  BY DEF Surjection, Started
<1>5. f \in Injection(D, Started(D))
  BY <1>2, <1>4 DEF Injection, Surjection, IsInjective
<1> HIDE DEF f
<1> QED BY <1>3, <1>4, <1>5, FS_Surjection

(* The set of runs in progress is finite.                                  *)
LEMMA LiveFinite == IsFiniteSet(Live) /\ Cardinality(Live) \in Nat
<1>1. IsFiniteSet(Ids)
  BY FS_Interval, CommandsAssumption DEF Ids
<1>2. Live \subseteq Ids
  BY DEF Live
<1> QED BY <1>1, <1>2, FS_Subset, FS_CardinalityType

(* Every step that is not a scan or a completion leaves the runs alone.    *)
LEMMA LiveStep ==
  ASSUME Owned, [Next]_vars
  PROVE  \/ DispatcherScan
         \/ \E c \in Ids : CompleteCommand(c)
         \/ Live' = Live /\ active_count' = active_count
<1>1. ASSUME thread' = thread PROVE Live' = Live
  BY <1>1 DEF Live
<1>2. CASE ClientNext
  <2>1. thread' = thread /\ active_count' = active_count
    BY <1>2 DEF ClientNext, Submit, Cancel, AbortSession, ConfigureSession,
                SetConfig, threadVars
  <2> QED BY <1>1, <2>1
<1>3. ASSUME NEW c \in Ids, SpawnWorker(c) \/ ExecutorReturns(c)
      PROVE  Live' = Live /\ active_count' = active_count
  BY <1>3, OwnedWorker DEF SpawnWorker, ExecutorReturns
<1>4. CASE WorkerNext
  BY <1>3, <1>4 DEF WorkerNext
<1>5. CASE \/ \E s \in Session : DebounceElapses(s)
           \/ DispatcherExit \/ Start \/ StopBegin \/ StopSwapWorkers \/ StopReturn
           \/ UNCHANGED vars
  <2>1. thread' = thread /\ active_count' = active_count
    BY <1>5 DEF DebounceElapses, DispatcherExit, Start, StopBegin,
                StopSwapWorkers, StopReturn, threadVars, vars
  <2> QED BY <1>1, <2>1
<1> QED BY <1>2, <1>4, <1>5 DEF Next

(* A scan adds runs up to the limit, and counts each of them.              *)
LEMMA ScanCounts ==
  ASSUME Owned, ActiveCountExact, DispatcherScan
  PROVE  /\ ActiveCountExact'
         /\ \/ Cardinality(Live') = Cardinality(Live)
            \/ Cardinality(Live') <= config.max_concurrent
<1>1. PICK D \in SUBSET Session :
           /\ \A s \in D : /\ lanes[s].exists
                           /\ lanes[s].pending # <<>>
           /\ IsFiniteSet(D)
           /\ Cardinality(D) \in Nat
           /\ D # {} => active_count + Cardinality(D) <= config.max_concurrent
           /\ active_count' = active_count + Cardinality(D)
           /\ thread' = [c \in Ids |-> IF c \in Started(D) THEN "todo"
                                       ELSE thread[c]]
  BY ScanFacts DEF Owned
<1>2. /\ Started(D) \subseteq Ids \ Live
      /\ IsFiniteSet(Started(D))
      /\ Cardinality(Started(D)) = Cardinality(D)
  BY <1>1, ScanStarts
<1>3. Live' = Live \cup Started(D)
  BY <1>1, <1>2 DEF Live
<1>4. Live \cap Started(D) = {}
  BY <1>2
<1>5. Cardinality(Live \cap Started(D)) = 0
  BY <1>4, FS_EmptySet
<1>6. Cardinality(Live \cup Started(D)) = Cardinality(Live) + Cardinality(D)
  <2>1. Cardinality(Live \cup Started(D)) =
          Cardinality(Live) + Cardinality(Started(D))
            - Cardinality(Live \cap Started(D))
    BY <1>2, LiveFinite, FS_Union
  <2> QED BY <1>1, <1>2, <1>5, <2>1, LiveFinite
<1>7. ActiveCountExact'
  BY <1>1, <1>3, <1>6 DEF ActiveCountExact
<1>8. D = {} => Cardinality(D) = 0
  BY FS_EmptySet
<1> QED BY <1>1, <1>3, <1>6, <1>7, <1>8, LiveFinite DEF ActiveCountExact

(* The worker's completion lowers active_count_ with the number of runs.   *)
LEMMA CompleteCounts ==
  ASSUME Owned, ActiveCountExact, NEW c \in Ids, CompleteCommand(c)
  PROVE  /\ ActiveCountExact'
         /\ Cardinality(Live') <= Cardinality(Live)
<1>1. Live' = Live \ {c} /\ c \in Live
  BY OwnedComplete
<1>2. Cardinality(Live \ {c}) = Cardinality(Live) - 1
  BY <1>1, LiveFinite, FS_RemoveElement
<1>3. active_count' = active_count - 1
  BY DEF CompleteCommand
<1> QED BY <1>1, <1>2, <1>3, LiveFinite DEF ActiveCountExact

(* active_count_ never drifts from the number of runs.                     *)
THEOREM ActiveCountCorrect == Spec => []ActiveCountExact
<1>1. Init => ActiveCountExact
  <2> SUFFICES ASSUME Init PROVE ActiveCountExact
    OBVIOUS
  <2>1. Live = {}
    BY DEF Init, Live
  <2> QED BY <2>1, FS_EmptySet DEF Init, ActiveCountExact
<1>2. Owned /\ ActiveCountExact /\ [Next]_vars => ActiveCountExact'
  BY LiveStep, ScanCounts, CompleteCounts DEF ActiveCountExact
<1> QED BY <1>1, <1>2, OwnedInvariant, PTL DEF Spec

(* No step raises the number of runs above the max_concurrent in force.    *)
THEOREM ConcurrencyLimited == Spec => ConcurrencyLimit
<1>1. Owned /\ ActiveCountExact /\ [Next]_vars =>
        [Cardinality(Live') > Cardinality(Live)
           => Cardinality(Live') <= config.max_concurrent]_vars
  <2> SUFFICES ASSUME Owned, ActiveCountExact, [Next]_vars,
                      Cardinality(Live') > Cardinality(Live)
               PROVE  Cardinality(Live') <= config.max_concurrent
    OBVIOUS
  <2>1. CASE DispatcherScan
    BY <2>1, ScanCounts, LiveFinite
  <2>2. CASE \E c \in Ids : CompleteCommand(c)
    <3>1. Cardinality(Live') <= Cardinality(Live)
      BY <2>2, CompleteCounts
    <3>2. Cardinality(Live') \in Nat /\ Cardinality(Live) \in Nat
      BY LiveFinite, FS_RemoveElement, <2>2, OwnedComplete
    <3> QED BY <3>1, <3>2
  <2>3. CASE Live' = Live
    BY <2>3, LiveFinite
  <2> QED BY <2>1, <2>2, <2>3, LiveStep
<1> QED BY <1>1, OwnedInvariant, ActiveCountCorrect, PTL
        DEF Spec, ConcurrencyLimit

-----------------------------------------------------------------------------
(* Order of runs *)

(* Runs of a session start in submission order.                            *)
THEOREM RunsInOrder == Spec => StartOrder
<1> DEFINE A == \A c, d \in Ids :
       /\ thread[c] = "none" /\ thread'[c] = "todo"
       /\ session[d] = session[c] /\ (thread[d] # "none" \/ d \in Pending(session[c]))
       /\ d # c
       => IF thread[d] # "none" THEN d < c ELSE d > c
<1>1. Owned /\ [Next]_vars => [A]_vars
  <2> SUFFICES ASSUME Owned, [Next]_vars, NEW c \in Ids, NEW d \in Ids,
                      thread[c] = "none", thread'[c] = "todo",
                      session[d] = session[c], d # c,
                      thread[d] # "none" \/ d \in Pending(session[c])
               PROVE  IF thread[d] # "none" THEN d < c ELSE d > c
    OBVIOUS
  <2>1. DispatcherScan
    <3>1. c \notin Live /\ c \in Live'
      BY DEF Live
    <3>2. \A e \in Ids : CompleteCommand(e) => c \notin Live'
      BY <3>1, OwnedComplete
    <3> QED BY <3>1, <3>2, LiveStep
  <2>2. PICK D \in SUBSET Session :
           /\ \A s \in D : lanes[s].exists /\ lanes[s].pending # <<>>
           /\ thread' = [e \in Ids |-> IF e \in Started(D) THEN "todo"
                                       ELSE thread[e]]
    BY <2>1, ScanFacts DEF Owned
  <2>3. PICK s \in D : c = Head(lanes[s].pending)
    BY <2>2 DEF Started
  <2>4. c \in Pending(s) /\ \A e \in Pending(s) : c <= e
    BY <2>2, <2>3, ActivateLaneOK DEF Owned, Typed, Pending
  <2>5. session[c] = s
    BY <2>4 DEF Owned, PendingOwned
  <2>6. CASE thread[d] # "none"
    BY <2>4, <2>5, <2>6 DEF Owned, PendingOwned
  <2>7. CASE thread[d] = "none"
    BY <2>4, <2>5, <2>7 DEF Ids
  <2> QED BY <2>6, <2>7
<1> QED BY <1>1, OwnedInvariant, PTL DEF Spec, StartOrder

-----------------------------------------------------------------------------
(* Stop *)

(* Why Stop can join everything: a command is in to_dispatch only while    *)
(* the dispatcher thread exists, and every spawned worker that has not     *)
(* finished has its handle in workers_ or in workers_to_join.              *)
Joinable ==
  /\ running => dispatcher = "loop" /\ owner = "idle"
  /\ dispatcher = "loop" => running \/ owner = "join_dispatcher"
  /\ ToDispatch # {} => dispatcher = "loop"
  /\ \A c \in Ids : thread[c] \in {"running", "answered"} => c \in workers \cup joining
  /\ owner # "join_workers" => joining = {}
  /\ owner = "join_workers" => workers = {}
  /\ owner = "idle" /\ ~running => workers = {}

(* No thread exists at first, so nothing is left to be joined.             *)
LEMMA JoinableInit == Init => Joinable
BY DEF Init, Joinable, ToDispatch

(* Every step keeps each worker thread in the set Stop joins, or past its  *)
(* end.                                                                    *)
LEMMA JoinableStep == Typed /\ Joinable /\ [Next]_vars => Joinable'
<1> SUFFICES ASSUME Typed, Joinable, [Next]_vars PROVE Joinable'
  OBVIOUS
<1>1. thread \in [Ids -> Phase] /\ running \in BOOLEAN
  BY DEF Typed, TypeOK
<1>2. CASE ClientNext
  <2>1. UNCHANGED threadVars
    BY <1>2 DEF ClientNext, Submit, Cancel, AbortSession, ConfigureSession,
                SetConfig
  <2> QED BY <2>1 DEF Joinable, ToDispatch, threadVars
<1>3. CASE DispatcherScan
  <2>1. PICK D \in SUBSET Session :
           thread' = [c \in Ids |-> IF c \in Started(D) THEN "todo" ELSE thread[c]]
    BY <1>3, ScanFacts
  <2>2. /\ dispatcher = "loop" /\ running
        /\ UNCHANGED <<workers, running, dispatcher, owner, joining>>
    BY <1>3 DEF DispatcherScan
  <2> QED BY <2>1, <2>2 DEF Joinable
<1>4. ASSUME NEW c \in Ids, SpawnWorker(c) PROVE Joinable'
  <2>1. /\ thread[c] = "todo" /\ thread' = [thread EXCEPT ![c] = "running"]
        /\ workers' = workers \cup {c}
        /\ UNCHANGED <<running, dispatcher, owner, joining>>
    BY <1>4 DEF SpawnWorker
  <2>2. dispatcher = "loop"
    BY <2>1 DEF Joinable, ToDispatch
  <2> QED BY <1>1, <2>1, <2>2 DEF Joinable, ToDispatch
<1>5. ASSUME NEW c \in Ids, ExecutorReturns(c) \/ CompleteCommand(c)
      PROVE  Joinable'
  <2>1. /\ thread[c] \in {"running", "answered"}
        /\ \E p \in {"answered", "done"} : thread' = [thread EXCEPT ![c] = p]
        /\ UNCHANGED <<workers, running, dispatcher, owner, joining>>
    BY <1>5 DEF ExecutorReturns, CompleteCommand
  <2> QED BY <1>1, <2>1 DEF Joinable, ToDispatch
<1>6. CASE WorkerNext
  BY <1>4, <1>5, <1>6 DEF WorkerNext
<1>7. CASE \E s \in Session : DebounceElapses(s)
  BY <1>7 DEF DebounceElapses, threadVars, Joinable, ToDispatch
<1>8. CASE DispatcherExit
  BY <1>8 DEF DispatcherExit, Joinable, ToDispatch
<1>9. CASE Start
  BY <1>9 DEF Start, Joinable, ToDispatch
<1>10. CASE StopBegin
  BY <1>10 DEF StopBegin, Joinable, ToDispatch
<1>11. CASE StopSwapWorkers
  BY <1>11 DEF StopSwapWorkers, Joinable, ToDispatch
<1>12. CASE StopReturn
  BY <1>12 DEF StopReturn, Joinable, ToDispatch
<1>13. CASE UNCHANGED vars
  BY <1>13 DEF vars, threadVars, Joinable, ToDispatch
<1> QED BY <1>2, <1>3, <1>6, <1>7, <1>8, <1>9, <1>10, <1>11, <1>12, <1>13
        DEF Next

(* Once Stop has returned, no run is in progress or about to start.        *)
THEOREM StopIsQuiet == Spec => []StoppedIsQuiet
<1>1. Typed /\ Joinable => StoppedIsQuiet
  <2> SUFFICES ASSUME Typed, Joinable, owner = "idle", ~running
               PROVE  Live = {} /\ dispatcher = "none"
    BY DEF StoppedIsQuiet
  <2>1. dispatcher = "none" /\ workers = {} /\ joining = {}
    BY DEF Joinable, Typed, TypeOK
  <2>2. ToDispatch = {} /\ \A c \in Ids : thread[c] \notin {"running", "answered"}
    BY <2>1 DEF Joinable
  <2> QED BY <2>1, <2>2 DEF Live, ToDispatch
<1> QED BY <1>1, JoinableInit, JoinableStep, TypedInvariant, PTL DEF Spec

-----------------------------------------------------------------------------
(* Serialization *)

(* No client can interrupt: neither a submitted nor a configured mode is   *)
(* interrupt, and nobody aborts a session.                                 *)
NoInterrupts ==
  /\ "interrupt" \notin SubmitModes
  /\ \A o \in Overrides : o.mode # "interrupt"
  /\ \A cfg \in Configs \cup {InitConfig} : cfg.default_mode # "interrupt"
  /\ Abortable = {}

(* Then every live run is the active command of its lane, and no lane is   *)
(* in interrupt mode.                                                      *)
LiveIsActive ==
  /\ \A c \in Live : lanes[session[c]].active = c
  /\ \A s \in Session : lanes[s].mode # "interrupt"
  /\ config.default_mode # "interrupt"

(* No run is in progress at first.                                         *)
LEMMA LiveIsActiveInit == NoInterrupts /\ Init => LiveIsActive
<1> SUFFICES ASSUME NoInterrupts, Init PROVE LiveIsActive
  OBVIOUS
<1>1. Live = {}
  BY DEF Init, Live
<1>2. AbsentLane.mode = InitConfig.default_mode
  BY DEF AbsentLane, NewLane
<1> QED BY <1>1, <1>2 DEF Init, LiveIsActive, NoInterrupts

(* The mode and the active command of each lane after a client operation.  *)
LEMMA CalmClient ==
  ASSUME NoInterrupts, Owned, LiveIsActive, ClientNext
  PROVE  /\ \A s \in Session : lanes'[s].mode # "interrupt"
         /\ \A s \in Session : lanes'[s].active = lanes[s].active
         /\ config'.default_mode # "interrupt"
         /\ \A c \in Live : session'[c] = session[c]
         /\ Live' = Live
<1>1. thread' = thread
  BY DEF ClientNext, Submit, Cancel, AbortSession, ConfigureSession, SetConfig,
         threadVars
<1>2. Live' = Live
  BY <1>1 DEF Live
<1>3. \A s \in Session : get_lane(s).mode # "interrupt"
  BY DEF LiveIsActive, get_lane, NewLane
<1>4. lanes \in [Session -> Lane]
  BY DEF Owned, Typed, TypeOK
<1>5. ASSUME NEW s \in Session, NEW m \in SubmitModes, Submit(s, m)
      PROVE  /\ \A t \in Session : lanes'[t].mode # "interrupt"
             /\ \A t \in Session : lanes'[t].active = lanes[t].active
             /\ config'.default_mode # "interrupt"
             /\ \A c \in Live : session'[c] = session[c]
  <2>1. ResolvedMode(get_lane(s), m) # "interrupt"
    BY <1>3 DEF ResolvedMode, NoInterrupts
  <2>2. /\ nextId \in Ids
        /\ lanes'[s].active = lanes[s].active
        /\ \A t \in Session \ {s} : lanes'[t] = lanes[t]
    BY <1>5, <2>1, SubmitLanes DEF Owned
  <2>3. LaneOK(get_lane(s)) /\ get_lane(s).exists /\ get_lane(s).pending = lanes[s].pending
    BY GetLaneOK DEF Owned
  <2> DEFINE l  == get_lane(s)
             l2 == Enqueue(l, nextId)
  <2>4. \A e \in Elements(l.pending) : e < nextId
    BY <2>3 DEF Owned, Typed, Pending
  <2>5. LaneOK(l2)
    BY <2>2, <2>3, <2>4, EnqueueLaneOK
  <2>6. lanes' = [lanes EXCEPT ![s] = l2]
        \/ lanes' = [lanes EXCEPT ![s] = ApplyCapOverflow(l2)]
    BY <1>5, <2>1 DEF Submit
  <2>7. l2.mode = l.mode
    <3> HIDE DEF l
    <3>1. l \in Lane
      BY <2>3 DEF l, LaneOK
    <3> QED BY <3>1 DEF Enqueue, Lane
  <2>8. ApplyCapOverflow(l2).mode = l2.mode
    <3> HIDE DEF l2
    <3>1. l2 \in Lane
      BY <2>5 DEF LaneOK
    <3> QED BY <3>1 DEF ApplyCapOverflow, Lane
  <2>9. lanes'[s].mode # "interrupt"
    <3> HIDE DEF l2
    <3> QED BY <1>3, <1>4, <2>6, <2>7, <2>8
  <2>10. \A c \in Live : c # nextId /\ c \in Ids
    BY DEF Live, Owned, Issued, Ids, Typed, TypeOK
  <2>11. session' = [session EXCEPT ![nextId] = s] /\ config' = config
    BY <1>5 DEF Submit
  <2> QED BY <2>2, <2>9, <2>10, <2>11 DEF LiveIsActive, Owned, Typed, TypeOK
<1>6. ASSUME NEW c \in Cancellable, Cancel(c)
      PROVE  /\ \A t \in Session : lanes'[t].mode # "interrupt"
             /\ \A t \in Session : lanes'[t].active = lanes[t].active
             /\ config' = config /\ session' = session
  <2> DEFINE s == session[c]
             l == get_lane(s)
  <2>1. s \in Session
    BY ClientAssumption DEF Owned, Typed, TypeOK
  <2>2. LaneOK(l) /\ l.active = lanes[s].active /\ l.mode # "interrupt"
    BY <1>3, <2>1, GetLaneOK DEF Owned
  <2>3. lanes' = [lanes EXCEPT ![s] = l] \/ lanes' = [lanes EXCEPT ![s] = CancelPending(l, c)]
    BY <1>6 DEF Cancel
  <2>4. CancelPending(l, c).mode = l.mode /\ CancelPending(l, c).active = l.active
    <3> HIDE DEF l
    <3>1. l \in Lane
      BY <2>2 DEF LaneOK
    <3> QED BY <3>1 DEF CancelPending, Lane
  <2>5. config' = config /\ session' = session
    BY <1>6 DEF Cancel, commandVars
  <2> HIDE DEF l, s
  <2> QED BY <1>4, <2>1, <2>2, <2>3, <2>4, <2>5 DEF LiveIsActive
<1>7. ASSUME NEW s \in Session, NEW o \in Overrides, ConfigureSession(s, o)
      PROVE  /\ \A t \in Session : lanes'[t].mode # "interrupt"
             /\ \A t \in Session : lanes'[t].active = lanes[t].active
             /\ config' = config /\ session' = session
  <2> DEFINE l == get_lane(s)
  <2>1. LaneOK(l) /\ l.active = lanes[s].active
    BY GetLaneOK DEF Owned
  <2>2. lanes' = [lanes EXCEPT ![s] =
           [l EXCEPT !.mode = o.mode,
                     !.debounce = IF o.debounce >= 0 THEN o.debounce ELSE @,
                     !.cap = IF o.cap >= 0 THEN o.cap ELSE @,
                     !.drop = IF o.drop # "" THEN o.drop ELSE @]]
    BY <1>7 DEF ConfigureSession
  <2>3. l \in Lane /\ o.mode # "interrupt"
    BY <2>1 DEF LaneOK, NoInterrupts
  <2>4. config' = config /\ session' = session
    BY <1>7 DEF ConfigureSession, commandVars
  <2> HIDE DEF l
  <2>5. lanes'[s].mode = o.mode /\ lanes'[s].active = l.active
        /\ \A t \in Session \ {s} : lanes'[t] = lanes[t]
    BY <1>4, <2>2, <2>3 DEF Lane
  <2> QED BY <2>1, <2>3, <2>4, <2>5 DEF LiveIsActive
<1>8. ASSUME NEW cfg \in Configs, SetConfig(cfg)
      PROVE  /\ lanes' = lanes /\ session' = session
             /\ config'.default_mode # "interrupt"
  BY <1>8 DEF SetConfig, commandVars, NoInterrupts
<1> QED BY <1>2, <1>5, <1>6, <1>7, <1>8 DEF ClientNext, NoInterrupts, LiveIsActive

(* Without interrupts, every step keeps each run in the active slot of its *)
(* lane.                                                                   *)
LEMMA LiveIsActiveStep ==
  ASSUME NoInterrupts, Owned, LiveIsActive, [Next]_vars
  PROVE  LiveIsActive'
<1>1. CASE ClientNext
  <2>1. \A c \in Live : session[c] \in Session
    BY DEF Live, Owned, Typed, TypeOK
  <2> QED BY <1>1, <2>1, CalmClient DEF LiveIsActive
<1>2. CASE DispatcherScan
  <2>1. PICK D \in SUBSET Session :
           /\ \A s \in D : /\ lanes[s].exists
                           /\ lanes[s].active = NoCommand
                           /\ lanes[s].pending # <<>>
           /\ lanes' = [s \in Session |->
                          IF s \in D THEN Activate(lanes[s])
                          ELSE IF IsIdle(lanes[s]) THEN AbsentLane
                          ELSE lanes[s]]
           /\ thread' = [c \in Ids |-> IF c \in Started(D) THEN "todo"
                                       ELSE thread[c]]
    BY <1>2, ScanFacts DEF Owned
  <2>2. session' = session /\ config' = config
    BY <1>2 DEF DispatcherScan
  <2>3. \A s \in Session :
          /\ s \in D => /\ Head(lanes[s].pending) \in Pending(s)
                        /\ lanes'[s].active = Head(lanes[s].pending)
          /\ s \notin D => lanes'[s].active = lanes[s].active
    BY <2>1, ScanLane DEF Owned
  <2>4. \A s \in D : session[Head(lanes[s].pending)] = s
    BY <2>3 DEF Owned, PendingOwned
  <2>5. ASSUME NEW c \in Live' PROVE lanes'[session[c]].active = c
    <3>1. CASE c \in Started(D)
      BY <3>1, <2>3, <2>4 DEF Started
    <3>2. CASE c \notin Started(D)
      <4>1. c \in Live /\ c \in Ids
        BY <3>2, <2>1 DEF Live
      <4>2. lanes[session[c]].active = c /\ session[c] \in Session /\ c # NoCommand
        BY <4>1, ClientAssumption DEF LiveIsActive, Owned, Typed, TypeOK
      <4>3. session[c] \notin D
        BY <4>2, <2>1
      <4> QED BY <4>2, <4>3, <2>3
    <3> QED BY <3>1, <3>2
  <2>6. \A s \in Session : lanes'[s].mode # "interrupt"
    <3>1. AbsentLane.mode # "interrupt"
      BY DEF AbsentLane, NewLane, NoInterrupts
    <3>2. \A s \in Session : lanes[s] \in Lane
      BY DEF Owned, Typed, TypeOK
    <3>3. \A s \in Session : Activate(lanes[s]).mode = lanes[s].mode
      BY <3>2 DEF Activate, Lane
    <3> QED BY <2>1, <3>1, <3>3 DEF LiveIsActive
  <2> QED BY <2>2, <2>5, <2>6 DEF LiveIsActive
<1>3. ASSUME NEW c \in Ids, SpawnWorker(c) \/ ExecutorReturns(c)
      PROVE  LiveIsActive'
  <2>1. Live' = Live
    BY <1>3, OwnedWorker
  <2> QED BY <1>3, <2>1 DEF SpawnWorker, ExecutorReturns, queueVars, commandVars,
                            LiveIsActive
<1>4. ASSUME NEW c \in Ids, CompleteCommand(c)
      PROVE  LiveIsActive'
  <2>1. Live' = Live \ {c} /\ c \in Live
    BY <1>4, OwnedComplete
  <2>2. session' = session /\ config' = config
    BY <1>4 DEF CompleteCommand, commandVars
  <2>3. lanes[session[c]].active = c
    BY <2>1 DEF LiveIsActive
  <2>4. \A d \in Live : d # c => session[d] # session[c]
    BY <2>3 DEF LiveIsActive
  <2> DEFINE s == session[c]
  <2>5. s \in Session /\ lanes \in [Session -> Lane]
    BY DEF Owned, Typed, TypeOK
  <2>6. lanes' = [lanes EXCEPT ![s] =
                   IF lanes[s].exists THEN CompleteActive(lanes[s]) ELSE lanes[s]]
    BY <1>4 DEF CompleteCommand
  <2>7. /\ \A t \in Session \ {s} : lanes'[t] = lanes[t]
        /\ lanes'[s].mode = lanes[s].mode
    <3> HIDE DEF s
    <3> QED BY <2>5, <2>6 DEF CompleteActive, Lane
  <2>8. \A d \in Live : session[d] \in Session
    BY DEF Live, Owned, Typed, TypeOK
  <2>9. \A d \in Live' : lanes'[session[d]].active = d
    BY <2>1, <2>4, <2>7, <2>8 DEF LiveIsActive
  <2>10. \A t \in Session : lanes'[t].mode # "interrupt"
    BY <2>7 DEF LiveIsActive
  <2> QED BY <2>2, <2>9, <2>10 DEF LiveIsActive
<1>5. CASE WorkerNext
  BY <1>3, <1>4, <1>5 DEF WorkerNext
<1>6. CASE \/ \E s \in Session : DebounceElapses(s)
           \/ DispatcherExit \/ Start \/ StopBegin \/ StopSwapWorkers \/ StopReturn
           \/ UNCHANGED vars
  BY <1>6 DEF DebounceElapses, DispatcherExit, Start, StopBegin, StopSwapWorkers,
              StopReturn, queueVars, threadVars, commandVars, vars, LiveIsActive, Live
<1> QED BY <1>1, <1>2, <1>5, <1>6 DEF Next

(* Without interrupts and aborts a session has at most one run at a time,  *)
(* whatever is submitted, cancelled or reconfigured; with them it has not, *)
(* as the run that checks Serialization with interrupts shows.             *)
THEOREM SerializedWithoutInterrupts ==
  ASSUME NoInterrupts
  PROVE  Spec => []Serialization
<1>1. LiveIsActive => Serialization
  BY DEF LiveIsActive, Serialization
<1>2. Init => LiveIsActive
  BY LiveIsActiveInit
<1>3. Owned /\ LiveIsActive /\ [Next]_vars => LiveIsActive'
  BY LiveIsActiveStep
<1> QED BY <1>1, <1>2, <1>3, OwnedInvariant, PTL DEF Spec

-----------------------------------------------------------------------------
(* Delivery *)

(* The messages a command holds once Submit has given it its own.          *)
Sent(c) == IF c = nextId THEN {nextId} ELSE text[c]

(* A deque holds as many commands as it is long.                           *)
LEMMA ElementsCount ==
  ASSUME NEW q \in Seq(Ids), Increasing(q)
  PROVE  IsFiniteSet(Elements(q)) /\ Cardinality(Elements(q)) = Len(q)
<1> DEFINE n == Len(q)
           f == [i \in 1 .. n |-> q[i]]
<1>1. n \in Nat /\ q \in [1 .. n -> Ids]
  BY LenProperties
<1>2. IsFiniteSet(1 .. n) /\ Cardinality(1 .. n) = n
  BY <1>1, FS_Interval
<1>3. f \in [1 .. n -> Elements(q)] /\ \A e \in Elements(q) : \E i \in 1 .. n : f[i] = e
  BY DEF Elements
<1>4. \A i, j \in 1 .. n : f[i] = f[j] => i = j
  BY <1>1 DEF Increasing, Ids
<1> HIDE DEF f, n
<1>5. f \in Bijection(1 .. n, Elements(q))
  BY <1>3, <1>4 DEF Bijection, Injection, Surjection, IsInjective
<1>6. ExistsBijection(1 .. n, Elements(q))
  BY <1>5 DEF ExistsBijection
<1> QED BY <1>2, <1>6, FS_Bijection DEF n

(* What remains of a lane whose overflow is summarised: the oldest command *)
(* stays, and what it takes over is what comes next.  A lane within its    *)
(* cap is left alone, and with room for two the newest command stays.      *)
LEMMA SummaryKeepsHead ==
  ASSUME NEW l, LaneOK(l), l.pending # <<>>, l.drop = "summarize"
  PROVE  LET h == Head(l.pending)
             K == Elements(ApplyCapOverflow(l).pending)
         IN  /\ h \in K
             /\ \A g \in DroppedIds(l) \cup {h}, e \in K \ {h} : g < e
             /\ DroppedIds(l) # {} => Len(l.pending) > l.cap
             /\ DroppedIds(l) # {} /\ l.cap >= 2
                  => l.pending[Len(l.pending)] \in K \ {h}
<1> DEFINE q == l.pending
           n == Len(q)
           k == OverCap(l)
           r == SubSeq(q, 1, 1) \o SubSeq(q, k + 2, n)
<1>1. q \in Seq(Ids) /\ Increasing(q) /\ n \in Nat \ {0} /\ l.cap \in Int
  BY EmptySeq DEF LaneOK, Lane
<1>2. k \in Nat
  BY <1>1 DEF OverCap
<1>3. ApplyCapOverflow(l).pending = r
  <2> DEFINE v == CASE l.drop = "summarize"   -> r
                    [] l.drop = "drop-oldest" -> SubSeq(q, k + 1, n)
                    [] l.drop = "reject"      -> SubSeq(q, 1, n - k)
  <2>1. ApplyCapOverflow(l) = [l EXCEPT !.pending = v]
    BY DEF ApplyCapOverflow
  <2>2. v = r
    OBVIOUS
  <2>3. l \in Lane
    BY DEF LaneOK
  <2> HIDE DEF v, r
  <2> QED BY <2>1, <2>2, <2>3 DEF Lane
<1> HIDE DEF k, r
<1>4. Elements(r) = {q[i] : i \in {j \in 1 .. n : j <= 1 \/ j >= k + 2}}
  BY <1>1, <1>2, GlueIncreasing DEF r
<1>5. Head(q) = q[1] /\ 1 \in 1 .. n
  BY <1>1
<1>6. q \in [1 .. n -> Ids]
  BY <1>1, LenProperties
<1>7. \A e \in Elements(r) \ {q[1]} : \E j \in 1 .. n : e = q[j] /\ j >= k + 2
  <2> SUFFICES ASSUME NEW e \in Elements(r) \ {q[1]}
               PROVE  \E j \in 1 .. n : e = q[j] /\ j >= k + 2
    OBVIOUS
  <2>1. PICK j \in 1 .. n : e = q[j] /\ (j <= 1 \/ j >= k + 2)
    BY <1>4
  <2> QED BY <2>1, <1>1, <1>2
<1>8. \A g \in DroppedIds(l) : \E i \in 1 .. n : g = q[i] /\ i > 1 /\ i < k + 2
  <2> SUFFICES ASSUME NEW g \in DroppedIds(l)
               PROVE  \E i \in 1 .. n : g = q[i] /\ i > 1 /\ i < k + 2
    OBVIOUS
  <2>1. g \in Elements(q) /\ g \notin Elements(r)
    BY <1>3 DEF DroppedIds
  <2>2. PICK i \in 1 .. n : g = q[i]
    BY <2>1 DEF Elements
  <2> QED BY <2>1, <2>2, <1>1, <1>2, <1>4
<1>9. \A g \in DroppedIds(l) \cup {q[1]}, e \in Elements(r) \ {q[1]} : g < e
  <2> SUFFICES ASSUME NEW g \in DroppedIds(l) \cup {q[1]}, NEW e \in Elements(r) \ {q[1]}
               PROVE  g < e
    OBVIOUS
  <2>1. PICK j \in 1 .. n : e = q[j] /\ j >= k + 2
    BY <1>7
  <2>2. \E i \in 1 .. n : g = q[i] /\ i < k + 2
    BY <1>2, <1>5, <1>8
  <2>3. PICK i \in 1 .. n : g = q[i] /\ i < k + 2
    BY <2>2
  <2> QED BY <2>1, <2>3, <1>1, <1>2 DEF Increasing
<1>10. DroppedIds(l) # {} => k > 0
  BY <1>1, <1>2, <1>8
<1>11. k > 0 => n > l.cap
  BY <1>1 DEF k, OverCap
<1>12. ASSUME k > 0, l.cap >= 2
       PROVE  q[n] \in Elements(r) \ {q[1]}
  <2>1. k = n - l.cap
    BY <1>1, <1>12 DEF k, OverCap
  <2>2. n \in 1 .. n /\ n >= k + 2 /\ n > 1
    BY <1>1, <1>12, <2>1
  <2>3. q[1] < q[n] /\ q[1] \in Ids
    BY <1>1, <1>5, <1>6, <2>2 DEF Increasing
  <2>4. q[n] \in Elements(r)
    BY <1>4, <2>2
  <2> QED BY <2>3, <2>4 DEF Ids
<1> QED BY <1>3, <1>4, <1>5, <1>9, <1>10, <1>11, <1>12

(* In collect mode the commands G are the next ones after the oldest, h;   *)
(* they leave when the lane is over its cap, and with room for two the new *)
(* one is not among them.  What they held and what h held is cut.          *)
SummaryMade(s, G, h) ==
  LET K == Elements(lanes'[s].pending)
      B == Pending(s) \cup {nextId}
      p == get_lane(s).cap
  IN  /\ h \in K /\ K \cup G = B
      /\ \A g \in G \cup {h}, e \in K \ {h} : g < e
      /\ short' = IF G = {} THEN short
                  ELSE short \cup UNION {Sent(d) : d \in G \cup {h}}
      /\ G # {} => Cardinality(B) > p
      /\ G # {} /\ p >= 2 => nextId \notin G \cup {h}

(* What Submit does to the messages: the commands G leave the lane and the *)
(* command h takes theirs, if anybody does.                                *)
LEMMA SubmitText ==
  ASSUME Owned, NEW s \in Session, NEW m \in SubmitModes, Submit(s, m)
  PROVE  \E G \in SUBSET (Pending(s) \cup {nextId}), h \in Pending(s) \cup {nextId} :
           /\ Elements(lanes'[s].pending) \cap G = {}
           /\ \A c \in Ids : text'[c] =
                IF c = h THEN Sent(c) \cup UNION {Sent(d) : d \in G} ELSE Sent(c)
           /\ /\ get_lane(s).drop = "summarize"
              /\ ResolvedMode(get_lane(s), m) = "collect"
              => SummaryMade(s, G, h)
<1> DEFINE c     == nextId
           lane0 == get_lane(s)
           md    == ResolvedMode(lane0, m)
           lane1 == IF md = "interrupt" /\ HasActive(lane0)
                    THEN InterruptActive(lane0) ELSE lane0
           lane2 == Enqueue(lane1, c)
           text1 == [text EXCEPT ![c] = {c}]
           kept  == Elements(lanes'[s].pending)
<1>1. nextId \in Ids
  BY SubmitLanes DEF Owned
<1>2. LaneOK(lane0) /\ lane0.exists /\ Elements(lane0.pending) = Pending(s)
  BY GetLaneOK DEF Pending, Owned
<1>3. /\ LaneOK(lane1) /\ lane1.exists /\ Elements(lane1.pending) \subseteq Pending(s)
      /\ md = "collect" => lane1 = lane0
  <2> HIDE DEF lane0
  <2> QED BY <1>2, InterruptLaneOK
<1>4. \A e \in Elements(lane1.pending) : e < c
  BY <1>3 DEF Owned, Typed
<1>5. /\ LaneOK(lane2) /\ lane2.exists /\ lane2.pending # <<>>
      /\ Elements(lane2.pending) = Elements(lane1.pending) \cup {c}
      /\ lane2.drop = lane1.drop /\ lane2.cap = lane1.cap /\ lane1.cap \in Int
      /\ lane2.pending[Len(lane2.pending)] = c
  <2> HIDE DEF lane1
  <2>1. /\ LaneOK(lane2) /\ lane2.exists
        /\ Elements(lane2.pending) = Elements(lane1.pending) \cup {c}
    BY <1>1, <1>3, <1>4, EnqueueLaneOK
  <2>2. lane1 \in Lane
    BY <1>3 DEF LaneOK
  <2>3. lane2.pending = Append(lane1.pending, c) /\ lane1.pending \in Seq(Ids)
    BY <2>2 DEF Enqueue, Lane
  <2>4. lane2.pending[Len(lane2.pending)] = c
    BY <2>3, <1>1, AppendProperties
  <2>5. lane2.drop = lane1.drop /\ lane2.cap = lane1.cap /\ lane1.cap \in Int
    BY <2>2 DEF Enqueue, Lane
  <2> QED BY <2>1, <2>4, <2>5, EmptyIncreasing
<1>6. \A d \in Ids : text1[d] = Sent(d)
  BY <1>1 DEF Sent, Owned, Typed, TypeOK
<1>7. text \in [Ids -> SUBSET Ids] /\ DOMAIN text1 = Ids
  BY DEF Owned, Typed, TypeOK
<1>8. lanes \in [Session -> Lane]
  BY DEF Owned, Typed, TypeOK
<1>9. \/ /\ md \in {"steer", "steer-backlog"}
         /\ lanes' = [lanes EXCEPT ![s] = lane2] /\ text' = text1
      \/ /\ lanes' = [lanes EXCEPT ![s] = ApplyCapOverflow(lane2)]
         /\ text' = TextAfterOverflow(lane2, text1)
         /\ short' = ShortAfterOverflow(lane2, text1, short)
  BY DEF Submit
<1> HIDE DEF lane2, lane1, lane0, text1, c, md
<1>11. CASE md # "collect" /\ text' = text1
  <2>1. \A d \in Ids : text'[d] = IF d = nextId THEN Sent(d) \cup UNION {Sent(e) : e \in {}}
                                  ELSE Sent(d)
    BY <1>6, <1>11
  <2> QED BY <2>1, <1>11 DEF md, lane0
<1>12. CASE /\ lanes' = [lanes EXCEPT ![s] = ApplyCapOverflow(lane2)]
            /\ text' = TextAfterOverflow(lane2, text1)
            /\ short' = ShortAfterOverflow(lane2, text1, short)
  <2> DEFINE G == DroppedIds(lane2)
             h == Head(lane2.pending)
  <2>1. lanes'[s] = ApplyCapOverflow(lane2)
    BY <1>8, <1>12
  <2>2. /\ G = Elements(lane2.pending) \ Elements(lanes'[s].pending)
        /\ Elements(lanes'[s].pending) \subseteq Elements(lane2.pending)
    BY <1>5, <2>1, OverflowLaneOK DEF DroppedIds
  <2>3. h \in Elements(lane2.pending)
    BY <1>5, ActivateLaneOK
  <2>4. G \subseteq Pending(s) \cup {nextId} /\ h \in Pending(s) \cup {nextId}
    BY <1>3, <1>5, <2>2, <2>3 DEF c
  <2>5. Pending(s) \cup {nextId} \subseteq Ids
    BY <1>1, PendingIds DEF Owned
  <2>6. CASE lane2.drop = "summarize"
    <3>1. text' = [text1 EXCEPT ![h] = text1[h] \cup UNION {text1[d] : d \in G}]
      BY <1>5, <1>12, <2>6 DEF TextAfterOverflow
    <3> HIDE DEF G, h
    <3>2. UNION {text1[d] : d \in G} = UNION {Sent(d) : d \in G}
      <4>1. \A d \in G : text1[d] = Sent(d)
        BY <1>6, <2>4, <2>5
      <4> QED BY <4>1
    <3>3. \A d \in Ids : text'[d] =
             IF d = h THEN Sent(d) \cup UNION {Sent(e) : e \in G} ELSE Sent(d)
      <4> DEFINE u == UNION {Sent(d) : d \in G}
      <4>1. text' = [text1 EXCEPT ![h] = text1[h] \cup u]
        BY <3>1, <3>2
      <4> HIDE DEF u
      <4>2. \A d \in Ids : text'[d] = IF d = h THEN text1[h] \cup u ELSE text1[d]
        BY <1>7, <4>1
      <4>3. \A d \in Ids : text'[d] = IF d = h THEN Sent(d) \cup u ELSE Sent(d)
        BY <1>6, <4>2
      <4> QED BY <4>3 DEF u
    <3>4. h \in Elements(lanes'[s].pending)
      BY <1>5, <2>1, <2>6, SummaryKeepsHead DEF h
    <3>5. Elements(lanes'[s].pending) \cap G = {}
      BY <2>2
    <3>6. ASSUME md = "collect"
          PROVE  SummaryMade(s, G, h)
      <4> DEFINE K == Elements(lanes'[s].pending)
                 B == Pending(s) \cup {nextId}
      <4>1. K \cup G = B /\ Elements(lane2.pending) = B /\ lane2.cap = get_lane(s).cap
        BY <1>2, <1>3, <1>5, <2>2, <3>6 DEF c, lane0
      <4>2. /\ \A g \in G \cup {h}, e \in K \ {h} : g < e
            /\ G # {} => Len(lane2.pending) > lane2.cap
            /\ G # {} /\ lane2.cap >= 2 => lane2.pending[Len(lane2.pending)] \in K \ {h}
        BY <1>5, <2>1, <2>6, SummaryKeepsHead DEF h, G
      <4>3. Cardinality(B) = Len(lane2.pending)
        BY <1>5, <4>1, ElementsCount DEF LaneOK, Lane
      <4>4. G # {} /\ lane2.cap >= 2 => nextId \notin G \cup {h}
        BY <1>5, <2>2, <4>2 DEF c
      <4>5. short' = IF G = {} THEN short
                     ELSE short \cup UNION {Sent(d) : d \in G \cup {h}}
        <5>1. \A d \in G \cup {h} : text1[d] = Sent(d)
          BY <1>6, <2>4, <2>5
        <5>2. {text1[d] : d \in G \cup {h}} = {Sent(d) : d \in G \cup {h}}
          BY <5>1
        <5>3. short' = IF G = {} THEN short
                       ELSE short \cup UNION {text1[d] : d \in G \cup {h}}
          BY <1>12, <2>6 DEF ShortAfterOverflow, G, h
        <5> QED BY <5>2, <5>3
      <4> QED BY <3>4, <4>1, <4>2, <4>3, <4>4, <4>5 DEF SummaryMade
    <3> QED BY <2>4, <3>3, <3>4, <3>5, <3>6 DEF md, lane0
  <2>7. CASE lane2.drop # "summarize"
    <3>1. text' = text1
      BY <1>12, <2>7 DEF TextAfterOverflow
    <3>2. \A d \in Ids : text'[d] = IF d = nextId THEN Sent(d) \cup UNION {Sent(e) : e \in {}}
                                    ELSE Sent(d)
      BY <1>6, <3>1
    <3>3. ~ (lane0.drop = "summarize" /\ md = "collect")
      BY <1>3, <1>5, <2>7
    <3> QED BY <3>2, <3>3 DEF md, lane0
  <2> QED BY <2>6, <2>7
<1> QED BY <1>9, <1>11, <1>12

(* Nothing but Submit puts a command into a lane.                          *)
LEMMA PendingShrinks ==
  ASSUME Owned, [Next]_vars
  PROVE  \/ \E s \in Session, m \in SubmitModes : Submit(s, m)
         \/ /\ text' = text /\ nextId' = nextId /\ session' = session
            /\ \A t \in Session : Elements(lanes'[t].pending) \subseteq Pending(t)
            /\ \A c \in Ids : thread'[c] = "none" => thread[c] = "none"
            /\ DispatcherScan \/ /\ collected' = collected
                                 /\ \A c \in Ids : thread[c] = "none" => thread'[c] = "none"
<1>1. lanes \in [Session -> Lane] /\ thread \in [Ids -> Phase] /\ session \in [Ids -> Session]
  BY DEF Owned, Typed, TypeOK
<1>2. ASSUME NEW c \in Cancellable, Cancel(c)
      PROVE  /\ \A t \in Session : Elements(lanes'[t].pending) \subseteq Pending(t)
             /\ UNCHANGED <<text, nextId, session, thread, collected>>
  <2> DEFINE s == session[c]
             l == get_lane(s)
  <2>1. s \in Session
    BY <1>1, ClientAssumption
  <2>2. LaneOK(l) /\ l.exists /\ Elements(l.pending) = Pending(s)
    BY <2>1, GetLaneOK DEF Pending, Owned
  <2>3. \/ lanes' = [lanes EXCEPT ![s] = l]
        \/ lanes' = [lanes EXCEPT ![s] = CancelPending(l, c)] /\ c \in Elements(l.pending)
    BY <1>2 DEF Cancel
  <2>4. c \in Elements(l.pending) => Elements(CancelPending(l, c).pending) \subseteq Pending(s)
    <3> HIDE DEF l
    <3> QED BY <2>2, CancelLaneOK
  <2>5. UNCHANGED <<text, nextId, session, thread, collected>>
    BY <1>2 DEF Cancel, threadVars, commandVars
  <2> HIDE DEF l, s
  <2> QED BY <1>1, <2>1, <2>2, <2>3, <2>4, <2>5 DEF Pending
<1>3. ASSUME NEW s \in Abortable, AbortSession(s)
      PROVE  /\ \A t \in Session : Elements(lanes'[t].pending) \subseteq Pending(t)
             /\ UNCHANGED <<text, nextId, session, thread, collected>>
  <2>1. s \in Session /\ LaneOK(lanes[s])
    BY ClientAssumption DEF Owned, Typed
  <2>2. lanes' = [lanes EXCEPT ![s] = InterruptActive(lanes[s])]
    BY <1>3 DEF AbortSession
  <2>3. UNCHANGED <<text, nextId, session, thread, collected>>
    BY <1>3 DEF AbortSession, threadVars, commandVars
  <2> QED BY <1>1, <2>1, <2>2, <2>3, InterruptLaneOK DEF Pending
<1>4. ASSUME NEW s \in Session, NEW o \in Overrides, ConfigureSession(s, o)
      PROVE  /\ \A t \in Session : Elements(lanes'[t].pending) \subseteq Pending(t)
             /\ UNCHANGED <<text, nextId, session, thread, collected>>
  <2> DEFINE l == get_lane(s)
  <2>1. l \in Lane /\ l.pending = lanes[s].pending
    BY GetLaneOK DEF LaneOK, Owned
  <2>2. lanes' = [lanes EXCEPT ![s] =
           [l EXCEPT !.mode = o.mode,
                     !.debounce = IF o.debounce >= 0 THEN o.debounce ELSE @,
                     !.cap = IF o.cap >= 0 THEN o.cap ELSE @,
                     !.drop = IF o.drop # "" THEN o.drop ELSE @]]
    BY <1>4 DEF ConfigureSession
  <2>3. UNCHANGED <<text, nextId, session, thread, collected>>
    BY <1>4 DEF ConfigureSession, threadVars, commandVars
  <2> HIDE DEF l
  <2>4. lanes'[s].pending = l.pending /\ \A t \in Session \ {s} : lanes'[t] = lanes[t]
    BY <1>1, <2>1, <2>2 DEF Lane
  <2> QED BY <2>1, <2>3, <2>4 DEF Pending
<1>5. CASE DispatcherScan
  <2>1. PICK D \in SUBSET Session :
           /\ \A s \in D : lanes[s].exists /\ lanes[s].pending # <<>>
           /\ lanes' = [s \in Session |->
                          IF s \in D THEN Activate(lanes[s])
                          ELSE IF IsIdle(lanes[s]) THEN AbsentLane
                          ELSE lanes[s]]
           /\ thread' = [c \in Ids |-> IF c \in Started(D) THEN "todo" ELSE thread[c]]
    BY <1>5, ScanFacts DEF Owned
  <2>2. \A t \in Session : Elements(lanes'[t].pending) \subseteq Pending(t)
    BY <2>1, ScanLane DEF Owned
  <2>3. \A c \in Ids : thread'[c] = "none" => thread[c] = "none"
    BY <2>1
  <2> QED BY <1>5, <2>2, <2>3 DEF DispatcherScan
<1>6. ASSUME NEW c \in Ids, SpawnWorker(c) \/ ExecutorReturns(c) \/ CompleteCommand(c)
      PROVE  /\ \A t \in Session : Elements(lanes'[t].pending) \subseteq Pending(t)
             /\ UNCHANGED <<text, nextId, session, collected>>
             /\ \A d \in Ids : thread'[d] = "none" <=> thread[d] = "none"
  <2>1. UNCHANGED <<text, nextId, session, collected>>
    BY <1>6 DEF SpawnWorker, ExecutorReturns, CompleteCommand, commandVars
  <2>2. \A d \in Ids : thread'[d] = "none" <=> thread[d] = "none"
    BY <1>1, <1>6 DEF SpawnWorker, ExecutorReturns, CompleteCommand
  <2>3. CASE CompleteCommand(c)
    <3> DEFINE s == session[c]
    <3>1. s \in Session /\ lanes[s] \in Lane
      BY <1>1
    <3>2. lanes' = [lanes EXCEPT ![s] =
                     IF lanes[s].exists THEN CompleteActive(lanes[s]) ELSE lanes[s]]
      BY <2>3 DEF CompleteCommand
    <3> HIDE DEF s
    <3>3. \A t \in Session : lanes'[t].pending = lanes[t].pending
      BY <1>1, <3>1, <3>2 DEF CompleteActive, Lane
    <3> QED BY <2>1, <2>2, <3>3 DEF Pending
  <2>4. CASE SpawnWorker(c) \/ ExecutorReturns(c)
    BY <2>1, <2>2, <2>4 DEF SpawnWorker, ExecutorReturns, queueVars, Pending
  <2> QED BY <1>6, <2>3, <2>4
<1>7. CASE \/ \E cfg \in Configs : SetConfig(cfg)
           \/ \E s \in Session : DebounceElapses(s)
           \/ DispatcherExit \/ Start \/ StopBegin \/ StopSwapWorkers \/ StopReturn
           \/ UNCHANGED vars
  BY <1>7 DEF SetConfig, DebounceElapses, DispatcherExit, Start, StopBegin, StopSwapWorkers,
              StopReturn, queueVars, threadVars, commandVars, vars, Pending
<1> QED BY <1>2, <1>3, <1>4, <1>5, <1>6, <1>7 DEF Next, ClientNext, WorkerNext

(* The strengthening that makes NoDuplicateDelivery inductive: a command    *)
(* holds messages that were submitted, so that a new one is in none, and    *)
(* nothing is collected for a command before it starts.                     *)
Delivery ==
  /\ \A c \in Ids : \A n \in Carried(c) : n < nextId
  /\ \A c \in Ids : thread[c] = "none" => collected[c] = {}
  /\ \A c \in Ids : c < nextId => c \in text[c]
  /\ NoDuplicateDelivery

(* Carriers are commands.                                                  *)
LEMMA CarriersAreIds ==
  ASSUME Owned
  PROVE  Carriers \subseteq Ids
BY PendingIds DEF Owned, Carriers

(* Submit gives the new message to one carrier and moves the messages of   *)
(* the commands it drops.                                                  *)
LEMMA DeliverySubmit ==
  ASSUME Owned, Delivery, NEW s \in Session, NEW m \in SubmitModes, Submit(s, m)
  PROVE  Delivery'
<1>1. PICK G \in SUBSET (Pending(s) \cup {nextId}), h \in Pending(s) \cup {nextId} :
           /\ Elements(lanes'[s].pending) \cap G = {}
           /\ \A c \in Ids : text'[c] =
                IF c = h THEN Sent(c) \cup UNION {Sent(d) : d \in G} ELSE Sent(c)
  <2>1. \E G \in SUBSET (Pending(s) \cup {nextId}), h \in Pending(s) \cup {nextId} :
           /\ Elements(lanes'[s].pending) \cap G = {}
           /\ \A c \in Ids : text'[c] =
                IF c = h THEN Sent(c) \cup UNION {Sent(d) : d \in G} ELSE Sent(c)
           /\ /\ get_lane(s).drop = "summarize"
              /\ ResolvedMode(get_lane(s), m) = "collect"
              => SummaryMade(s, G, h)
    BY SubmitText
  <2> QED BY <2>1
<1>2. /\ nextId \in Ids /\ Elements(lanes'[s].pending) \subseteq Pending(s) \cup {nextId}
      /\ \A t \in Session \ {s} : lanes'[t] = lanes[t]
  BY SubmitLanes DEF Owned
<1>3. nextId' = nextId + 1 /\ UNCHANGED <<thread, collected>>
  BY DEF Submit, threadVars
<1>4. thread[nextId] = "none" /\ collected[nextId] = {}
  BY <1>2 DEF Owned, Issued, Ids, Delivery
<1>5. Pending(s) \cup {nextId} \subseteq Ids /\ Carriers \subseteq Ids
  BY <1>2, PendingIds, CarriersAreIds DEF Owned
<1> DEFINE Held(c) == Sent(c) \cup collected[c]
           B       == Carriers \cup {nextId}
<1>6. \A c \in Ids : \A n \in Held(c) : n \in Int /\ n < nextId + 1
  <2>1. \A c \in Ids : Carried(c) \subseteq Ids
    BY DEF Owned, Typed, TypeOK, Carried
  <2> SUFFICES ASSUME NEW c \in Ids, NEW n \in Held(c)
               PROVE  n \in Int /\ n < nextId + 1
    OBVIOUS
  <2>2. n = nextId \/ n \in Carried(c)
    BY DEF Sent, Carried
  <2> QED BY <1>2, <2>1, <2>2 DEF Ids, Delivery
<1>7. \A c, d \in B : c # d => Held(c) \cap Held(d) = {}
  <2>1. \A c \in Ids : nextId \notin Carried(c)
    BY <1>2 DEF Delivery, Ids
  <2>2. Held(nextId) = {nextId} /\ \A c \in Ids \ {nextId} : Held(c) = Carried(c)
    BY <1>4 DEF Sent, Carried
  <2> HIDE DEF Held
  <2>3. \A c, d \in Carriers : c # d => Carried(c) \cap Carried(d) = {}
    BY DEF Delivery, NoDuplicateDelivery
  <2> QED BY <1>5, <2>1, <2>2, <2>3
<1>8. G \subseteq B /\ h \in B /\ \A d \in G : thread[d] = "none" /\ collected[d] = {}
  <2>1. Pending(s) \subseteq Carriers
    BY DEF Carriers
  <2>2. \A d \in Pending(s) : thread[d] = "none"
    BY DEF Owned, PendingOwned
  <2>3. \A d \in G : d \in Ids /\ thread[d] = "none"
    BY <1>4, <1>5, <2>2
  <2> QED BY <2>1, <2>3 DEF Delivery
<1>9. Carriers' \subseteq B \ G
  <2> SUFFICES ASSUME NEW c \in Carriers' PROVE c \in B \ G
    OBVIOUS
  <2>1. CASE c \in Ids /\ thread[c] # "none"
    BY <1>8, <2>1 DEF Carriers
  <2>2. CASE \E t \in Session : c \in Elements(lanes'[t].pending)
    <3>1. PICK t \in Session : c \in Elements(lanes'[t].pending)
      BY <2>2
    <3>2. CASE t = s
      BY <1>1, <1>2, <3>1, <3>2 DEF Carriers
    <3>3. CASE t # s
      <4>1. c \in Pending(t) /\ session[c] = t /\ c < nextId
        BY <1>2, <3>1, <3>3 DEF Pending, Owned, PendingOwned, Typed
      <4>2. c \notin Pending(s) /\ c # nextId
        BY <1>2, <3>3, <4>1 DEF Owned, PendingOwned, Ids
      <4> QED BY <4>1, <4>2 DEF Carriers
    <3> QED BY <3>2, <3>3
  <2> QED BY <1>3, <2>1, <2>2 DEF Carriers, Pending
<1>10. \A c \in Ids : Carried(c)' =
         IF c = h THEN Held(c) \cup UNION {Held(d) : d \in G} ELSE Held(c)
  <2>1. \A d \in G : Held(d) = Sent(d)
    BY <1>8
  <2>2. UNION {Held(d) : d \in G} = UNION {Sent(d) : d \in G}
    BY <2>1
  <2> QED BY <1>1, <1>3, <2>2 DEF Carried
<1> HIDE DEF Held, B
<1>11. NoDuplicateDelivery'
  <2> SUFFICES ASSUME NEW c \in Carriers', NEW d \in Carriers', c # d
               PROVE  Carried(c)' \cap Carried(d)' = {}
    BY DEF NoDuplicateDelivery
  <2>1. c \in B \ G /\ d \in B \ G /\ c \in Ids /\ d \in Ids
    BY <1>2, <1>5, <1>9 DEF B
  <2>2. \A e \in G : /\ Held(e) \cap Held(c) = {}
                     /\ Held(e) \cap Held(d) = {}
    BY <1>7, <1>8, <2>1
  <2>3. Held(c) \cap Held(d) = {}
    BY <1>7, <2>1
  <2> QED BY <1>10, <2>1, <2>2, <2>3
<1>12. \A c \in Ids : \A n \in Carried(c)' : n < nextId'
  <2>1. G \subseteq Ids
    BY <1>5
  <2> QED BY <1>3, <1>6, <1>10, <2>1
<1>13. \A c \in Ids : c < nextId' => c \in text'[c]
  <2> SUFFICES ASSUME NEW c \in Ids, c < nextId' PROVE c \in text'[c]
    OBVIOUS
  <2>1. c \in Sent(c)
    <3>1. c = nextId \/ c < nextId
      BY <1>2, <1>3 DEF Ids
    <3> QED BY <3>1 DEF Sent, Delivery
  <2> QED BY <1>1, <2>1
<1> QED BY <1>3, <1>11, <1>12, <1>13 DEF Delivery

(* A started command takes the messages of what it drains from its lane.   *)
LEMMA DeliveryScan ==
  ASSUME Owned, Delivery, DispatcherScan
  PROVE  Delivery'
<1>1. PICK D \in SUBSET Session :
           /\ \A s \in D : lanes[s].exists /\ lanes[s].pending # <<>>
           /\ lanes' = [s \in Session |->
                          IF s \in D THEN Activate(lanes[s])
                          ELSE IF IsIdle(lanes[s]) THEN AbsentLane
                          ELSE lanes[s]]
           /\ thread' = [c \in Ids |-> IF c \in Started(D) THEN "todo" ELSE thread[c]]
           /\ collected' = [c \in Ids |->
                IF c \in Started(D) /\ mode[c] = "collect"
                THEN UNION {text[d] : d \in Pending(session[c]) \ {c}}
                ELSE collected[c]]
  BY ScanFacts DEF Owned
<1>2. UNCHANGED <<text, nextId, session>>
  BY DEF DispatcherScan
<1>3. \A s \in Session :
         /\ Elements(lanes'[s].pending) \subseteq Pending(s)
         /\ s \in D => Head(lanes[s].pending) \in Pending(s)
  BY <1>1, ScanLane DEF Owned
<1>4. \A s \in Session : \A c \in Pending(s) :
        c \in Ids /\ session[c] = s /\ thread[c] = "none" /\ collected[c] = {}
  BY PendingIds DEF Owned, PendingOwned, Delivery
<1>5. ASSUME NEW c \in Started(D)
      PROVE  \E s \in D : c = Head(lanes[s].pending) /\ c \in Pending(s) /\ session[c] = s
  BY <1>3, <1>4 DEF Started
<1>6. Carriers' \subseteq Carriers
  <2>1. Started(D) \subseteq UNION {Pending(s) : s \in Session}
    BY <1>5
  <2>2. \A c \in Ids : thread'[c] # "none" => c \in Carriers
    BY <1>1, <2>1 DEF Carriers
  <2>3. \A s \in Session : Elements(lanes'[s].pending) \subseteq Carriers
    BY <1>3 DEF Carriers
  <2> QED BY <2>2, <2>3 DEF Carriers, Pending
(* What c takes over, if anything, leaves the lane.                        *)
<1> DEFINE Taken(c) == IF c \in Started(D) /\ mode[c] = "collect"
                       THEN Pending(session[c]) \ {c} ELSE {}
<1>7. \A c \in Ids : Carried(c)' = Carried(c) \cup UNION {Carried(d) : d \in Taken(c)}
  <2> SUFFICES ASSUME NEW c \in Ids
               PROVE  Carried(c)' = Carried(c) \cup UNION {Carried(d) : d \in Taken(c)}
    OBVIOUS
  <2>1. CASE c \in Started(D) /\ mode[c] = "collect"
    <3>1. PICK s \in D : c \in Pending(s) /\ session[c] = s
      BY <1>5, <2>1
    <3>2. collected[c] = {} /\ \A d \in Pending(s) : Carried(d) = text[d]
      BY <1>4, <3>1 DEF Carried
    <3>3. collected'[c] = UNION {text[d] : d \in Pending(s) \ {c}}
      BY <1>1, <2>1, <3>1
    <3>4. UNION {text[d] : d \in Pending(s) \ {c}} = UNION {Carried(d) : d \in Pending(s) \ {c}}
      BY <3>2
    <3> QED BY <1>2, <2>1, <3>1, <3>2, <3>3, <3>4 DEF Carried
  <2>2. CASE ~ (c \in Started(D) /\ mode[c] = "collect")
    <3>1. collected'[c] = collected[c] /\ Taken(c) = {}
      BY <1>1, <2>2
    <3> QED BY <1>2, <3>1 DEF Carried
  <2> QED BY <2>1, <2>2
<1>8. ASSUME NEW c \in Started(D), mode[c] = "collect"
      PROVE  Elements(lanes'[session[c]].pending) = {}
  <2>1. PICK s \in D : c = Head(lanes[s].pending) /\ session[c] = s
    BY <1>5
  <2>2. lanes'[s] = Activate(lanes[s]) /\ lanes[s] \in Lane
    BY <1>1, <2>1 DEF Owned, Typed, TypeOK
  <2>3. lanes'[s].pending = <<>>
    BY <1>8, <2>1, <2>2 DEF Activate, Drains, Lane
  <2> QED BY <2>1, <2>3, EmptyIncreasing
<1>9. \A c \in Ids : Taken(c) \subseteq Carriers /\ Taken(c) \subseteq Ids /\ Taken(c) \cap Carriers' = {}
  <2> SUFFICES ASSUME NEW c \in Started(D), mode[c] = "collect",
                      NEW d \in Pending(session[c]) \ {c}
               PROVE  d \in Carriers /\ d \in Ids /\ d \notin Carriers'
    OBVIOUS
  <2>1. PICK s \in D : c = Head(lanes[s].pending) /\ session[c] = s
    BY <1>5
  <2>2. d \in Ids /\ session[d] = s /\ thread[d] = "none" /\ d \in Carriers
    BY <1>4, <2>1 DEF Carriers
  <2>3. d \notin Started(D)
    BY <1>5, <2>1, <2>2
  <2>4. \A t \in Session : d \notin Elements(lanes'[t].pending)
    BY <1>3, <1>4, <1>8, <2>1, <2>2
  <2> QED BY <1>1, <2>2, <2>3, <2>4 DEF Carriers, Pending
<1>10. \A c, d \in Ids : c # d => Taken(c) \cap Taken(d) = {}
  <2> SUFFICES ASSUME NEW c \in Started(D), NEW d \in Started(D), c # d
               PROVE  Pending(session[c]) \cap Pending(session[d]) = {}
    OBVIOUS
  <2>1. PICK s \in D : c = Head(lanes[s].pending) /\ session[c] = s
    BY <1>5
  <2>2. PICK t \in D : d = Head(lanes[t].pending) /\ session[d] = t
    BY <1>5
  <2> QED BY <1>4, <2>1, <2>2
<1> HIDE DEF Taken
<1>11. NoDuplicateDelivery'
  <2> SUFFICES ASSUME NEW c \in Carriers', NEW d \in Carriers', c # d
               PROVE  Carried(c)' \cap Carried(d)' = {}
    BY DEF NoDuplicateDelivery
  <2>1. c \in Carriers /\ d \in Carriers /\ c \in Ids /\ d \in Ids
    BY <1>6, CarriersAreIds
  <2>2. \A e, f \in Carriers : e # f => Carried(e) \cap Carried(f) = {}
    BY DEF Delivery, NoDuplicateDelivery
  <2>3. \A e \in Taken(c) : e \in Carriers /\ e # d
    BY <1>9, <2>1
  <2>4. \A e \in Taken(d) : e \in Carriers /\ e # c
    BY <1>9, <2>1
  <2>5. \A e \in Taken(c), f \in Taken(d) : e # f
    BY <1>10, <2>1
  <2> QED BY <1>7, <2>1, <2>2, <2>3, <2>4, <2>5
<1>12. \A c \in Ids : \A n \in Carried(c)' : n < nextId'
  BY <1>2, <1>7, <1>9 DEF Delivery
<1>13. \A c \in Ids : thread'[c] = "none" => collected'[c] = {}
  BY <1>1 DEF Delivery
<1>14. \A c \in Ids : c < nextId' => c \in text'[c]
  BY <1>2 DEF Delivery
<1> QED BY <1>11, <1>12, <1>13, <1>14 DEF Delivery

(* Every step preserves Delivery.                                          *)
LEMMA DeliveryStep == Owned /\ Delivery /\ [Next]_vars => Delivery'
<1> SUFFICES ASSUME Owned, Delivery, [Next]_vars PROVE Delivery'
  OBVIOUS
<1>1. CASE \E s \in Session, m \in SubmitModes : Submit(s, m)
  BY <1>1, DeliverySubmit
<1>2. CASE DispatcherScan
  BY <1>2, DeliveryScan
<1>3. CASE /\ UNCHANGED <<text, nextId, collected>>
           /\ \A t \in Session : Elements(lanes'[t].pending) \subseteq Pending(t)
           /\ \A c \in Ids : thread[c] = "none" <=> thread'[c] = "none"
  <2>1. Carriers' \subseteq Carriers
    BY <1>3 DEF Carriers, Pending
  <2>2. \A c : Carried(c)' = Carried(c)
    BY <1>3 DEF Carried
  <2>3. NoDuplicateDelivery'
    BY <2>1, <2>2 DEF Delivery, NoDuplicateDelivery
  <2> QED BY <1>3, <2>2, <2>3 DEF Delivery
<1> QED BY <1>1, <1>2, <1>3, PendingShrinks

(* Delivery holds always.                                                  *)
LEMMA DeliveryInvariant == Spec => []Delivery
<1>1. Init => Delivery
  <2> SUFFICES ASSUME Init PROVE Delivery
    OBVIOUS
  <2>1. \A c \in Ids : Carried(c) = {} /\ ~ (c < nextId)
    BY DEF Init, Carried, Ids
  <2>2. Carriers \subseteq Ids
    BY OwnedInit, CarriersAreIds
  <2> QED BY <2>1, <2>2 DEF Delivery, NoDuplicateDelivery, Init
<1> QED BY <1>1, DeliveryStep, OwnedInvariant, PTL DEF Spec

(* No two commands that may still reach the agent hold the same message:   *)
(* summaries, drains, interrupts and cancellations duplicate nothing, for  *)
(* any sessions, modes, limits and number of commands.                     *)
THEOREM NothingDeliveredTwice == Spec => []NoDuplicateDelivery
<1>1. Delivery => NoDuplicateDelivery
  BY DEF Delivery
<1> QED BY <1>1, DeliveryInvariant, PTL

-----------------------------------------------------------------------------
(* Collect mode: the queue implements Mailbox *)

(* Everybody collects and summarises, nobody cancels or aborts, and no cap *)
(* is below Room: the defaults of QueueConfig, left as they are.           *)
CollectsOnly ==
  /\ SubmitModes \subseteq {"collect"}
  /\ \A cfg \in Configs \cup {InitConfig} : /\ cfg.default_mode = "collect"
                                            /\ cfg.drop = "summarize"
                                            /\ cfg.cap >= Room
  /\ \A o \in Overrides : /\ o.mode = "collect" /\ o.drop \in {"", "summarize"}
                          /\ o.cap >= 0 => o.cap >= Room
  /\ Cancellable = {}
  /\ Abortable = {}

(* A lane, or a configuration l, that collects, and holds Room commands.   *)
Collects(l, m) == m = "collect" /\ l.drop = "summarize" /\ l.cap >= Room

(* Then every lane is in collect mode and every command was sent in it.    *)
Collecting ==
  /\ Collects(config, config.default_mode)
  /\ \A s \in Session : Collects(lanes[s], lanes[s].mode)
  /\ \A c \in Ids : mode[c] = "collect"

(* The messages of a pending command are older than those of a later one.  *)
InOrder ==
  \A s \in Session : \A c, d \in Pending(s) :
    c < d => \A m \in text[c], n \in text[d] : m < n

(* What the steps of the queue are proved from.                            *)
MailboxInv == Owned /\ Delivery /\ LiveIsActive /\ Collecting /\ InOrder

(* The refinement mapping, by name.                                        *)
Waiting(s) == UNION {text[c] : c \in Pending(s)}
Active(s)  == CarriedBy(RunsOf(s, {"todo", "running", "answered"}))
Handled(s) == CarriedBy(RunsOf(s, {"done"}))

waitingNow == [s \in Session |-> Waiting(s)]
activeNow  == [s \in Session |-> Active(s)]
handledNow == [s \in Session |-> Handled(s)]

(* In collect mode nothing interrupts.                                     *)
LEMMA CollectIsCalm == CollectsOnly => NoInterrupts
BY DEF CollectsOnly, NoInterrupts

-----------------------------------------------------------------------------
(* Everybody stays in collect mode *)

(* The mode and the policy of the lane get_lane returns.                   *)
LEMMA GetLaneCollects ==
  ASSUME Collecting, NEW s \in Session
  PROVE  Collects(get_lane(s), get_lane(s).mode)
BY DEF Collecting, Collects, get_lane, NewLane

(* The constructor starts in collect mode.                                 *)
LEMMA CollectingInit == CollectsOnly /\ Init => Collecting
<1> SUFFICES ASSUME CollectsOnly, Init PROVE Collecting
  OBVIOUS
<1>1. /\ AbsentLane.mode = InitConfig.default_mode /\ AbsentLane.drop = InitConfig.drop
      /\ AbsentLane.cap = InitConfig.cap
  BY DEF AbsentLane, NewLane
<1> QED BY <1>1 DEF Init, CollectsOnly, Collecting, Collects

(* Submit resolves to collect and changes only what is pending.            *)
LEMMA CollectingSubmit ==
  ASSUME CollectsOnly, Owned, Collecting, NEW s \in Session, NEW m \in SubmitModes,
         Submit(s, m)
  PROVE  Collecting'
<1>1. /\ nextId \in Ids /\ lanes'[s] \in Lane
      /\ \A t \in Session \ {s} : lanes'[t] = lanes[t]
  BY SubmitLanes DEF Owned, LaneOK
<1> DEFINE l  == get_lane(s)
           l2 == Enqueue(l, nextId)
<1>2. m = "collect" /\ ResolvedMode(l, m) = "collect"
  BY GetLaneCollects DEF CollectsOnly, ResolvedMode, Collects
<1>3. /\ lanes' = [lanes EXCEPT ![s] = ApplyCapOverflow(l2)]
      /\ mode' = [mode EXCEPT ![nextId] = "collect"]
      /\ config' = config
  BY <1>2 DEF Submit
<1>4. l \in Lane /\ Collects(l, l.mode)
  BY GetLaneOK, GetLaneCollects DEF Owned, LaneOK
<1> HIDE DEF l
<1>5. Collects(ApplyCapOverflow(l2), ApplyCapOverflow(l2).mode)
  BY <1>4 DEF Enqueue, ApplyCapOverflow, Lane, Collects
<1>6. lanes \in [Session -> Lane] /\ mode \in [Ids -> QueueMode]
  BY DEF Owned, Typed, TypeOK
<1>7. lanes'[s] = ApplyCapOverflow(l2)
  BY <1>3, <1>6
<1>8. \A c \in Ids : mode'[c] = "collect"
  BY <1>3, <1>6 DEF Collecting
<1> QED BY <1>1, <1>3, <1>5, <1>7, <1>8 DEF Collecting

(* No step leaves collect mode.                                            *)
LEMMA CollectingStep ==
  ASSUME CollectsOnly, Owned, Collecting, [Next]_vars
  PROVE  Collecting'
<1>1. /\ lanes \in [Session -> Lane] /\ session \in [Ids -> Session]
  BY DEF Owned, Typed, TypeOK
<1>2. CASE \E s \in Session, m \in SubmitModes : Submit(s, m)
  BY <1>2, CollectingSubmit
<1>3. ASSUME NEW s \in Session, NEW o \in Overrides, ConfigureSession(s, o)
      PROVE  Collecting'
  <2> DEFINE l == get_lane(s)
             d == IF o.drop # "" THEN o.drop ELSE l.drop
             b == IF o.debounce >= 0 THEN o.debounce ELSE l.debounce
             p == IF o.cap >= 0 THEN o.cap ELSE l.cap
  <2>1. /\ l \in Lane /\ l.drop = "summarize" /\ l.cap >= Room
        /\ o.mode = "collect" /\ o.drop \in {"", "summarize"}
        /\ o.cap >= 0 => o.cap >= Room
    BY GetLaneOK, GetLaneCollects DEF LaneOK, Owned, CollectsOnly, Collects
  <2>2. d = "summarize" /\ p >= Room
    BY <2>1
  <2>3. lanes' = [lanes EXCEPT ![s] = [l EXCEPT !.mode = o.mode, !.debounce = b,
                                                !.cap = p, !.drop = d]]
    BY <1>3 DEF ConfigureSession
  <2> HIDE DEF l, d, b, p
  <2>4. Collects(lanes'[s], lanes'[s].mode)
    BY <1>1, <2>1, <2>2, <2>3 DEF Lane, Collects
  <2>5. \A t \in Session \ {s} : lanes'[t] = lanes[t]
    BY <1>1, <2>3
  <2> QED BY <1>3, <2>4, <2>5 DEF ConfigureSession, commandVars, Collecting
<1>4. CASE DispatcherScan
  <2>1. PICK D \in SUBSET Session :
           lanes' = [s \in Session |->
                          IF s \in D THEN Activate(lanes[s])
                          ELSE IF IsIdle(lanes[s]) THEN AbsentLane
                          ELSE lanes[s]]
    BY <1>4, ScanFacts DEF Owned
  <2>2. Collects(AbsentLane, AbsentLane.mode)
    BY DEF AbsentLane, NewLane, CollectsOnly, Collects
  <2>3. \A s \in Session : /\ Activate(lanes[s]).mode = lanes[s].mode
                           /\ Activate(lanes[s]).drop = lanes[s].drop
                           /\ Activate(lanes[s]).cap = lanes[s].cap
    BY <1>1 DEF Activate, Lane
  <2> QED BY <1>4, <2>1, <2>2, <2>3 DEF DispatcherScan, Collecting, Collects
<1>5. ASSUME NEW c \in Ids, CompleteCommand(c)
      PROVE  Collecting'
  <2> DEFINE s == session[c]
  <2>1. s \in Session /\ lanes[s] \in Lane
    BY <1>1
  <2>2. lanes' = [lanes EXCEPT ![s] =
                   IF lanes[s].exists THEN CompleteActive(lanes[s]) ELSE lanes[s]]
    BY <1>5 DEF CompleteCommand
  <2> HIDE DEF s
  <2>3. \A t \in Session : /\ lanes'[t].mode = lanes[t].mode
                           /\ lanes'[t].drop = lanes[t].drop
                           /\ lanes'[t].cap = lanes[t].cap
    BY <1>1, <2>1, <2>2 DEF CompleteActive, Lane
  <2> QED BY <1>5, <2>3 DEF CompleteCommand, commandVars, Collecting, Collects
<1>6. CASE \E cfg \in Configs : SetConfig(cfg)
  BY <1>6 DEF SetConfig, commandVars, Collecting, CollectsOnly, Collects
<1>7. CASE \/ \E c \in Ids : SpawnWorker(c) \/ ExecutorReturns(c)
           \/ \E s \in Session : DebounceElapses(s)
           \/ DispatcherExit \/ Start \/ StopBegin \/ StopSwapWorkers \/ StopReturn
           \/ UNCHANGED vars
  BY <1>7 DEF SpawnWorker, ExecutorReturns, DebounceElapses, DispatcherExit, Start,
              StopBegin, StopSwapWorkers, StopReturn, queueVars, commandVars, vars,
              Collecting
<1> QED BY <1>2, <1>3, <1>4, <1>5, <1>6, <1>7
        DEF Next, ClientNext, WorkerNext, CollectsOnly

-----------------------------------------------------------------------------
(* The steps of the queue as steps of the mailbox *)

(* What the runs in some phases carry depends on those runs alone.         *)
LEMMA CarriedAgrees ==
  ASSUME NEW s, NEW phases,
         RunsOf(s, phases)' = RunsOf(s, phases),
         \A c \in RunsOf(s, phases) : Carried(c)' = Carried(c)
  PROVE  CarriedBy(RunsOf(s, phases))' = CarriedBy(RunsOf(s, phases))
<1> DEFINE R == RunsOf(s, phases)
<1>1. {Carried(c)' : c \in R} = {Carried(c) : c \in R}
  OBVIOUS
<1> QED BY <1>1 DEF CarriedBy

(* What is waiting, and the message on its way, is in the order of ids.    *)
LEMMA SentInOrder ==
  ASSUME Owned, Delivery, InOrder, nextId \in Ids, NEW s \in Session,
         NEW c \in Pending(s) \cup {nextId}, NEW d \in Pending(s) \cup {nextId}, c < d
  PROVE  \A m \in Sent(c), n \in Sent(d) : m < n
<1>1. /\ \A e \in Pending(s) : e < nextId /\ e # nextId /\ e \in Ids
      /\ nextId \in Nat
  BY PendingIds DEF Owned, Typed, Ids
<1>2. c # nextId /\ c \in Pending(s)
  BY <1>1 DEF Ids
<1>3. CASE d = nextId
  BY <1>1, <1>2, <1>3 DEF Sent, Delivery, Carried
<1>4. CASE d # nextId
  BY <1>2, <1>4 DEF Sent, InOrder
<1> QED BY <1>3, <1>4

(* In collect mode Submit makes a summary, if it does, as SummaryMade says. *)
LEMMA SubmitSummary ==
  ASSUME CollectsOnly, MailboxInv, NEW s \in Session, NEW m \in SubmitModes,
         Submit(s, m)
  PROVE  \E G \in SUBSET (Pending(s) \cup {nextId}), h \in Pending(s) \cup {nextId} :
           /\ \A c \in Ids : text'[c] =
                IF c = h THEN Sent(c) \cup UNION {Sent(d) : d \in G} ELSE Sent(c)
           /\ SummaryMade(s, G, h)
<1>1. ResolvedMode(get_lane(s), m) = "collect" /\ get_lane(s).drop = "summarize"
  BY GetLaneCollects DEF CollectsOnly, ResolvedMode, Collects, MailboxInv
<1>2. Owned
  BY DEF MailboxInv
<1> QED BY <1>1, <1>2, SubmitText

(* A summary keeps what waits in order: it takes messages that follow      *)
(* each other.                                                             *)
LEMMA InOrderSubmit ==
  ASSUME CollectsOnly, MailboxInv, NEW s \in Session, NEW m \in SubmitModes,
         Submit(s, m)
  PROVE  InOrder'
<1> USE DEF MailboxInv
<1>1. PICK G \in SUBSET (Pending(s) \cup {nextId}), h \in Pending(s) \cup {nextId} :
           /\ \A c \in Ids : text'[c] =
                IF c = h THEN Sent(c) \cup UNION {Sent(d) : d \in G} ELSE Sent(c)
           /\ SummaryMade(s, G, h)
  BY SubmitSummary
<1>2. nextId \in Ids /\ \A t \in Session \ {s} : lanes'[t] = lanes[t]
  BY SubmitLanes DEF Owned
<1>3. \A t \in Session : \A c \in Pending(t) : c \in Ids /\ session[c] = t /\ c # nextId
  BY <1>2, PendingIds DEF Owned, Typed, PendingOwned, Ids
<1>4. ASSUME NEW t \in Session \ {s}, NEW c \in Pending(t)', NEW d \in Pending(t)', c < d
      PROVE  \A k \in text'[c], n \in text'[d] : k < n
  <2>1. c \in Pending(t) /\ d \in Pending(t)
    BY <1>2 DEF Pending
  <2>2. c # h /\ d # h
    BY <1>3, <2>1
  <2>3. text'[c] = text[c] /\ text'[d] = text[d]
    BY <1>1, <1>3, <2>1, <2>2 DEF Sent
  <2> QED BY <1>4, <2>1, <2>3 DEF InOrder
<1>5. ASSUME NEW c \in Pending(s)', NEW d \in Pending(s)', c < d
      PROVE  \A k \in text'[c], n \in text'[d] : k < n
  <2> DEFINE K == Elements(lanes'[s].pending)
             B == Pending(s) \cup {nextId}
  <2>1. /\ K \cup G = B /\ h \in K /\ c \in K /\ d \in K
        /\ \A g \in G \cup {h}, e \in K \ {h} : g < e
    BY <1>1 DEF SummaryMade, Pending
  <2>2. B \subseteq Ids
    BY <1>2, <1>3
  <2>3. d # h
    BY <1>5, <2>1, <2>2 DEF Ids
  <2>4. text'[d] = Sent(d)
    BY <1>1, <2>1, <2>2, <2>3
  <2>5. \A x \in B : x < d => \A k \in Sent(x), n \in Sent(d) : k < n
    BY <1>2, <2>1, SentInOrder
  <2>6. CASE c # h
    <3>1. text'[c] = Sent(c)
      BY <1>1, <2>1, <2>2, <2>6
    <3> QED BY <1>5, <2>1, <2>4, <2>5, <3>1
  <2>7. CASE c = h
    <3>1. text'[c] = Sent(h) \cup UNION {Sent(g) : g \in G}
      BY <1>1, <2>1, <2>2, <2>7
    <3>2. \A g \in G \cup {h} : g \in B /\ g < d
      BY <2>1, <2>3
    <3> QED BY <2>4, <2>5, <3>1, <3>2
  <2> QED BY <2>6, <2>7
<1> QED BY <1>4, <1>5 DEF InOrder

(* Every other step leaves the messages alone and adds no command.         *)
LEMMA InOrderStep ==
  ASSUME CollectsOnly, MailboxInv, [Next]_vars
  PROVE  InOrder'
<1>1. CASE \E s \in Session, m \in SubmitModes : Submit(s, m)
  BY <1>1, InOrderSubmit
<1>2. CASE /\ text' = text
           /\ \A t \in Session : Elements(lanes'[t].pending) \subseteq Pending(t)
  BY <1>2 DEF MailboxInv, InOrder, Pending
<1> QED BY <1>1, <1>2, PendingShrinks DEF MailboxInv

(* Submit cuts, if anything, the oldest of what waits, and only when more  *)
(* than Room messages do.                                                  *)
LEMMA SubmitCuts ==
  ASSUME CollectsOnly, MailboxInv, NEW s \in Session, NEW m \in SubmitModes,
         Submit(s, m)
  PROVE  \E cut \in SUBSET (Waiting(s) \cup {nextId}) :
           /\ short' = short \cup cut
           /\ cut # {} => Cardinality(Waiting(s) \cup {nextId}) > Room
           /\ nextId \in cut => Room < 2
           /\ \A k \in cut, n \in (Waiting(s) \cup {nextId}) \ cut : k < n
<1> USE DEF MailboxInv
<1> DEFINE B == Pending(s) \cup {nextId}
           W == Waiting(s) \cup {nextId}
<1>1. PICK G \in SUBSET B, h \in B : SummaryMade(s, G, h)
  BY SubmitSummary
<1>2. nextId \in Ids
  BY SubmitLanes DEF Owned
<1>3. /\ B \subseteq Ids
      /\ \A c \in Pending(s) : c < nextId /\ c # nextId /\ c \in text[c]
  BY <1>2, PendingIds DEF Owned, Typed, Delivery, Ids
<1>4. W = UNION {Sent(c) : c \in B}
  BY <1>3 DEF Sent, Waiting
<1>5. W \subseteq Ids
  BY <1>2, <1>3 DEF Owned, Typed, TypeOK, Waiting
<1>6. get_lane(s).cap \in Int /\ get_lane(s).cap >= Room
  BY GetLaneOK, GetLaneCollects DEF Collects, Owned, LaneOK, Lane
<1>7. Cardinality(W) \in Nat /\ Cardinality(B) \in Nat /\ Cardinality(B) <= Cardinality(W)
  <2>1. IsFiniteSet(Ids)
    BY CommandsAssumption, FS_Interval DEF Ids
  <2>2. B \subseteq W
    BY <1>3 DEF Waiting
  <2> HIDE DEF B, W
  <2>3. IsFiniteSet(W) /\ IsFiniteSet(B)
    BY <1>3, <1>5, <2>1, FS_Subset
  <2> QED BY <2>2, <2>3, FS_Subset, FS_CardinalityType
<1>8. CASE G = {}
  <2>1. short' = short \cup {}
    BY <1>1, <1>8 DEF SummaryMade
  <2> HIDE DEF W, B
  <2> WITNESS {} \in SUBSET (Waiting(s) \cup {nextId})
  <2> QED BY <2>1
<1>9. CASE G # {}
  <2> DEFINE cut == UNION {Sent(d) : d \in G \cup {h}}
             K == Elements(lanes'[s].pending)
  <2>1. /\ short' = short \cup cut
        /\ Cardinality(B) > get_lane(s).cap
        /\ get_lane(s).cap >= 2 => nextId \notin G \cup {h}
        /\ K \cup G = B
        /\ \A g \in G \cup {h}, e \in K \ {h} : g < e
    BY <1>1, <1>9 DEF SummaryMade
  <2>2. cut \subseteq W
    BY <1>4
  <2>3. Cardinality(W) > Room
    BY <1>6, <1>7, <2>1, RoomAssumption
  <2>4. ASSUME nextId \in cut PROVE Room < 2
    <3>1. PICK d \in G \cup {h} : nextId \in Sent(d)
      BY <2>4
    <3>2. d = nextId
      <4> SUFFICES ASSUME d # nextId PROVE FALSE
        OBVIOUS
      <4>1. d \in Ids /\ nextId \in text[d]
        BY <1>3, <3>1 DEF Sent
      <4>2. nextId < nextId
        BY <4>1 DEF Delivery, Carried
      <4> QED BY <1>2, <4>2 DEF Ids
    <3> QED BY <1>6, <2>1, <3>2, RoomAssumption
  <2>5. ASSUME NEW k \in cut, NEW n \in W \ cut PROVE k < n
    <3>1. PICK g \in G \cup {h} : k \in Sent(g)
      OBVIOUS
    <3>2. PICK e \in B : n \in Sent(e)
      BY <1>4
    <3>3. e \notin G \cup {h}
      BY <3>2
    <3>4. g < e /\ g \in B
      BY <2>1, <3>3
    <3> QED BY <1>2, <3>1, <3>2, <3>4, SentInOrder
  <2> HIDE DEF cut
  <2> QED BY <2>1, <2>2, <2>3, <2>4, <2>5
<1> QED BY <1>8, <1>9

(* Submit is Send: the message waits, in its own command or in the one     *)
(* that takes it over when the lane is over its cap.                       *)
LEMMA SubmitSends ==
  ASSUME CollectsOnly, MailboxInv, NEW s \in Session, NEW m \in SubmitModes,
         Submit(s, m)
  PROVE  /\ nextId <= MaxCommands /\ nextId' = nextId + 1
         /\ waitingNow' = [waitingNow EXCEPT ![s] = @ \cup {nextId}]
         /\ activeNow' = activeNow /\ handledNow' = handledNow
<1> USE DEF MailboxInv
<1>2. PICK G \in SUBSET (Pending(s) \cup {nextId}), h \in Pending(s) \cup {nextId} :
           /\ \A c \in Ids : text'[c] =
                IF c = h THEN Sent(c) \cup UNION {Sent(d) : d \in G} ELSE Sent(c)
           /\ h \in Elements(lanes'[s].pending)
           /\ Elements(lanes'[s].pending) \cup G = Pending(s) \cup {nextId}
  BY SubmitSummary DEF SummaryMade
<1>3. /\ nextId \in Ids /\ nextId <= MaxCommands /\ nextId' = nextId + 1
      /\ \A t \in Session \ {s} : lanes'[t] = lanes[t]
      /\ session' = [session EXCEPT ![nextId] = s]
      /\ UNCHANGED <<thread, collected>>
  BY SubmitLanes DEF Submit, threadVars, Owned
<1>4. /\ Pending(s) \cup {nextId} \subseteq Ids
      /\ \A t \in Session : \A c \in Pending(t) :
           /\ c \in Ids /\ session[c] = t /\ thread[c] = "none" /\ c # nextId
  BY <1>3, PendingIds DEF Owned, Typed, PendingOwned, Ids
<1>5. thread[nextId] = "none"
  BY <1>3 DEF Owned, Issued, Ids
<1>6. UNION {text'[c] : c \in Elements(lanes'[s].pending)} = Waiting(s) \cup {nextId}
  <2> DEFINE K == Elements(lanes'[s].pending)
             B == Pending(s) \cup {nextId}
  <2>1. K \subseteq Ids /\ K \cup G = B /\ h \in K
    BY <1>2, <1>4
  <2> HIDE DEF K, B
  <2>2. \A x : (\E c \in K : x \in text'[c]) <=> (\E c \in K \cup G : x \in Sent(c))
    <3> DEFINE Taken == UNION {Sent(d) : d \in G}
    <3>1. \A c \in Ids : text'[c] = IF c = h THEN Sent(c) \cup Taken ELSE Sent(c)
      BY <1>2
    <3>2. \A x : x \in Taken <=> \E d \in G : x \in Sent(d)
      OBVIOUS
    <3> HIDE DEF Taken, Sent
    <3>3. ASSUME NEW x, NEW c \in K, x \in text'[c]
          PROVE  \E d \in K \cup G : x \in Sent(d)
      <4>1. x \in Sent(c) \/ x \in Taken
        BY <2>1, <3>1, <3>3
      <4> QED BY <3>2, <4>1
    <3>4. ASSUME NEW x, NEW c \in K \cup G, x \in Sent(c)
          PROVE  \E d \in K : x \in text'[d]
      <4>1. CASE c \in K
        BY <2>1, <3>1, <3>4, <4>1
      <4>2. CASE c \in G
        <5>1. x \in Taken
          BY <3>2, <3>4, <4>2
        <5>2. x \in text'[h]
          BY <2>1, <3>1, <5>1
        <5> QED BY <2>1, <5>2
      <4> QED BY <4>1, <4>2
    <3> QED BY <3>3, <3>4
  <2>3. \A x : (\E c \in B : x \in Sent(c)) <=> (\E c \in Pending(s) : x \in text[c]) \/ x = nextId
    BY <1>4 DEF Sent, B
  <2>4. \A x : (\E c \in K : x \in text'[c]) <=> x \in Waiting(s) \cup {nextId}
    BY <2>1, <2>2, <2>3 DEF Waiting
  <2> QED BY <2>4 DEF K
<1>7. \A t \in Session \ {s} : Waiting(t)' = Waiting(t)
  <2> SUFFICES ASSUME NEW t \in Session \ {s} PROVE Waiting(t)' = Waiting(t)
    OBVIOUS
  <2>1. Pending(t)' = Pending(t)
    BY <1>3 DEF Pending
  <2>2. \A c \in Pending(t) : c # h
    BY <1>4
  <2>3. \A c \in Pending(t) : text'[c] = text[c]
    BY <1>2, <1>4, <2>2 DEF Sent
  <2>4. {text'[c] : c \in Pending(t)} = {text[c] : c \in Pending(t)}
    BY <2>3
  <2> QED BY <2>1, <2>4 DEF Waiting
<1>8. Waiting(s)' = Waiting(s) \cup {nextId}
  BY <1>6 DEF Waiting, Pending
<1>9. \A c \in Ids : thread[c] # "none" => session'[c] = session[c] /\ Carried(c)' = Carried(c)
  <2> SUFFICES ASSUME NEW c \in Ids, thread[c] # "none"
               PROVE  session'[c] = session[c] /\ Carried(c)' = Carried(c)
    OBVIOUS
  <2>1. c # nextId /\ c # h
    BY <1>4, <1>5
  <2>2. session'[c] = session[c]
    BY <1>3, <2>1 DEF Owned, Typed, TypeOK
  <2> QED BY <1>2, <1>3, <2>1, <2>2 DEF Sent, Carried
<1>10. ASSUME NEW t \in Session,
              NEW phases \in {{"todo", "running", "answered"}, {"done"}}
       PROVE  CarriedBy(RunsOf(t, phases))' = CarriedBy(RunsOf(t, phases))
  <2>1. "none" \notin phases
    OBVIOUS
  <2>2. RunsOf(t, phases)' = RunsOf(t, phases)
    <3>1. \A c \in Ids : thread[c] \in phases => session'[c] = session[c]
      BY <1>9, <2>1
    <3>2. \A c \in Ids : thread[c] \in phases => c # nextId
      BY <1>5, <2>1
    <3>3. \A c \in Ids : thread'[c] = thread[c]
      BY <1>3
    <3> QED BY <3>1, <3>3 DEF RunsOf
  <2>3. \A c \in RunsOf(t, phases) : Carried(c)' = Carried(c)
    BY <1>9, <2>1 DEF RunsOf
  <2> QED BY <2>2, <2>3, CarriedAgrees
<1>11. \A t \in Session : Active(t)' = Active(t) /\ Handled(t)' = Handled(t)
  BY <1>10 DEF Active, Handled
<1>12. waitingNow' = [waitingNow EXCEPT ![s] = @ \cup {nextId}]
  BY <1>7, <1>8 DEF waitingNow
<1> QED BY <1>3, <1>11, <1>12 DEF activeNow, handledNow

(* A step that moves no command between lanes, phases and batches is no    *)
(* step of the mailbox.                                                    *)
LEMMA OthersStutter ==
  ASSUME Owned, UNCHANGED <<session, text, collected, short>>,
         \A s \in Session : Pending(s)' = Pending(s),
         \A c \in Ids : /\ thread'[c] = "done" <=> thread[c] = "done"
                        /\ thread'[c] = "none" <=> thread[c] = "none",
         thread' \in [Ids -> Phase]
  PROVE  waitingNow' = waitingNow /\ activeNow' = activeNow /\ handledNow' = handledNow
<1>1. \A c \in Ids : Carried(c)' = Carried(c)
  BY DEF Carried
<1>2. thread \in [Ids -> Phase]
  BY DEF Owned, Typed, TypeOK
<1>3. \A s \in Session : Waiting(s)' = Waiting(s)
  BY DEF Waiting
<1>4. \A s \in Session : RunsOf(s, {"done"})' = RunsOf(s, {"done"})
  BY DEF RunsOf
<1>5. \A s \in Session : RunsOf(s, {"todo", "running", "answered"})'
                            = RunsOf(s, {"todo", "running", "answered"})
  <2>1. \A c \in Ids : thread'[c] \in {"todo", "running", "answered"}
                         <=> thread[c] \in {"todo", "running", "answered"}
    BY <1>2 DEF Phase
  <2> QED BY <2>1 DEF RunsOf
<1>6. \A s \in Session : Active(s)' = Active(s) /\ Handled(s)' = Handled(s)
  <2> TAKE s \in Session
  <2>1. /\ RunsOf(s, {"done"}) \subseteq Ids
        /\ RunsOf(s, {"todo", "running", "answered"}) \subseteq Ids
    BY DEF RunsOf
  <2> QED BY <1>1, <1>4, <1>5, <2>1, CarriedAgrees DEF Active, Handled
<1> QED BY <1>3, <1>6 DEF waitingNow, activeNow, handledNow

(* A scan is Begin for the lanes it activates: the front of the lane takes *)
(* everything that waits there.                                            *)
LEMMA ScanBegins ==
  ASSUME CollectsOnly, MailboxInv, DispatcherScan
  PROVE  /\ \E D \in SUBSET Session :
              /\ \A s \in D : /\ Active(s) = {} /\ Active(s)' # {}
                              /\ Active(s)' = Waiting(s) /\ Waiting(s)' = {}
              /\ \A s \in Session \ D : Active(s)' = Active(s) /\ Waiting(s)' = Waiting(s)
         /\ handledNow' = handledNow /\ nextId' = nextId /\ short' = short
<1> USE DEF MailboxInv
<1> DEFINE live == {"todo", "running", "answered"}
<1>1. PICK D \in SUBSET Session :
           /\ \A s \in D : /\ lanes[s].exists
                           /\ lanes[s].active = NoCommand
                           /\ lanes[s].pending # <<>>
           /\ lanes' = [s \in Session |->
                          IF s \in D THEN Activate(lanes[s])
                          ELSE IF IsIdle(lanes[s]) THEN AbsentLane
                          ELSE lanes[s]]
           /\ thread' = [c \in Ids |-> IF c \in Started(D) THEN "todo"
                                       ELSE thread[c]]
           /\ collected' = [c \in Ids |->
                IF c \in Started(D) /\ mode[c] = "collect"
                THEN UNION {text[d] : d \in Pending(session[c]) \ {c}}
                ELSE collected[c]]
  BY ScanFacts DEF Owned
<1>2. UNCHANGED <<text, nextId, session, short>>
  BY DEF DispatcherScan
<1>3. \A s \in Session : \A c \in Pending(s) :
        /\ c \in Ids /\ session[c] = s /\ thread[c] = "none"
        /\ collected[c] = {} /\ c < nextId
  BY PendingIds DEF Owned, PendingOwned, Delivery, Typed
<1>4. \A s \in D : /\ Head(lanes[s].pending) \in Pending(s)
                   /\ lanes[s] \in Lane
                   /\ lanes'[s] = Activate(lanes[s])
  BY <1>1, ScanLane DEF Owned, Typed, LaneOK
<1>5. \A c \in Started(D) : /\ c \in Ids /\ thread[c] = "none"
                            /\ session[c] \in D /\ c = Head(lanes[session[c]].pending)
  BY <1>3, <1>4 DEF Started
<1>6. \A c \in Ids \ Started(D) : Carried(c)' = Carried(c) /\ thread'[c] = thread[c]
  BY <1>1, <1>2 DEF Carried
<1>7. ASSUME NEW s \in D
      PROVE  /\ Active(s) = {} /\ Active(s)' # {}
             /\ Active(s)' = Waiting(s) /\ Waiting(s)' = {}
  <2>0. PICK c \in Pending(s) : c = Head(lanes[s].pending)
    BY <1>4
  <2>1. c \in Started(D) /\ c \in Ids /\ c < nextId /\ session[c] = s
    BY <1>3, <2>0 DEF Started
  <2>2. mode[c] = "collect"
    BY <2>1 DEF Collecting
  <2>3. RunsOf(s, live) = {}
    <3> SUFFICES ASSUME NEW d \in RunsOf(s, live) PROVE FALSE
      OBVIOUS
    <3>1. d \in Live /\ d \in Ids /\ session[d] = s
      BY DEF RunsOf, Live
    <3>2. lanes[s].active = d /\ d # NoCommand
      BY <3>1, ClientAssumption DEF LiveIsActive
    <3> QED BY <1>1, <3>2
  <2>4. Active(s) = {}
    BY <2>3 DEF Active, CarriedBy
  <2>5. RunsOf(s, live)' = {c}
    <3>1. c \in RunsOf(s, live)'
      BY <1>1, <1>2, <2>1 DEF RunsOf
    <3>2. ASSUME NEW d \in RunsOf(s, live)' PROVE d = c
      <4>1. d \in Ids /\ session[d] = s /\ thread'[d] \in live
        BY <1>2 DEF RunsOf
      <4>2. d \in Started(D)
        BY <1>6, <2>3, <4>1 DEF RunsOf
      <4> QED BY <1>5, <2>0, <4>1, <4>2
    <3> QED BY <3>1, <3>2
  <2>6. Active(s)' = Carried(c)'
    BY <2>5 DEF Active, CarriedBy
  <2>7. Carried(c)' = text[c] \cup UNION {text[d] : d \in Pending(s) \ {c}}
    <3>1. collected'[c] = UNION {text[d] : d \in Pending(s) \ {c}}
      BY <1>1, <2>1, <2>2
    <3> QED BY <1>2, <3>1 DEF Carried
  <2>8. text[c] \cup UNION {text[d] : d \in Pending(s) \ {c}} = Waiting(s)
    BY <2>1 DEF Waiting
  <2>9. c \in text[c]
    BY <2>1 DEF Delivery
  <2>10. Waiting(s)' = {}
    <3>1. lanes'[s].pending = <<>>
      BY <1>4, <2>0, <2>2 DEF Activate, Drains, Lane
    <3> QED BY <3>1, EmptyIncreasing DEF Waiting, Pending
  <2> QED BY <2>4, <2>6, <2>7, <2>8, <2>9, <2>10
<1>8. ASSUME NEW s \in Session \ D
      PROVE  Active(s)' = Active(s) /\ Waiting(s)' = Waiting(s)
  <2>1. Pending(s)' = Pending(s)
    <3>1. lanes'[s].pending = lanes[s].pending
      BY <1>1, AbsentLaneOK DEF IsIdle
    <3> QED BY <3>1 DEF Pending
  <2>2. RunsOf(s, live)' = RunsOf(s, live)
    <3>1. \A c \in Ids : session[c] = s => c \notin Started(D)
      BY <1>5
    <3> QED BY <1>2, <1>6, <3>1 DEF RunsOf
  <2>3. \A c \in RunsOf(s, live) : Carried(c)' = Carried(c)
    BY <1>5, <1>6 DEF RunsOf
  <2> QED BY <1>2, <2>1, <2>2, <2>3, CarriedAgrees DEF Waiting, Active
<1>9. \A s \in Session : Handled(s)' = Handled(s)
  <2> TAKE s \in Session
  <2>1. RunsOf(s, {"done"})' = RunsOf(s, {"done"})
    <3>1. \A c \in Ids : thread'[c] = "done" <=> thread[c] = "done"
      BY <1>1, <1>5
    <3> QED BY <1>2, <3>1 DEF RunsOf
  <2>2. \A c \in RunsOf(s, {"done"}) : Carried(c)' = Carried(c)
    BY <1>5, <1>6 DEF RunsOf
  <2> QED BY <2>1, <2>2, CarriedAgrees DEF Handled
<1>10. handledNow' = handledNow
  BY <1>9 DEF handledNow
<1> QED BY <1>2, <1>7, <1>8, <1>10

(* The end of a run is End: its batch, the only one of its session, is     *)
(* handled.                                                                *)
LEMMA CompleteEnds ==
  ASSUME MailboxInv, NEW c \in Ids, CompleteCommand(c)
  PROVE  /\ session[c] \in Session /\ Active(session[c]) # {}
         /\ activeNow' = [activeNow EXCEPT ![session[c]] = {}]
         /\ handledNow' = [handledNow EXCEPT ![session[c]] = @ \cup Active(session[c])]
         /\ waitingNow' = waitingNow /\ nextId' = nextId /\ short' = short
<1> USE DEF MailboxInv
<1> DEFINE live == {"todo", "running", "answered"}
<1>0. PICK s \in Session : s = session[c]
  BY DEF Owned, Typed, TypeOK
<1>1. /\ UNCHANGED <<session, text, collected, nextId, short>>
      /\ thread[c] = "answered" /\ thread' = [thread EXCEPT ![c] = "done"]
      /\ thread \in [Ids -> Phase]
  BY DEF CompleteCommand, commandVars, Owned, Typed, TypeOK
<1>2. \A d : Carried(d)' = Carried(d)
  BY <1>1 DEF Carried
<1>3. \A t \in Session : lanes'[t].pending = lanes[t].pending
  <2>1. lanes' = [lanes EXCEPT ![s] =
                   IF lanes[s].exists THEN CompleteActive(lanes[s]) ELSE lanes[s]]
    BY <1>0 DEF CompleteCommand
  <2>2. lanes \in [Session -> Lane]
    BY DEF Owned, Typed, TypeOK
  <2> QED BY <1>1, <2>1, <2>2 DEF CompleteActive, Lane
<1>4. \A t \in Session : Waiting(t)' = Waiting(t)
  BY <1>1, <1>3 DEF Waiting, Pending
<1>5. \A d \in Ids : session[d] = s /\ thread[d] \in live => d = c
  <2>1. lanes[s].active = c
    BY <1>0, <1>1 DEF LiveIsActive, Live
  <2> QED BY <2>1 DEF LiveIsActive, Live
<1>6. RunsOf(s, live) = {c} /\ RunsOf(s, live)' = {}
      /\ RunsOf(s, {"done"})' = RunsOf(s, {"done"}) \cup {c}
  <2>1. \A d \in Ids : thread'[d] = IF d = c THEN "done" ELSE thread[d]
    BY <1>1
  <2>2. session[c] = s /\ session' = session
    BY <1>0, <1>1
  <2>3. RunsOf(s, live) = {c}
    BY <1>1, <1>5, <2>2 DEF RunsOf
  <2>4. RunsOf(s, live)' = {d \in Ids : session[d] = s /\ thread'[d] \in live}
    BY <2>2 DEF RunsOf
  <2>5. RunsOf(s, live)' = {}
    BY <1>5, <2>1, <2>4
  <2>6. RunsOf(s, {"done"})' = {d \in Ids : session[d] = s /\ thread'[d] \in {"done"}}
    BY <2>2 DEF RunsOf
  <2> QED BY <2>1, <2>2, <2>3, <2>5, <2>6 DEF RunsOf
<1>7. Active(s) = Carried(c) /\ Active(s)' = {} /\ Handled(s)' = Handled(s) \cup Carried(c)
  <2>1. Active(s) = Carried(c)
    BY <1>6 DEF Active, CarriedBy
  <2>2. Active(s)' = {}
    BY <1>6 DEF Active, CarriedBy
  <2>3. Handled(s)' = UNION {Carried(d) : d \in RunsOf(s, {"done"}) \cup {c}}
    BY <1>2, <1>6 DEF Handled, CarriedBy
  <2>4. UNION {Carried(d) : d \in RunsOf(s, {"done"}) \cup {c}}
          = (UNION {Carried(d) : d \in RunsOf(s, {"done"})}) \cup Carried(c)
    OBVIOUS
  <2> QED BY <2>1, <2>2, <2>3, <2>4 DEF Handled, CarriedBy
<1>8. Carried(c) # {}
  <2>1. c < nextId
    BY <1>1 DEF Owned, Issued
  <2> QED BY <2>1 DEF Delivery, Carried
<1>9. ASSUME NEW t \in Session \ {s}
      PROVE  Active(t)' = Active(t) /\ Handled(t)' = Handled(t)
  <2>1. \A d \in Ids : session[d] = t => thread'[d] = thread[d]
    BY <1>0, <1>1
  <2>2. RunsOf(t, live)' = RunsOf(t, live) /\ RunsOf(t, {"done"})' = RunsOf(t, {"done"})
    BY <1>1, <2>1 DEF RunsOf
  <2> QED BY <1>2, <2>2, CarriedAgrees DEF Active, Handled
<1>10. activeNow' = [activeNow EXCEPT ![s] = {}]
  BY <1>7, <1>9 DEF activeNow
<1>11. handledNow' = [handledNow EXCEPT ![s] = @ \cup Active(s)]
  BY <1>7, <1>9 DEF handledNow
<1>12. waitingNow' = waitingNow
  BY <1>4 DEF waitingNow
<1> QED BY <1>0, <1>1, <1>7, <1>8, <1>10, <1>11, <1>12

-----------------------------------------------------------------------------
(* The refinement *)

(* The variables of the mailbox under the refinement mapping.              *)
LEMMA MappingIs ==
  /\ waitingNow = [s \in Session |-> UNION {text[c] : c \in Pending(s)}]
  /\ activeNow = [s \in Session |-> CarriedBy(RunsOf(s, {"todo", "running", "answered"}))]
  /\ handledNow = [s \in Session |-> CarriedBy(RunsOf(s, {"done"}))]
BY DEF waitingNow, activeNow, handledNow, Waiting, Active, Handled

(* The constructor makes an empty mailbox.                                 *)
LEMMA MailboxStarts == Init => Queue!Init
<1> SUFFICES ASSUME Init PROVE Queue!Init
  OBVIOUS
<1>1. \A s \in Session : Pending(s) = {}
  BY AbsentLaneOK DEF Pending, Init
<1>2. \A s \in Session : /\ RunsOf(s, {"todo", "running", "answered"}) = {}
                         /\ RunsOf(s, {"done"}) = {}
  BY DEF Init, RunsOf
<1>3. \A s \in Session : Waiting(s) = {} /\ Active(s) = {} /\ Handled(s) = {}
  BY <1>1, <1>2 DEF Waiting, Active, Handled, CarriedBy
<1> QED BY <1>3 DEF Init, Queue!Init, Queue!Empty, Waiting, Active, Handled

(* The mailbox counts as the queue does.                                   *)
LEMMA SameCardinality == \A S : Queue!Cardinality(S) = Cardinality(S)
BY DEF Queue!Cardinality, Cardinality

(* Every step of the queue is a step of the mailbox or none.               *)
LEMMA MailboxSteps ==
  ASSUME CollectsOnly, MailboxInv, [Next]_vars
  PROVE  [Queue!Next]_(Queue!mailVars)
<1> USE DEF MailboxInv
<1>1. CASE \E s \in Session, m \in SubmitModes : Submit(s, m)
  <2>1. PICK s \in Session, m \in SubmitModes : Submit(s, m)
    BY <1>1
  <2>2. /\ nextId <= MaxCommands /\ nextId' = nextId + 1
        /\ waitingNow' = [waitingNow EXCEPT ![s] = @ \cup {nextId}]
        /\ activeNow' = activeNow /\ handledNow' = handledNow
    BY <2>1, SubmitSends
  <2>3. \E cut \in SUBSET (Waiting(s) \cup {nextId}) :
           /\ short' = short \cup cut
           /\ cut # {} => Cardinality(Waiting(s) \cup {nextId}) > Room
           /\ nextId \in cut => Room < 2
           /\ \A k \in cut, n \in (Waiting(s) \cup {nextId}) \ cut : k < n
    BY <2>1, SubmitCuts
  <2> DEFINE W == [t \in Session |-> UNION {text[c] : c \in Pending(t)}]
  <2>4. W[s] = Waiting(s) /\ W = waitingNow /\ W' = waitingNow'
    BY DEF Waiting, waitingNow
  <2>5. Queue!Send(s)
    <3>1. W' = [W EXCEPT ![s] = W[s] \cup {nextId}]
      <4> HIDE DEF W
      <4> QED BY <2>2, <2>4
    <3>2. \E cut \in SUBSET (W[s] \cup {nextId}) :
             /\ short' = short \cup cut
             /\ cut # {} => Queue!Cardinality(W[s] \cup {nextId}) > Room
             /\ nextId \in cut => Room < 2
             /\ \A k \in cut, n \in (W[s] \cup {nextId}) \ cut : k < n
      <4> HIDE DEF W
      <4> QED BY <2>3, <2>4, SameCardinality
    <3>3. UNCHANGED <<[t \in Session |-> CarriedBy(RunsOf(t, {"todo", "running", "answered"}))],
                      [t \in Session |-> CarriedBy(RunsOf(t, {"done"}))]>>
      BY <2>2 DEF activeNow, handledNow, Active, Handled
    <3> QED BY <2>2, <3>1, <3>2, <3>3 DEF Queue!Send
  <2> QED BY <2>5 DEF Queue!Next
<1>2. CASE DispatcherScan
  <2>1. /\ \E D \in SUBSET Session :
              /\ \A s \in D : /\ Active(s) = {} /\ Active(s)' # {}
                              /\ Active(s)' = Waiting(s) /\ Waiting(s)' = {}
              /\ \A s \in Session \ D : Active(s)' = Active(s) /\ Waiting(s)' = Waiting(s)
        /\ handledNow' = handledNow /\ nextId' = nextId /\ short' = short
    BY <1>2, ScanBegins
  <2>2. PICK D \in SUBSET Session :
              /\ \A s \in D : /\ Active(s) = {} /\ Active(s)' # {}
                              /\ Active(s)' = Waiting(s) /\ Waiting(s)' = {}
              /\ \A s \in Session \ D : Active(s)' = Active(s) /\ Waiting(s)' = Waiting(s)
    BY <2>1
  <2>3. Queue!Begin(D)
    BY <2>1, <2>2 DEF Queue!Begin, handledNow, Waiting, Active, Handled
  <2> QED BY <2>3 DEF Queue!Next
<1>3. CASE \E c \in Ids : CompleteCommand(c)
  <2>1. PICK c \in Ids : CompleteCommand(c)
    BY <1>3
  <2>2. /\ session[c] \in Session /\ Active(session[c]) # {}
        /\ activeNow' = [activeNow EXCEPT ![session[c]] = {}]
        /\ handledNow' = [handledNow EXCEPT ![session[c]] = @ \cup Active(session[c])]
        /\ waitingNow' = waitingNow /\ nextId' = nextId /\ short' = short
    BY <2>1, CompleteEnds
  <2>3. Queue!End(session[c])
    BY <2>2 DEF Queue!End, waitingNow, activeNow, handledNow, Waiting, Active, Handled
  <2> QED BY <2>2, <2>3 DEF Queue!Next
<1>4. ASSUME NEW s \in Session, NEW o \in Overrides, ConfigureSession(s, o)
      PROVE  /\ UNCHANGED <<session, text, collected, nextId, short, thread>>
             /\ \A t \in Session : Pending(t)' = Pending(t)
  <2> DEFINE l == get_lane(s)
  <2>1. l \in Lane /\ l.pending = lanes[s].pending /\ lanes \in [Session -> Lane]
    BY GetLaneOK DEF LaneOK, Owned, Typed, TypeOK
  <2>2. lanes' = [lanes EXCEPT ![s] =
           [l EXCEPT !.mode = o.mode,
                     !.debounce = IF o.debounce >= 0 THEN o.debounce ELSE @,
                     !.cap = IF o.cap >= 0 THEN o.cap ELSE @,
                     !.drop = IF o.drop # "" THEN o.drop ELSE @]]
    BY <1>4 DEF ConfigureSession
  <2> HIDE DEF l
  <2>3. \A t \in Session : lanes'[t].pending = lanes[t].pending
    BY <2>1, <2>2 DEF Lane
  <2> QED BY <1>4, <2>3 DEF ConfigureSession, threadVars, commandVars, Pending
<1>5. ASSUME NEW c \in Ids, SpawnWorker(c) \/ ExecutorReturns(c)
      PROVE  /\ UNCHANGED <<session, text, collected, nextId, short>>
             /\ \A t \in Session : Pending(t)' = Pending(t)
             /\ \A d \in Ids : /\ thread'[d] = "done" <=> thread[d] = "done"
                               /\ thread'[d] = "none" <=> thread[d] = "none"
  <2>1. /\ UNCHANGED <<session, text, collected, nextId, short, lanes>>
        /\ thread[c] \in {"todo", "running"}
        /\ \E p \in {"running", "answered"} : thread' = [thread EXCEPT ![c] = p]
    BY <1>5 DEF SpawnWorker, ExecutorReturns, queueVars, commandVars
  <2> QED BY <2>1 DEF Pending, Owned, Typed, TypeOK
<1>6. CASE \/ \E cfg \in Configs : SetConfig(cfg)
           \/ \E s \in Session : DebounceElapses(s)
           \/ DispatcherExit \/ Start \/ StopBegin \/ StopSwapWorkers \/ StopReturn
           \/ UNCHANGED vars
  <2>1. UNCHANGED <<session, text, collected, nextId, short, thread, lanes>>
    BY <1>6 DEF SetConfig, DebounceElapses, DispatcherExit, Start, StopBegin,
                StopSwapWorkers, StopReturn, queueVars, threadVars, commandVars, vars
  <2>2. UNCHANGED <<nextId, waitingNow, activeNow, handledNow, short>>
    BY <2>1 DEF waitingNow, activeNow, handledNow, Waiting, Active, Handled, Pending,
                CarriedBy, RunsOf, Carried
  <2> QED BY <2>2, MappingIs DEF Queue!mailVars, waitingNow, activeNow, handledNow,
                                 Waiting, Active, Handled
<1>7. CASE \/ \E s \in Session, o \in Overrides : ConfigureSession(s, o)
           \/ \E c \in Ids : SpawnWorker(c) \/ ExecutorReturns(c)
  <2>1. /\ UNCHANGED <<session, text, collected, nextId, short>>
        /\ \A t \in Session : Pending(t)' = Pending(t)
        /\ \A d \in Ids : /\ thread'[d] = "done" <=> thread[d] = "done"
                          /\ thread'[d] = "none" <=> thread[d] = "none"
    BY <1>4, <1>5, <1>7
  <2>2. thread' \in [Ids -> Phase]
    BY TypedStep DEF Owned, Typed, TypeOK
  <2>3. UNCHANGED <<nextId, waitingNow, activeNow, handledNow, short>>
    BY <2>1, <2>2, OthersStutter
  <2> QED BY <2>3 DEF Queue!mailVars, waitingNow, activeNow, handledNow,
                      Waiting, Active, Handled
<1> QED BY <1>1, <1>2, <1>3, <1>6, <1>7
        DEF Next, ClientNext, WorkerNext, CollectsOnly

(* In collect mode the command queue implements Mailbox: of every message  *)
(* of a session something reaches the agent, in order, nothing twice, one  *)
(* batch at a time, for any sessions, limits and number of commands, and   *)
(* under summaries, restarts and changes of the limits; messages are cut   *)
(* to their beginnings only when more than Room of them wait, the oldest   *)
(* first.                                                                  *)
THEOREM MailboxImplemented ==
  ASSUME CollectsOnly
  PROVE  Spec => ImplementsMailbox
<1>1. Init => LiveIsActive /\ Collecting /\ InOrder
  <2>1. Init => InOrder
    BY AbsentLaneOK DEF Init, InOrder, Pending
  <2> QED BY <2>1, CollectIsCalm, LiveIsActiveInit, CollectingInit
<1>2. Owned /\ Delivery /\ LiveIsActive /\ Collecting /\ InOrder /\ [Next]_vars
        => LiveIsActive' /\ Collecting' /\ InOrder'
  BY CollectIsCalm, LiveIsActiveStep, CollectingStep, InOrderStep DEF MailboxInv
<1>3. Owned /\ Delivery /\ LiveIsActive /\ Collecting /\ InOrder /\ [Next]_vars
        => [Queue!Next]_(Queue!mailVars)
  BY MailboxSteps DEF MailboxInv
<1> QED
  BY <1>1, <1>2, <1>3, MailboxStarts, OwnedInvariant, DeliveryInvariant, PTL
  DEF Spec, ImplementsMailbox, Queue!Spec

=============================================================================
