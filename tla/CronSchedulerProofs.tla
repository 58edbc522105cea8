------------------------- MODULE CronSchedulerProofs -------------------------
(***************************************************************************)
(* Proofs about the cron scheduler: cron.json follows the jobs, a removed   *)
(* job stays removed, whatever edits and crashes come in between, and no    *)
(* job runs twice for one due time as long as no edit moves what the loop   *)
(* points to.  TLC's run cron_calm checks the same on a small instance.     *)
(***************************************************************************)
EXTENDS CronScheduler, FiniteSetTheorems, SequenceTheorems, WellFoundedInduction, TLAPS

(***************************************************************************)
(* Numbers, and the order in which the loop visits the due jobs.           *)
(***************************************************************************)

\* A set of natural numbers that is not empty has a least member.
LEMMA LeastNatural ==
  ASSUME NEW S, S \subseteq Nat, S # {}
  PROVE  \E m \in S : \A n \in S : m <= n
<1>1. PICK m \in S : \A n \in S : ~ (<<n, m>> \in OpToRel(<, Nat))
  BY WFMin, NatLessThanWellFounded
<1>2. \A n \in S : ~ (n < m)
  BY <1>1 DEF OpToRel
<1> QED
  BY <1>2

\* A set of slots that is not empty has a last one.
LEMMA GreatestSlot ==
  ASSUME NEW M \in Nat, NEW S, S \subseteq 1 .. M, S # {}
  PROVE  \E m \in S : \A n \in S : n <= m
<1> DEFINE T == {M - n : n \in S}
<1>1. T \subseteq Nat /\ T # {}
  <2>1. \A n \in S : M - n \in Nat
    OBVIOUS
  <2> QED
    BY <2>1
<1>2. PICK t \in T : \A u \in T : t <= u
  BY <1>1, LeastNatural
<1>3. PICK m \in S : t = M - m
  OBVIOUS
<1>4. ASSUME NEW n \in S
      PROVE  n <= m
  <2>1. t <= M - n
    BY <1>2
  <2> QED
    BY <1>3, <2>1
<1> QED
  BY <1>4

\* The next run lies after the time from which it is sought.
LEMMA NextAfterIsLater ==
  ASSUME NEW s \in Schedule \cup {EveryMinute}, NEW t \in Nat
  PROVE  NextAfter(s, t) \in Nat /\ t < NextAfter(s, t)
<1> DEFINE ahead == {m \in Minutes[s] : m > t}
<1>1. Minutes[s] \subseteq Nat
  BY TimeAssumption
<1>2. CASE ahead = {}
  BY <1>2 DEF NextAfter
<1>3. CASE ahead # {}
  <2>1. \E m \in ahead : \A n \in ahead : m <= n
    BY <1>1, <1>3, LeastNatural
  <2>2. NextAfter(s, t) = CHOOSE m \in ahead : \A n \in ahead : m <= n
    BY <1>3 DEF NextAfter
  <2>3. NextAfter(s, t) \in ahead
    BY <2>1, <2>2
  <2> QED
    BY <1>1, <2>3
<1> QED
  BY <1>2, <1>3

\* q lists the slots S in the order of the buffer.
Lists(q, S) ==
  /\ q \in [1 .. Cardinality(S) -> S]
  /\ \A i, j \in DOMAIN q : i < j => q[i] < q[j]

\* Every set of slots can be listed: the last one comes after a list of the
\* others.
LEMMA SlotsCanBeListed ==
  ASSUME NEW M \in Nat
  PROVE  \A S \in SUBSET (1 .. M) : \E q : Lists(q, S)
<1> DEFINE Bad == {S \in SUBSET (1 .. M) : ~ \E q : Lists(q, S)}
           Sizes == {Cardinality(S) : S \in Bad}
<1>1. \A S \in SUBSET (1 .. M) : IsFiniteSet(S) /\ Cardinality(S) \in Nat
  <2>1. IsFiniteSet(1 .. M)
    BY FS_Interval
  <2> QED
    BY <2>1, FS_Subset, FS_CardinalityType
<1> SUFFICES ASSUME Bad # {} PROVE FALSE
  OBVIOUS
<1>2. Sizes \subseteq Nat /\ Sizes # {}
  BY <1>1
<1>3. PICK n \in Sizes : \A k \in Sizes : n <= k
  BY <1>2, LeastNatural
<1>4. PICK S \in Bad : Cardinality(S) = n
  OBVIOUS
<1>5. CASE S = {}
  <2>1. Cardinality(S) = 0
    BY <1>5, FS_EmptySet
  <2>2. [i \in 1 .. 0 |-> 0] \in [1 .. Cardinality(S) -> S]
    BY <1>5, <2>1
  <2>3. Lists([i \in 1 .. 0 |-> 0], S)
    BY <2>2 DEF Lists
  <2> QED
    BY <1>4, <2>3
<1>6. CASE S # {}
  <2>1. PICK m \in S : \A k \in S : k <= m
    BY <1>6, GreatestSlot
  <2> DEFINE R == S \ {m}
  <2>2. R \in SUBSET (1 .. M) /\ IsFiniteSet(S)
    BY <1>1
  <2>3. Cardinality(R) = n - 1 /\ n \in Nat /\ Cardinality(R) \in Nat
    BY <1>1, <1>4, <2>1, <2>2, FS_RemoveElement
  <2>4. R \notin Bad
    <3>1. ~ (n <= Cardinality(R))
      BY <2>3
    <3> QED
      BY <1>3, <3>1
  <2>5. PICK q : Lists(q, R)
    BY <2>2, <2>4
  <2> DEFINE p == [i \in 1 .. n |-> IF i = n THEN m ELSE q[i]]
  <2>6. q \in [1 .. n - 1 -> R] /\ \A i, j \in 1 .. n - 1 : i < j => q[i] < q[j]
    BY <2>3, <2>5 DEF Lists
  <2> HIDE DEF R
  <2>7. \A i \in 1 .. n - 1 : q[i] \in S /\ q[i] # m
    BY <2>6 DEF R
  <2>8. \A i \in 1 .. n : i = n \/ i \in 1 .. n - 1
    BY <2>3
  <2>9. p \in [1 .. n -> S]
    BY <2>1, <2>7, <2>8
  <2>10. ASSUME NEW i \in 1 .. n, NEW j \in 1 .. n, i < j
         PROVE  p[i] < p[j]
    <3>1. i \in 1 .. n - 1 /\ p[i] = q[i]
      BY <2>3, <2>10
    <3>2. CASE j = n
      <4>1. q[i] <= m /\ q[i] # m /\ q[i] \in Int /\ m \in Int
        <5>1. q[i] \in S /\ q[i] # m
          BY <2>7, <3>1
        <5>2. S \subseteq Int
          <6>1. S \subseteq 1 .. M
            BY <1>4
          <6> QED
            BY <6>1
        <5> QED
          BY <2>1, <5>1, <5>2
      <4> QED
        BY <3>1, <3>2, <4>1
    <3>3. CASE j \in 1 .. n - 1
      <4>1. p[j] = q[j]
        BY <2>3, <3>3
      <4> QED
        BY <2>6, <2>10, <3>1, <3>3, <4>1
    <3> QED
      BY <2>8, <3>2, <3>3
  <2>11. Lists(p, S)
    <3>1. DOMAIN p = 1 .. n
      OBVIOUS
    <3> HIDE DEF p
    <3> QED
      BY <1>4, <2>9, <2>10, <3>1 DEF Lists
  <2> QED
    BY <1>4, <2>11
<1> QED
  BY <1>5, <1>6

\* The pointers the loop collects: one to each due job, none twice.
LEMMA SlotSeqIsList ==
  ASSUME NEW M \in Nat, NEW S, S \subseteq 1 .. M
  PROVE  /\ SlotSeq(S) \in Seq(S) /\ Len(SlotSeq(S)) = Cardinality(S)
         /\ SlotSeq(S) = <<>> <=> S = {}
         /\ \A i, j \in DOMAIN SlotSeq(S) : SlotSeq(S)[i] = SlotSeq(S)[j] => i = j
         /\ \A s \in S : \E k \in DOMAIN SlotSeq(S) : SlotSeq(S)[k] = s
<1> DEFINE q == SlotSeq(S)
<1>1. IsFiniteSet(S) /\ Cardinality(S) \in Nat /\ (Cardinality(S) = 0 <=> S = {})
  <2>1. IsFiniteSet(1 .. M)
    BY FS_Interval
  <2>2. IsFiniteSet(S)
    BY <2>1, FS_Subset
  <2> QED
    BY <2>2, FS_CardinalityType, FS_EmptySet
<1>2. \E p : Lists(p, S)
  BY SlotsCanBeListed
<1>3. /\ q \in [1 .. Cardinality(S) -> S]
      /\ \A i, j \in DOMAIN q : i < j => q[i] < q[j]
  BY <1>2 DEF SlotSeq, Lists
<1> HIDE DEF q
<1>4. q \in Seq(S) /\ Len(q) = Cardinality(S)
  <2>1. q \in Seq(S)
    BY <1>1, <1>3, SeqDef
  <2>2. DOMAIN q = 1 .. Len(q) /\ Len(q) \in Nat /\ DOMAIN q = 1 .. Cardinality(S)
    BY <1>3, <2>1, LenProperties
  <2> QED
    BY <1>1, <2>1, <2>2
<1>5. q = <<>> <=> S = {}
  BY <1>1, <1>4, EmptySeq
<1>6. ASSUME NEW i \in DOMAIN q, NEW j \in DOMAIN q, q[i] = q[j]
      PROVE  i = j
  <2>1. DOMAIN q \subseteq Int /\ q[i] \in Int /\ q[j] \in Int
    <3>1. DOMAIN q = 1 .. Cardinality(S) /\ q[i] \in S /\ q[j] \in S
      BY <1>3
    <3>2. S \subseteq Int /\ 1 .. Cardinality(S) \subseteq Int
      OBVIOUS
    <3> QED
      BY <3>1, <3>2
  <2> QED
    BY <1>3, <1>6, <2>1
<1>7. \A s \in S : \E k \in DOMAIN q : q[k] = s
  <2>1. q \in Injection(1 .. Cardinality(S), S)
    BY <1>3, <1>6 DEF Injection, IsInjective
  <2>2. Cardinality(1 .. Cardinality(S)) = Cardinality(S)
    BY <1>1, FS_Interval
  <2>3. q \in Surjection(1 .. Cardinality(S), S)
    BY <1>1, <2>1, <2>2, FS_Injection
  <2> QED
    BY <1>3, <2>3 DEF Surjection
<1> QED
  BY <1>4, <1>5, <1>6, <1>7 DEF q

(***************************************************************************)
(* The buffer of jobs_ and the file.                                       *)
(***************************************************************************)

\* The first n slots of the buffer m are jobs, no two with one id.
Live(m, n) ==
  /\ \A i \in 1 .. n : m[i].id \in Id /\ m[i].schedule \in Schedule
  /\ \A i, j \in 1 .. n : m[i].id = m[j].id => i = j

SlotIds(m, n)  == {m[i].id : i \in 1 .. n}
SlotJson(m, n) == [i \in 1 .. n |-> ToJson(m[i])]

\* A buffer of which the first n slots are used.
Buffer(m, n) == m \in Seq(Job) /\ n \in 0 .. Len(m)

\* The slots of the buffer are numbers, and all of them exist when there is one
\* (std::vector::size and operator[]).
LEMMA BufferSlots ==
  ASSUME NEW m, NEW n, Buffer(m, n)
  PROVE  /\ Len(m) \in Nat /\ n \in Nat /\ DOMAIN m = 1 .. Len(m)
         /\ 1 .. n \subseteq DOMAIN m /\ \A i \in 1 .. Len(m) : m[i] \in Job
BY LenProperties, ElementOfSeq DEF Buffer

\* The jobs, their ids and their JSON, slot by slot.
LEMMA JobsBySlot ==
  ASSUME NEW m, NEW n, Buffer(m, n)
  PROVE  /\ Json(SubSeq(m, 1, n)) = SlotJson(m, n)
         /\ IdsOf(SubSeq(m, 1, n)) = SlotIds(m, n)
<1>1. m \in Seq(Job) /\ Len(m) \in Nat /\ n \in 0 .. Len(m)
  BY BufferSlots DEF Buffer
<1>2. /\ Len(SubSeq(m, 1, n)) = n
      /\ \A i \in 1 .. n : SubSeq(m, 1, n)[i] = m[i]
  <2>1. /\ 1 \in 1 .. Len(m) + 1 /\ n \in 1 - 1 .. Len(m)
    BY <1>1
  <2>2. /\ Len(SubSeq(m, 1, n)) = n - 1 + 1
        /\ \A i \in 1 .. n - 1 + 1 : SubSeq(m, 1, n)[i] = m[1 + i - 1]
    BY <1>1, <2>1, SubSeqProperties
  <2>3. n - 1 + 1 = n /\ \A i \in 1 .. n : 1 + i - 1 = i
    BY <1>1
  <2> QED
    BY <2>2, <2>3
<1> QED
  BY <1>2 DEF Json, SlotJson, IdsOf, SlotIds

\* What a save of the first n slots leaves in a file that is read back.
LEMMA JsonOfSlots ==
  ASSUME NEW m, NEW n, Buffer(m, n), Live(m, n)
  PROVE  /\ SlotJson(m, n) \in Seq(Entry) /\ Len(SlotJson(m, n)) = n
         /\ IdsOf(SlotJson(m, n)) = SlotIds(m, n)
         /\ \A i, j \in DOMAIN SlotJson(m, n) :
              SlotJson(m, n)[i].id = SlotJson(m, n)[j].id => i = j
<1> DEFINE f == SlotJson(m, n)
<1>1. n \in Nat /\ \A i \in 1 .. n : m[i] \in Job
  <2>1. n \in Nat /\ 1 .. n \subseteq 1 .. Len(m)
    BY BufferSlots
  <2> QED
    BY <2>1, BufferSlots
<1>2. \A i \in 1 .. n : f[i] \in Entry /\ f[i].id = m[i].id
  BY <1>1 DEF Live, SlotJson, ToJson, Entry, Job
<1>3. DOMAIN f = 1 .. n /\ f = [i \in 1 .. n |-> f[i]]
  BY DEF SlotJson
<1> HIDE DEF f
<1>4. f \in Seq(Entry)
  BY <1>1, <1>2, <1>3, SeqDef
<1>5. Len(f) = n
  BY <1>1, <1>3, <1>4, LenProperties
<1>6. IdsOf(f) = SlotIds(m, n)
  BY <1>2, <1>5 DEF IdsOf, SlotIds
<1>7. \A i, j \in DOMAIN f : f[i].id = f[j].id => i = j
  BY <1>2, <1>3 DEF Live
<1> QED
  BY <1>4, <1>5, <1>6, <1>7 DEF f

\* push_back keeps the slots before the new one.
LEMMA PushBackLaws ==
  ASSUME Buffer(mem, size), NEW j \in Job
  PROVE  /\ Buffer(PushBack(j), size + 1) /\ Len(mem) <= Len(PushBack(j))
         /\ \A i \in 1 .. size : PushBack(j)[i] = mem[i]
         /\ PushBack(j)[size + 1] = j
<1>1. mem \in Seq(Job) /\ Len(mem) \in Nat /\ size \in 0 .. Len(mem) /\ DOMAIN mem = 1 .. Len(mem)
      /\ \A i \in 1 .. Len(mem) : mem[i] \in Job
  BY BufferSlots DEF Buffer
<1>2. CASE size < Len(mem)
  <2>1. size + 1 \in 1 .. Len(mem) /\ PushBack(j) = [mem EXCEPT ![size + 1] = j]
    BY <1>1, <1>2 DEF PushBack
  <2>2. PushBack(j) \in Seq(Job) /\ Len(PushBack(j)) = Len(mem)
    BY <1>1, <2>1, ExceptSeq
  <2> QED
    BY <1>1, <2>1, <2>2 DEF Buffer
<1>3. CASE ~ (size < Len(mem))
  <2> DEFINE spare == [i \in 1 .. size - 1 |-> MovedFrom]
             front == Append(jobs, j)
  <2>1. size = Len(mem)
    <3>1. size \in Nat /\ Len(mem) \in Nat /\ size <= Len(mem)
      BY <1>1
    <3>2. \A a, b \in Nat : a <= b /\ ~ (a < b) => a = b
      OBVIOUS
    <3> QED
      BY <1>3, <3>1, <3>2
  <2>2. MovedFrom \in Job
    BY DEF MovedFrom, Job, Never
  <2>3. spare \in Seq(Job) /\ Len(spare) \in Nat
    <3>1. CASE size = 0
      <4>1. 1 .. size - 1 = 1 .. 0
        BY <3>1
      <4>2. spare \in [1 .. 0 -> Job]
        BY <4>1, <2>2
      <4> HIDE DEF spare
      <4>3. spare \in Seq(Job)
        <5>1. 0 \in Nat
          OBVIOUS
        <5> QED
          BY <4>2, <5>1, SeqDef
      <4> QED
        BY <4>3, LenProperties
    <3>2. CASE size # 0
      <4>1. size - 1 \in Nat
        BY <1>1, <3>2
      <4>2. spare \in [1 .. size - 1 -> Job]
        BY <2>2
      <4>3. spare \in Seq(Job)
        BY <4>1, <4>2, SeqDef
      <4> QED
        BY <4>3, LenProperties
    <3> QED
      BY <3>1, <3>2
  <2>4. jobs = mem
    <3>1. /\ Len(SubSeq(mem, 1, size)) = size /\ SubSeq(mem, 1, size) \in Seq(Job)
          /\ \A i \in 1 .. size : SubSeq(mem, 1, size)[i] = mem[i]
      <4>1. 1 \in 1 .. Len(mem) + 1 /\ size \in 1 - 1 .. Len(mem)
        BY <1>1
      <4>2. /\ SubSeq(mem, 1, size) \in Seq(Job)
            /\ Len(SubSeq(mem, 1, size)) = size - 1 + 1
            /\ \A i \in 1 .. size - 1 + 1 : SubSeq(mem, 1, size)[i] = mem[1 + i - 1]
        BY <1>1, <4>1, SubSeqProperties
      <4>3. size - 1 + 1 = size /\ \A i \in 1 .. size : 1 + i - 1 = i
        BY <1>1
      <4> QED
        BY <4>2, <4>3
    <3> QED
      BY <1>1, <2>1, <3>1, SeqEqual DEF jobs
  <2>5. /\ front \in Seq(Job) /\ Len(front) = size + 1 /\ front[size + 1] = j
        /\ \A i \in 1 .. size : front[i] = mem[i]
    BY <1>1, <2>1, <2>4, AppendProperties
  <2>6. PushBack(j) = front \o spare
    <3>1. jobs \o <<j>> = front
      BY <1>1, <2>4, AppendIsConcat
    <3> QED
      BY <1>3, <3>1 DEF PushBack
  <2> HIDE DEF front, spare
  <2>7. /\ PushBack(j) \in Seq(Job) /\ Len(PushBack(j)) = size + 1 + Len(spare)
        /\ \A i \in 1 .. size + 1 : PushBack(j)[i] = front[i]
    <3>1. /\ front \o spare \in Seq(Job) /\ Len(front \o spare) = Len(front) + Len(spare)
          /\ \A i \in 1 .. Len(front) + Len(spare) : (front \o spare)[i] =
                IF i <= Len(front) THEN front[i] ELSE spare[i - Len(front)]
      BY <2>3, <2>5, ConcatProperties
    <3>2. \A i \in 1 .. size + 1 : i \in 1 .. Len(front) + Len(spare) /\ i <= Len(front)
      BY <1>1, <2>3, <2>5
    <3> QED
      BY <2>5, <2>6, <3>1, <3>2
  <2> QED
    <3>1. /\ size + 1 \in 1 .. size + 1 /\ \A i \in 1 .. size : i \in 1 .. size + 1
          /\ size + 1 \in 0 .. Len(PushBack(j)) /\ Len(mem) <= Len(PushBack(j))
      BY <1>1, <2>1, <2>3, <2>7
    <3> QED
      BY <2>5, <2>7, <3>1 DEF Buffer
<1> QED
  BY <1>2, <1>3

\* erase moves the later jobs down and keeps the buffer.
LEMMA EraseLaws ==
  ASSUME Buffer(mem, size), NEW i \in 1 .. size
  PROVE  /\ Buffer(Erase(i), size - 1) /\ Len(Erase(i)) = Len(mem)
         /\ \A k \in 1 .. size - 1 : Erase(i)[k] = IF k < i THEN mem[k] ELSE mem[k + 1]
<1>1. mem \in Seq(Job) /\ Len(mem) \in Nat /\ size \in 0 .. Len(mem) /\ size - 1 \in 0 .. Len(mem)
      /\ \A k \in 1 .. Len(mem) : mem[k] \in Job
  BY BufferSlots DEF Buffer
<1>2. MovedFrom \in Job
  BY DEF MovedFrom, Job, Never
<1>3. /\ DOMAIN Erase(i) = 1 .. Len(mem)
      /\ \A k \in 1 .. Len(mem) : Erase(i)[k] =
            IF i <= k /\ k < size THEN mem[k + 1]
            ELSE IF k = size /\ i < size THEN MovedFrom ELSE mem[k]
      /\ Erase(i) = [k \in 1 .. Len(mem) |-> Erase(i)[k]]
  BY DEF Erase
<1> DEFINE e == Erase(i)
<1> HIDE DEF e
<1>4. \A k \in 1 .. Len(mem) : e[k] \in Job
  BY <1>1, <1>2, <1>3 DEF e
<1>5. e \in Seq(Job) /\ Len(e) = Len(mem)
  <2>1. e \in [1 .. Len(mem) -> Job]
    BY <1>3, <1>4 DEF e
  <2>2. e \in Seq(Job)
    BY <1>1, <2>1, SeqDef
  <2> QED
    BY <1>1, <2>1, <2>2, LenProperties
<1>6. \A k \in 1 .. size - 1 : e[k] = IF k < i THEN mem[k] ELSE mem[k + 1]
  BY <1>1, <1>3 DEF e
<1> QED
  BY <1>1, <1>5, <1>6 DEF e, Buffer

(***************************************************************************)
(* The inductive invariant.                                                *)
(***************************************************************************)

\* A file that gives back jobs with ids of the set ids, no id twice.
GoodFile(d, ids) ==
  \/ d \in {NoFile, Torn}
  \/ /\ d \in Seq(Entry) /\ IdsOf(d) \subseteq ids
     /\ \A i, j \in DOMAIN d : d[i].id = d[j].id => i = j

\* The jobs and the file know the ids that were handed out and not removed.
StoreInv ==
  /\ Buffer(mem, size) /\ Live(mem, size)
  /\ issued \subseteq Id /\ removed \subseteq issued
  /\ SlotIds(mem, size) \subseteq issued \ removed
  /\ GoodFile(disk, issued \ removed)

NoneSaves == \A c \in Client : client[c].op # "save"

\* The file follows the jobs while the process lives, and a dead process has
\* none.  A scheduler without a file has never been told of one.
LifeInv ==
  /\ stored \in BOOLEAN /\ alive \in BOOLEAN /\ running \in BOOLEAN
  /\ alive /\ ~stored => disk = NoFile
  /\ alive /\ stored /\ disk # Torn /\ NoneSaves => disk = SlotJson(mem, size)
  /\ ~alive => /\ mem = <<>> /\ size = 0 /\ ~stored /\ ~running /\ loop = "off"
               /\ \A c \in Client : client[c].op = "idle"

ClientInv ==
  /\ client = [c \in Client |-> client[c]]
  /\ \A c \in Client : /\ client[c].op \in {"idle", "save", "update"}
                       /\ client[c].op = "update" => client[c].schedule \in Schedule

\* The buffer into which the loop's pointers point.
Pointed == IF old = <<>> THEN mem ELSE old

\* Between the passes the loop holds no pointer.
PassInv ==
  /\ now \in Now /\ tick \in Now
  /\ loop \in {"off", "check", "run", "mark", "next", "save", "sleep"}
  /\ parsed \in Schedule \cup {EveryMinute}
  /\ old \in Seq(Job)
  /\ due \in Seq(1 .. Len(Pointed))
  /\ loop \in {"run", "mark", "next"} <=> due # <<>>

CronInv == StoreInv /\ LifeInv /\ ClientInv /\ PassInv

\* A save leaves a good file.
LEMMA SaveIsGood ==
  ASSUME NEW m, NEW n, NEW ids, Buffer(m, n), Live(m, n), SlotIds(m, n) \subseteq ids
  PROVE  GoodFile(SlotJson(m, n), ids)
BY JsonOfSlots DEF GoodFile

\* The jobs are changed and saved in one lock region.
LEMMA ChangeAndSave ==
  ASSUME CronInv, alive, UNCHANGED <<alive, stored, running, issued>>,
         Buffer(mem, size)', Live(mem, size)', removed' \subseteq issued,
         (SlotIds(mem, size) \subseteq issued \ removed)',
         disk' = IF stored THEN SlotJson(mem, size)' ELSE disk
  PROVE  StoreInv' /\ LifeInv'
<1>1. GoodFile(disk, issued \ removed)'
  <2>1. CASE stored
    BY <2>1, SaveIsGood
  <2>2. CASE ~stored
    BY <2>2 DEF CronInv, LifeInv, GoodFile
  <2> QED
    BY <2>1, <2>2
<1>2. StoreInv'
  BY <1>1 DEF CronInv, StoreInv
<1>3. LifeInv'
  BY DEF CronInv, LifeInv
<1> QED
  BY <1>2, <1>3

\* A write to a slot that leaves what is saved of it.
LEMMA OwnSlot ==
  ASSUME StoreInv, NEW h \in 1 .. Len(mem), NEW j \in Job, mem' = [mem EXCEPT ![h] = j],
         j.id = mem[h].id, j.schedule = mem[h].schedule, j.enabled = mem[h].enabled,
         UNCHANGED <<size, disk, issued, removed>>
  PROVE  StoreInv' /\ SlotJson(mem, size)' = SlotJson(mem, size) /\ Len(mem') = Len(mem)
<1>1. /\ mem \in Seq(Job) /\ Len(mem) \in Nat /\ size \in 0 .. Len(mem)
      /\ 1 .. size \subseteq DOMAIN mem
  BY BufferSlots DEF StoreInv, Buffer
<1>2. mem' \in Seq(Job) /\ Len(mem') = Len(mem)
  BY <1>1, ExceptSeq
<1>3. \A i \in 1 .. size : /\ mem'[i].id = mem[i].id
                           /\ mem'[i].schedule = mem[i].schedule
                           /\ mem'[i].enabled = mem[i].enabled
  BY <1>1
<1>4. Buffer(mem', size)
  BY <1>1, <1>2 DEF Buffer
<1>5. Live(mem', size) /\ SlotIds(mem', size) = SlotIds(mem, size)
  BY <1>3 DEF StoreInv, Live, SlotIds
<1>6. SlotJson(mem', size) = SlotJson(mem, size)
  BY <1>3 DEF SlotJson, ToJson
<1> QED
  BY <1>2, <1>4, <1>5, <1>6 DEF StoreInv

\* The pointers stay in a buffer that does not shrink.
LEMMA PointersStay ==
  ASSUME NEW b \in Nat, NEW d \in Nat, b <= d, NEW q \in Seq(1 .. b)
  PROVE  q \in Seq(1 .. d)
<1>1. 1 .. b \subseteq 1 .. d
  OBVIOUS
<1> QED
  BY <1>1, SeqMonotonic

\* The slot the loop is at.
LEMMA LoopsSlot ==
  ASSUME CronInv, loop \in {"run", "mark", "next"}
  PROVE  /\ due # <<>> /\ Head(due) \in 1 .. Len(Pointed) /\ Deref = Pointed[Head(due)]
         /\ Deref \in Job /\ Tail(due) \in Seq(1 .. Len(Pointed))
<1>1. due \in Seq(1 .. Len(Pointed)) /\ due # <<>> /\ Pointed \in Seq(Job)
  BY DEF CronInv, PassInv, Pointed, StoreInv, Buffer
<1>2. Head(due) \in 1 .. Len(Pointed) /\ Tail(due) \in Seq(1 .. Len(Pointed))
  BY <1>1, HeadTailProperties
<1>3. Pointed[Head(due)] \in Job
  BY <1>1, <1>2, ElementOfSeq
<1> QED
  BY <1>1, <1>2, <1>3 DEF Deref, Pointed

(***************************************************************************)
(* The steps.                                                              *)
(***************************************************************************)

\* A new job, not saved yet.
LEMMA AddJobKeeps ==
  ASSUME CronInv, NEW c \in Client, NEW id \in Id, NEW s \in Schedule, AddJob(c, id, s)
  PROVE  CronInv'
<1> DEFINE j == NewJob(id, s)
<1>1. /\ alive /\ client[c].op = "idle" /\ id \notin issued /\ issued' = issued \cup {id}
      /\ mem' = PushBack(j) /\ size' = size + 1
      /\ old' = IF size = Len(mem) /\ InPass /\ old = <<>> THEN mem ELSE old
      /\ client' = [client EXCEPT ![c] = [op |-> "save", id |-> id]]
      /\ UNCHANGED <<now, disk, stored, alive, running, loop, tick, due, parsed, removed>>
  BY DEF AddJob
<1>2. j \in Job /\ j.id = id /\ j.schedule = s
  <2>1. now \in Nat
    BY TimeAssumption DEF CronInv, PassInv, Now
  <2>2. NextAfter(s, now) \in Nat
    BY <2>1, NextAfterIsLater
  <2> QED
    BY <2>2 DEF NewJob, Job, Never
<1> HIDE DEF j
<1>3. /\ Buffer(mem', size') /\ Len(mem) <= Len(mem') /\ mem'[size + 1] = j
      /\ \A i \in 1 .. size : mem'[i] = mem[i]
  BY <1>1, <1>2, PushBackLaws DEF CronInv, StoreInv
<1>4. size \in Nat /\ Len(mem) \in Nat /\ Len(mem') \in Nat
      /\ \A i \in 1 .. size' : i \in 1 .. size \/ i = size + 1
  BY <1>1, <1>3, BufferSlots DEF CronInv, StoreInv
<1>5. StoreInv'
  <2>1. \A i \in 1 .. size : mem[i].id \in issued \ removed
    BY DEF CronInv, StoreInv, SlotIds
  <2>2. Live(mem', size')
    <3>1. \A i \in 1 .. size' : mem'[i].id \in Id /\ mem'[i].schedule \in Schedule
      BY <1>2, <1>3, <1>4 DEF CronInv, StoreInv, Live
    <3>2. ASSUME NEW i \in 1 .. size', NEW k \in 1 .. size', mem'[i].id = mem'[k].id
          PROVE  i = k
      <4>1. CASE i \in 1 .. size /\ k \in 1 .. size
        BY <1>3, <3>2, <4>1 DEF CronInv, StoreInv, Live
      <4>2. CASE i = size + 1 /\ k \in 1 .. size
        BY <1>1, <1>2, <1>3, <2>1, <3>2, <4>2
      <4>3. CASE i \in 1 .. size /\ k = size + 1
        BY <1>1, <1>2, <1>3, <2>1, <3>2, <4>3
      <4> QED
        BY <1>4, <4>1, <4>2, <4>3
    <3> QED
      BY <3>1, <3>2 DEF Live
  <2>3. SlotIds(mem', size') \subseteq issued' \ removed'
    <3>1. id \notin removed
      BY <1>1 DEF CronInv, StoreInv
    <3>2. \A i \in 1 .. size' : mem'[i].id \in issued' \ removed'
      BY <1>1, <1>2, <1>3, <1>4, <2>1, <3>1
    <3> QED
      BY <3>2 DEF SlotIds
  <2>4. issued' \subseteq Id /\ removed' \subseteq issued' /\ issued \ removed \subseteq issued' \ removed'
    BY <1>1 DEF CronInv, StoreInv
  <2>5. GoodFile(disk', issued' \ removed')
    BY <1>1, <2>4 DEF CronInv, StoreInv, GoodFile
  <2> QED
    BY <1>3, <2>2, <2>3, <2>4, <2>5 DEF StoreInv
<1>6. client'[c].op = "save" /\ \A d \in Client \ {c} : client'[d] = client[d]
  BY <1>1 DEF CronInv, ClientInv
<1>7. ClientInv'
  BY <1>1, <1>6 DEF CronInv, ClientInv
<1>8. LifeInv'
  BY <1>1, <1>6 DEF CronInv, LifeInv, NoneSaves
<1>9. PassInv'
  <2>1. old' \in Seq(Job)
    BY <1>1 DEF CronInv, PassInv, StoreInv, Buffer
  <2>2. Len(Pointed) \in Nat /\ Len(Pointed') \in Nat /\ Len(Pointed) <= Len(Pointed')
    <3>1. Len(old) \in Nat
      BY LenProperties DEF CronInv, PassInv
    <3>2. CASE old' = old
      BY <1>3, <1>4, <3>1, <3>2 DEF Pointed
    <3>3. CASE old = <<>> /\ old' = mem
      BY <1>3, <1>4, <3>3 DEF Pointed
    <3> QED
      BY <1>1, <3>2, <3>3
  <2>3. due' \in Seq(1 .. Len(Pointed'))
    BY <1>1, <2>2, PointersStay DEF CronInv, PassInv
  <2> QED
    BY <1>1, <2>1, <2>3 DEF CronInv, PassInv
<1> QED
  BY <1>5, <1>7, <1>8, <1>9 DEF CronInv

\* A save of the jobs as they are, by AddJob or by the loop.
LEMMA SaveKeeps ==
  ASSUME CronInv, alive, disk' = Saved(jobs),
         UNCHANGED <<mem, size, stored, alive, running, issued, removed>>
  PROVE  StoreInv' /\ LifeInv'
<1>1. Json(jobs) = SlotJson(mem, size)
  BY JobsBySlot DEF CronInv, StoreInv, jobs
<1>2. disk' = IF stored THEN SlotJson(mem, size)' ELSE disk
  BY <1>1 DEF Saved
<1> QED
  BY <1>2, ChangeAndSave DEF CronInv, StoreInv

\* AddJob's second lock region keeps the invariant: it writes what is there.
LEMMA AddJobSaveKeeps ==
  ASSUME CronInv, NEW c \in Client, AddJobSave(c)
  PROVE  CronInv'
<1>1. /\ alive /\ disk' = Saved(jobs)
      /\ client' = [client EXCEPT ![c] = [op |-> "idle"]]
      /\ UNCHANGED <<now, mem, size, stored, alive, loopVars, issued, removed>>
  BY DEF AddJobSave, historyVars, idVars
<1>2. StoreInv' /\ LifeInv'
  BY <1>1, SaveKeeps DEF loopVars
<1>3. ClientInv'
  BY <1>1 DEF CronInv, ClientInv
<1>4. PassInv'
  BY <1>1 DEF loopVars, CronInv, PassInv, Pointed
<1> QED
  BY <1>2, <1>3, <1>4 DEF CronInv

\* RemoveJob keeps the invariant, whether one job matches, several or none.
LEMMA RemoveJobKeeps ==
  ASSUME CronInv, NEW k \in DOMAIN Extends, RemoveJob(k)
  PROVE  CronInv'
<1>1. PICK i \in RemoveMatches(k) :
        /\ mem' = Erase(i) /\ size' = size - 1 /\ disk' = Saved(SubSeq(mem', 1, size'))
        /\ removed' = removed \cup {mem[i].id}
  BY DEF RemoveJob
<1>2. alive /\ UNCHANGED <<now, stored, alive, loopVars, client, issued>>
  BY DEF RemoveJob
<1>3. i \in 1 .. size
  BY DEF RemoveMatches
<1>4. /\ Buffer(mem', size') /\ Len(mem') = Len(mem)
      /\ \A n \in 1 .. size' : mem'[n] = IF n < i THEN mem[n] ELSE mem[n + 1]
  BY <1>1, <1>3, EraseLaws DEF CronInv, StoreInv
<1>5. size \in Nat
  BY BufferSlots DEF CronInv, StoreInv
<1> DEFINE from(n) == IF n < i THEN n ELSE n + 1
<1>6. \A n \in 1 .. size' : from(n) \in 1 .. size /\ from(n) # i /\ mem'[n] = mem[from(n)]
  BY <1>1, <1>3, <1>4, <1>5
<1>7. \A n, m \in 1 .. size' : from(n) = from(m) => n = m
  BY <1>1, <1>3, <1>5
<1> HIDE DEF from
<1>8. Live(mem', size')
  BY <1>6, <1>7 DEF CronInv, StoreInv, Live
<1>9. \A n \in 1 .. size' : mem'[n].id \in issued \ removed /\ mem'[n].id # mem[i].id
  BY <1>3, <1>6 DEF CronInv, StoreInv, Live, SlotIds
<1>10. SlotIds(mem', size') \subseteq issued' \ removed'
  BY <1>1, <1>2, <1>9 DEF SlotIds
<1>11. removed' \subseteq issued
  BY <1>1, <1>3 DEF CronInv, StoreInv, SlotIds
<1>12. disk' = IF stored THEN SlotJson(mem, size)' ELSE disk
  <2>1. Json(SubSeq(mem', 1, size')) = SlotJson(mem', size')
    BY <1>4, JobsBySlot
  <2> QED
    BY <1>1, <2>1 DEF Saved
<1>13. StoreInv' /\ LifeInv'
  BY <1>2, <1>4, <1>8, <1>10, <1>11, <1>12, ChangeAndSave DEF loopVars
<1>14. ClientInv'
  BY <1>2 DEF CronInv, ClientInv
<1>15. PassInv'
  BY <1>2, <1>4 DEF loopVars, CronInv, PassInv, Pointed
<1> QED
  BY <1>13, <1>14, <1>15 DEF CronInv

\* UpdateJob keeps the invariant: it changes one entry and saves.
LEMMA UpdateKeeps ==
  ASSUME CronInv, NEW c \in Client,
         \/ UpdateJob(c)
         \/ \E id \in Id, patch \in Schedule \cup {EveryMinute} : CronUpdateRead(c, id, patch)
  PROVE  CronInv'
<1>1. ASSUME NEW id, NEW patch, CronUpdateRead(c, id, patch)
      PROVE  CronInv'
  <2>1. PICK i \in 1 .. size :
          client' = [client EXCEPT ![c] =
            [op |-> "update", id |-> id,
             schedule |-> IF patch \in Schedule THEN patch ELSE mem[i].schedule]]
    BY <1>1 DEF CronUpdateRead
  <2>2. /\ client[c].op = "idle"
        /\ UNCHANGED <<now, storeVars, alive, loopVars, issued, removed>>
    BY <1>1 DEF CronUpdateRead, historyVars, idVars
  <2>3. mem[i].schedule \in Schedule
    BY DEF CronInv, StoreInv, Live
  <2>4. client'[c].op = "update" /\ client'[c].schedule \in Schedule
        /\ \A d \in Client \ {c} : client'[d] = client[d]
    BY <2>1, <2>3 DEF CronInv, ClientInv
  <2>5. ClientInv'
    BY <2>1, <2>4 DEF CronInv, ClientInv
  <2>6. LifeInv'
    <3>1. NoneSaves' => NoneSaves
      BY <2>2, <2>4 DEF NoneSaves
    <3>2. alive
      BY <1>1 DEF CronUpdateRead
    <3> QED
      BY <2>2, <3>1, <3>2 DEF storeVars, loopVars, CronInv, LifeInv
  <2> QED
    BY <2>2, <2>5, <2>6 DEF storeVars, loopVars, CronInv, StoreInv, PassInv, Pointed
<1>2. CASE UpdateJob(c)
  <2> DEFINE found == {i \in 1 .. size : mem[i].id = client[c].id}
             s     == client[c].schedule
  <2>1. /\ alive /\ client[c].op = "update"
        /\ client' = [client EXCEPT ![c] = [op |-> "idle"]]
        /\ mem' = [i \in 1 .. Len(mem) |->
                     IF i \in found
                     THEN [mem[i] EXCEPT !.schedule = s, !.next = NextAfter(s, now)]
                     ELSE mem[i]]
        /\ disk' = IF found = {} THEN disk ELSE Saved(SubSeq(mem', 1, size))
        /\ UNCHANGED <<now, size, stored, alive, loopVars, issued, removed>>
    BY <1>2 DEF UpdateJob, historyVars, idVars
  <2>2. s \in Schedule /\ NextAfter(s, now) \in Nat
    <3>1. s \in Schedule
      BY <2>1 DEF CronInv, ClientInv
    <3>2. now \in Nat
      BY TimeAssumption DEF CronInv, PassInv, Now
    <3> QED
      BY <3>1, <3>2, NextAfterIsLater
  <2>3. /\ mem \in Seq(Job) /\ Len(mem) \in Nat /\ size \in 0 .. Len(mem)
        /\ \A i \in 1 .. Len(mem) : mem[i] \in Job
        /\ 1 .. size \subseteq 1 .. Len(mem)
    BY BufferSlots DEF CronInv, StoreInv, Buffer
  <2> HIDE DEF s, found
  <2>4. ASSUME NEW i \in 1 .. Len(mem)
        PROVE  /\ mem'[i] \in Job /\ mem'[i].id = mem[i].id
               /\ mem'[i].schedule \in {mem[i].schedule, s}
               /\ found = {} => mem'[i] = mem[i]
    <3>1. mem[i] \in Job
      BY <2>3
    <3>2. CASE i \in found
      <4>1. mem'[i] = [mem[i] EXCEPT !.schedule = s, !.next = NextAfter(s, now)]
        BY <2>1, <3>2
      <4>2. NextAfter(s, now) \in Int /\ s \in Schedule \cup {EveryMinute}
        BY <2>2
      <4> QED
        BY <3>1, <3>2, <4>1, <4>2 DEF Job
    <3>3. CASE i \notin found
      BY <2>1, <3>1, <3>3
    <3> QED
      BY <3>2, <3>3
  <2>5. mem' \in Seq(Job) /\ Len(mem') = Len(mem)
    <3>1. mem' \in [1 .. Len(mem) -> Job]
      BY <2>1, <2>4
    <3>2. mem' \in Seq(Job)
      BY <2>3, <3>1, SeqDef
    <3> QED
      BY <2>3, <3>1, <3>2, LenProperties
  <2>6. Buffer(mem', size') /\ Live(mem', size') /\ SlotIds(mem', size') = SlotIds(mem, size)
    <3>1. \A i \in 1 .. size : /\ mem'[i].id = mem[i].id
                               /\ mem'[i].schedule \in {mem[i].schedule, s}
      BY <2>3, <2>4
    <3>2. size' = size
      BY <2>1
    <3>3. Buffer(mem', size')
      BY <2>3, <2>5, <3>2 DEF Buffer
    <3>4. Live(mem', size)
      BY <2>2, <3>1 DEF CronInv, StoreInv, Live
    <3>5. SlotIds(mem', size) = SlotIds(mem, size)
      BY <3>1 DEF SlotIds
    <3> QED
      BY <3>2, <3>3, <3>4, <3>5
  <2>7. NoneSaves' <=> NoneSaves
    BY <2>1 DEF NoneSaves, CronInv, ClientInv
  <2>8. StoreInv' /\ LifeInv'
    <3>1. CASE found = {}
      <4>1. \A i \in 1 .. size : mem'[i] = mem[i]
        BY <2>3, <2>4, <3>1
      <4>2. SlotJson(mem', size') = SlotJson(mem, size)
        <5>1. size' = size
          BY <2>1
        <5> QED
          BY <4>1, <5>1 DEF SlotJson
      <4>3. StoreInv'
        BY <2>1, <2>6, <3>1 DEF CronInv, StoreInv
      <4>4. LifeInv'
        BY <2>1, <2>7, <3>1, <4>2 DEF CronInv, LifeInv, loopVars
      <4> QED
        BY <4>3, <4>4
    <3>2. CASE found # {}
      <4>1. disk' = IF stored THEN SlotJson(mem, size)' ELSE disk
        <5>1. Json(SubSeq(mem', 1, size')) = SlotJson(mem', size')
          BY <2>6, JobsBySlot
        <5> QED
          BY <2>1, <3>2, <5>1 DEF Saved
      <4>2. removed' \subseteq issued /\ (SlotIds(mem, size) \subseteq issued \ removed)'
        BY <2>1, <2>6 DEF CronInv, StoreInv
      <4> QED
        BY <2>1, <2>6, <4>1, <4>2, ChangeAndSave DEF loopVars
    <3> QED
      BY <3>1, <3>2
  <2>9. ClientInv'
    BY <2>1 DEF CronInv, ClientInv
  <2>10. PassInv'
    BY <2>1, <2>5 DEF loopVars, CronInv, PassInv, Pointed
  <2> QED
    BY <2>8, <2>9, <2>10 DEF CronInv
<1> QED
  BY <1>1, <1>2

\* The loop writes last_run or next_run where its pointer points.
LEMMA AssignKeeps ==
  ASSUME CronInv, alive, loop \in {"mark", "next"}, NEW j \in Job, Assign(j),
         j.id = Deref.id, j.schedule = Deref.schedule, j.enabled = Deref.enabled,
         UNCHANGED <<size, disk, stored, alive, running, issued, removed, client>>
  PROVE  StoreInv' /\ LifeInv' /\ old' \in Seq(Job) /\ Len(Pointed') = Len(Pointed)
<1>1. Head(due) \in 1 .. Len(Pointed) /\ Deref = Pointed[Head(due)]
  BY LoopsSlot
<1>2. CASE old = <<>>
  <2>1. /\ mem' = [mem EXCEPT ![Head(due)] = j] /\ old' = old
        /\ Head(due) \in 1 .. Len(mem) /\ Deref = mem[Head(due)]
    BY <1>1, <1>2 DEF Assign, Pointed
  <2>2. /\ StoreInv' /\ SlotJson(mem, size)' = SlotJson(mem, size)
        /\ Len(mem') = Len(mem)
    BY <2>1, OwnSlot DEF CronInv
  <2>3. LifeInv'
    BY <2>2 DEF CronInv, LifeInv, NoneSaves
  <2> QED
    BY <1>2, <2>1, <2>2, <2>3 DEF Pointed, CronInv, PassInv
<1>3. CASE old # <<>>
  <2>1. /\ old' = [old EXCEPT ![Head(due)] = j] /\ mem' = mem
        /\ Head(due) \in 1 .. Len(old) /\ old \in Seq(Job)
    BY <1>1, <1>3 DEF Assign, Pointed, CronInv, PassInv
  <2>2. old' \in Seq(Job) /\ Len(old') = Len(old)
    BY <2>1, ExceptSeq
  <2>3. old' # <<>>
    <3>1. Len(old) # 0
      BY <1>3, <2>1, EmptySeq
    <3> QED
      BY <2>2, <3>1, EmptySeq
  <2>4. StoreInv' /\ LifeInv'
    BY <2>1 DEF CronInv, StoreInv, LifeInv, NoneSaves
  <2> QED
    BY <1>3, <2>2, <2>3, <2>4 DEF Pointed
<1> QED
  BY <1>2, <1>3

\* Every step of the scheduler thread keeps the invariant.
LEMMA LoopStepKeeps ==
  ASSUME CronInv, LoopStep
  PROVE  CronInv'
<1>1. CASE CollectDue
  <2>1. /\ loop = "check" /\ tick' = now /\ due' = SlotSeq(DueSlots) /\ old' = <<>>
        /\ loop' = IF DueSlots = {} THEN "sleep" ELSE "run"
        /\ UNCHANGED <<now, storeVars, alive, running, parsed, client, issued, removed>>
    BY <1>1 DEF CollectDue, historyVars, idVars
  <2>2. Len(mem) \in Nat /\ DueSlots \subseteq 1 .. Len(mem)
    <3>1. Len(mem) \in Nat /\ 1 .. size \subseteq 1 .. Len(mem)
      BY BufferSlots DEF CronInv, StoreInv
    <3> QED
      BY <3>1 DEF DueSlots
  <2>3. due' \in Seq(DueSlots) /\ (due' = <<>> <=> DueSlots = {})
    BY <2>1, <2>2, SlotSeqIsList
  <2>4. due' \in Seq(1 .. Len(mem))
    BY <2>2, <2>3, SeqMonotonic
  <2>5. <<>> \in Seq(Job) /\ Pointed' = mem
    BY <2>1, EmptySeq DEF Pointed, storeVars
  <2>6. PassInv'
    BY <2>1, <2>3, <2>4, <2>5 DEF CronInv, PassInv
  <2>7. StoreInv' /\ LifeInv' /\ ClientInv'
    BY <2>1, <1>1 DEF storeVars, CronInv, StoreInv, LifeInv, ClientInv, NoneSaves, CollectDue
  <2> QED
    BY <2>6, <2>7 DEF CronInv
<1>2. CASE RunHandler
  <2>1. /\ loop = "run" /\ loop' = "mark" /\ alive
        /\ UNCHANGED <<now, storeVars, alive, running, tick, due, old, parsed, client, issued,
                       removed>>
    BY <1>2 DEF RunHandler, idVars
  <2> QED
    BY <2>1 DEF storeVars, CronInv, StoreInv, LifeInv, ClientInv, PassInv, NoneSaves, Pointed
<1>3. CASE MarkRun
  <2>1. /\ loop = "mark" /\ loop' = "next" /\ alive /\ Assign([Deref EXCEPT !.last = tick])
        /\ parsed' = Deref.schedule
        /\ UNCHANGED <<now, size, disk, stored, alive, running, tick, due, client, issued,
                       removed>>
    BY <1>3 DEF MarkRun, historyVars, idVars
  <2> DEFINE j == [Deref EXCEPT !.last = tick]
  <2>2. Deref \in Job /\ due # <<>>
    BY <2>1, LoopsSlot
  <2>3. /\ j \in Job /\ j.id = Deref.id /\ j.schedule = Deref.schedule
        /\ j.enabled = Deref.enabled
    <3>1. tick \in Int
      BY TimeAssumption DEF CronInv, PassInv, Now
    <3> QED
      BY <2>2, <3>1 DEF Job
  <2> HIDE DEF j
  <2>4. Assign(j)
    BY <2>1 DEF j
  <2>5. StoreInv' /\ LifeInv' /\ old' \in Seq(Job) /\ Len(Pointed') = Len(Pointed)
    BY <2>1, <2>3, <2>4, AssignKeeps
  <2>6. parsed' \in Schedule \cup {EveryMinute}
    BY <2>1, <2>2 DEF Job
  <2> QED
    BY <2>1, <2>2, <2>5, <2>6 DEF CronInv, ClientInv, PassInv
<1>4. CASE SetNextRun
  <2>1. /\ loop = "next" /\ alive /\ Assign([Deref EXCEPT !.next = NextAfter(parsed, tick)])
        /\ due' = Tail(due) /\ loop' = IF Tail(due) = <<>> THEN "save" ELSE "run"
        /\ UNCHANGED <<now, size, disk, stored, alive, running, tick, parsed, client, issued,
                       removed>>
    BY <1>4 DEF SetNextRun, historyVars, idVars
  <2> DEFINE j == [Deref EXCEPT !.next = NextAfter(parsed, tick)]
  <2>2. Deref \in Job /\ Tail(due) \in Seq(1 .. Len(Pointed))
    BY <2>1, LoopsSlot
  <2>3. /\ j \in Job /\ j.id = Deref.id /\ j.schedule = Deref.schedule
        /\ j.enabled = Deref.enabled
    <3>1. tick \in Nat /\ parsed \in Schedule \cup {EveryMinute}
      BY TimeAssumption DEF CronInv, PassInv, Now
    <3>2. NextAfter(parsed, tick) \in Int
      BY <3>1, NextAfterIsLater
    <3> QED
      BY <2>2, <3>2 DEF Job
  <2> HIDE DEF j
  <2>4. Assign(j)
    BY <2>1 DEF j
  <2>5. StoreInv' /\ LifeInv' /\ old' \in Seq(Job) /\ Len(Pointed') = Len(Pointed)
    BY <2>1, <2>3, <2>4, AssignKeeps
  <2> QED
    BY <2>1, <2>2, <2>5 DEF CronInv, ClientInv, PassInv
<1>5. CASE LoopSave
  <2>1. /\ loop = "save" /\ alive /\ disk' = Saved(jobs) /\ old' = <<>> /\ loop' = "sleep"
        /\ UNCHANGED <<now, mem, size, stored, alive, running, tick, due, parsed, client,
                       issued, removed>>
    BY <1>5 DEF LoopSave, historyVars, idVars
  <2>2. StoreInv' /\ LifeInv'
    BY <2>1, SaveKeeps
  <2>3. due = <<>> /\ <<>> \in Seq(1 .. Len(mem)) /\ <<>> \in Seq(Job) /\ Pointed' = mem
    BY <2>1, EmptySeq DEF CronInv, PassInv, Pointed
  <2> QED
    BY <2>1, <2>2, <2>3 DEF CronInv, ClientInv, PassInv
<1>6. CASE Wake \/ LoopExit
  <2>1. /\ loop \in {"sleep", "check"} /\ loop' \in {"check", "off"} /\ alive
        /\ UNCHANGED <<now, storeVars, alive, running, tick, due, old, parsed, client, issued,
                       removed>>
    BY <1>6 DEF Wake, LoopExit, historyVars, idVars
  <2> QED
    BY <2>1 DEF storeVars, CronInv, StoreInv, LifeInv, ClientInv, PassInv, NoneSaves, Pointed
<1> QED
  BY <1>1, <1>2, <1>3, <1>4, <1>5, <1>6 DEF LoopStep

\* What Load makes of a good file.
LEMMA LoadIsSound ==
  ASSUME now \in Now, NEW ids, ids \subseteq Id, NEW d, GoodFile(d, ids)
  PROVE  /\ Buffer(Loaded(d), Len(Loaded(d))) /\ Live(Loaded(d), Len(Loaded(d)))
         /\ SlotIds(Loaded(d), Len(Loaded(d))) \subseteq ids
         /\ d \notin {NoFile, Torn} => SlotJson(Loaded(d), Len(Loaded(d))) = d
<1>1. CASE d \in {NoFile, Torn}
  <2>1. Loaded(d) = <<>> /\ <<>> \in Seq(Job) /\ Len(<<>>) = 0
    BY <1>1, EmptySeq DEF Loaded
  <2> QED
    BY <1>1, <2>1 DEF Buffer, Live, SlotIds
<1>2. CASE d \notin {NoFile, Torn}
  <2> DEFINE m == Loaded(d)
  <2>1. /\ d \in Seq(Entry) /\ IdsOf(d) \subseteq ids
        /\ \A i, j \in DOMAIN d : d[i].id = d[j].id => i = j
    BY <1>2 DEF GoodFile
  <2>2. Len(d) \in Nat /\ DOMAIN d = 1 .. Len(d) /\ \A i \in 1 .. Len(d) : d[i] \in Entry
    BY <2>1, LenProperties, ElementOfSeq
  <2>3. m = [i \in 1 .. Len(d) |-> FromJson(d[i])]
    BY <1>2 DEF Loaded
  <2> HIDE DEF m
  <2>4. ASSUME NEW i \in 1 .. Len(d)
        PROVE  /\ m[i] \in Job /\ m[i].id = d[i].id /\ m[i].schedule \in Schedule
               /\ ToJson(m[i]) = d[i] /\ m[i].id \in Id
    <3>1. d[i] \in Entry
      BY <2>2
    <3>2. NextAfter(d[i].schedule, now) \in Int
      <4>1. now \in Nat /\ d[i].schedule \in Schedule
        BY <3>1, TimeAssumption DEF Now, Entry
      <4> QED
        BY <4>1, NextAfterIsLater
    <3>3. m[i] = [id |-> d[i].id, schedule |-> d[i].schedule, enabled |-> d[i].enabled,
                  last |-> Never, next |-> NextAfter(d[i].schedule, now)]
      BY <2>3 DEF FromJson
    <3>4. m[i] \in Job
      BY <3>1, <3>2, <3>3 DEF Job, Entry, Never
    <3>5. ToJson(m[i]) = d[i]
      BY <3>1, <3>3 DEF ToJson, Entry
    <3> QED
      BY <3>1, <3>3, <3>4, <3>5 DEF Entry
  <2>5. m \in Seq(Job) /\ Len(m) = Len(d)
    <3>1. m \in [1 .. Len(d) -> Job]
      BY <2>3, <2>4
    <3>2. m \in Seq(Job)
      BY <2>2, <3>1, SeqDef
    <3> QED
      BY <2>2, <3>1, <3>2, LenProperties
  <2>6. Buffer(m, Len(m))
    BY <2>2, <2>5 DEF Buffer
  <2>7. Live(m, Len(m))
    BY <2>1, <2>2, <2>4, <2>5 DEF Live
  <2>8. SlotIds(m, Len(m)) \subseteq ids
    BY <2>1, <2>4, <2>5 DEF SlotIds, IdsOf
  <2>9. SlotJson(m, Len(m)) = d
    <3>1. SlotJson(m, Len(m)) = [i \in 1 .. Len(d) |-> d[i]]
      BY <2>4, <2>5 DEF SlotJson
    <3> QED
      BY <2>1, <2>2, <3>1
  <2> QED
    BY <2>6, <2>7, <2>8, <2>9 DEF m
<1> QED
  BY <1>1, <1>2

\* The process starts and stops, the clock goes on.
LEMMA LifeKeeps ==
  ASSUME CronInv, Start \/ Stop \/ Tick \/ Crash \/ Restart \/ UNCHANGED vars
  PROVE  CronInv'
<1>1. CASE Start \/ Stop
  <2>1. /\ alive /\ running' \in BOOLEAN
        /\ loop' = loop \/ (loop = "off" /\ loop' = "check")
        /\ UNCHANGED <<now, storeVars, alive, tick, due, old, parsed, client, issued, removed>>
    BY <1>1 DEF Start, Stop, historyVars, idVars
  <2> QED
    BY <2>1 DEF storeVars, CronInv, StoreInv, LifeInv, ClientInv, PassInv, NoneSaves, Pointed
<1>2. CASE Tick \/ UNCHANGED vars
  <2>1. /\ now' \in Now
        /\ UNCHANGED <<storeVars, alive, loopVars, client, issued, removed>>
    BY <1>2, TimeAssumption DEF Tick, vars, historyVars, idVars, CronInv, PassInv, Now
  <2> QED
    BY <2>1 DEF storeVars, loopVars, CronInv, StoreInv, LifeInv, ClientInv, PassInv,
                NoneSaves, Pointed
<1>3. CASE Crash
  <2>1. /\ disk' \in {disk, Torn} /\ alive' = FALSE /\ mem' = <<>> /\ size' = 0
        /\ stored' = FALSE /\ running' = FALSE /\ loop' = "off" /\ due' = <<>> /\ old' = <<>>
        /\ client' = [c \in Client |-> [op |-> "idle"]]
        /\ UNCHANGED <<now, tick, parsed, issued, removed>>
    BY <1>3 DEF Crash, idVars
  <2>2. <<>> \in Seq(Job) /\ Len(<<>>) = 0 /\ <<>> \in Seq(1 .. 0)
    BY EmptySeq
  <2>3. Buffer(<<>>, 0) /\ Live(<<>>, 0) /\ SlotIds(<<>>, 0) = {}
    BY <2>2 DEF Buffer, Live, SlotIds
  <2>4. StoreInv'
    BY <2>1, <2>3 DEF CronInv, StoreInv, GoodFile
  <2>5. LifeInv' /\ ClientInv'
    BY <2>1 DEF LifeInv, ClientInv
  <2>6. PassInv'
    BY <2>1, <2>2 DEF CronInv, PassInv, Pointed
  <2> QED
    BY <2>4, <2>5, <2>6 DEF CronInv
<1>4. CASE Restart
  <2>1. /\ ~alive /\ alive' = TRUE /\ stored' = (disk # NoFile)
        /\ mem' = Loaded(disk) /\ size' = Len(Loaded(disk))
        /\ UNCHANGED <<now, disk, loopVars, client, issued, removed>>
    BY <1>4 DEF Restart, historyVars, idVars
  <2>2. /\ Buffer(mem', size') /\ Live(mem', size')
        /\ SlotIds(mem', size') \subseteq issued \ removed
        /\ disk \notin {NoFile, Torn} => SlotJson(mem', size') = disk
    <3>1. now \in Now /\ issued \ removed \subseteq Id /\ GoodFile(disk, issued \ removed)
      BY DEF CronInv, StoreInv, PassInv
    <3> QED
      BY <2>1, <3>1, LoadIsSound
  <2>3. StoreInv'
    BY <2>1, <2>2 DEF CronInv, StoreInv
  <2>4. LifeInv' /\ ClientInv'
    BY <2>1, <2>2 DEF CronInv, LifeInv, ClientInv, loopVars
  <2>5. loop = "off" /\ due = <<>>
    BY <2>1 DEF CronInv, LifeInv, PassInv
  <2>6. <<>> \in Seq(1 .. Len(Pointed'))
    BY EmptySeq
  <2>7. PassInv'
    BY <2>1, <2>5, <2>6 DEF CronInv, PassInv, loopVars
  <2> QED
    BY <2>3, <2>4, <2>7 DEF CronInv
<1> QED
  BY <1>1, <1>2, <1>3, <1>4

\* The invariant holds of every reachable state of the scheduler.
LEMMA CronInvariant == Spec => []CronInv
<1>1. Init => CronInv
  <2> SUFFICES ASSUME Init PROVE CronInv
    OBVIOUS
  <2>1. <<>> \in Seq(Job) /\ Len(<<>>) = 0 /\ <<>> \in Seq(1 .. 0)
    BY EmptySeq
  <2>2. Buffer(<<>>, 0) /\ Live(<<>>, 0) /\ SlotIds(<<>>, 0) = {}
    BY <2>1 DEF Buffer, Live, SlotIds
  <2>3. GoodFile(disk, issued \ removed) /\ issued \subseteq Id /\ removed = {}
    <3>1. CASE InitFile = NoFile
      BY <3>1 DEF Init, GoodFile
    <3>2. CASE InitFile # NoFile
      <4>1. InitFile \in Seq(Entry)
        BY <3>2, SetupAssumption
      <4>2. \A i \in 1 .. Len(InitFile) : InitFile[i] \in Entry
        BY <4>1, ElementOfSeq
      <4>3. IdsOf(InitFile) \subseteq Id
        BY <4>2 DEF IdsOf, Entry
      <4> QED
        BY <3>2, <4>1, <4>3, SetupAssumption DEF Init, GoodFile
    <3> QED
      BY <3>1, <3>2
  <2>4. StoreInv
    BY <2>2, <2>3 DEF Init, StoreInv
  <2>5. LifeInv /\ ClientInv
    BY DEF Init, LifeInv, ClientInv
  <2>6. PassInv
    BY <2>1, TimeAssumption DEF Init, PassInv, Pointed, Now
  <2> QED
    BY <2>4, <2>5, <2>6 DEF CronInv
<1>2. CronInv /\ [Next]_vars => CronInv'
  BY AddJobKeeps, AddJobSaveKeeps, UpdateKeeps, RemoveJobKeeps, LoopStepKeeps, LifeKeeps
     DEF Next, ClientStep
<1> QED
  BY <1>1, <1>2, PTL DEF Spec

\* The file follows the jobs: when no AddJob is between its push_back and its
\* save, cron.json holds exactly the jobs in memory, and every pointer of the
\* loop points into the buffer it was taken from (cron_scheduler.cpp:365), for
\* any jobs, schedules, clients and crashes, also when edits move what the loop
\* points to.
THEOREM JobsAlwaysSound == Spec => []JobsSound
<1>1. CronInv => JobsSound
  <2> SUFFICES ASSUME CronInv PROVE JobsSound
    OBVIOUS
  <2>1. Json(jobs) = SlotJson(mem, size)
    BY JobsBySlot DEF CronInv, StoreInv, jobs
  <2>2. FileFollowsJobs
    BY <2>1 DEF FileFollowsJobs, CronInv, LifeInv, NoneSaves
  <2>3. TypeOK
    BY DEF TypeOK, CronInv, StoreInv, Buffer, GoodFile, LifeInv, ClientInv, PassInv, Pointed
  <2> QED
    BY <2>2, <2>3 DEF JobsSound
<1> QED
  BY <1>1, CronInvariant, PTL

\* A job for which RemoveJob returned true never comes back, neither through a
\* save that another call still has to make nor through a restart
\* (cron_scheduler.cpp:138).
THEOREM RemovedForGood == Spec => []RemovedStaysRemoved
<1>1. CronInv => RemovedStaysRemoved
  <2> SUFFICES ASSUME CronInv PROVE RemovedStaysRemoved
    OBVIOUS
  <2>1. IdsOf(jobs) = SlotIds(mem, size)
    BY JobsBySlot DEF CronInv, StoreInv, jobs
  <2> QED
    BY <2>1 DEF RemovedStaysRemoved, CronInv, StoreInv, GoodFile
<1> QED
  BY <1>1, CronInvariant, PTL

(***************************************************************************)
(* No double run, but for the pass an edit disturbs and the one after it.  *)
(***************************************************************************)

\* Jobs that may have been run for the due time they still have: the one
\* between its run and the write of next_run, and, after a disturbed pass,
\* those the loop has collected again.
Open(i) ==
  \/ loop \in {"mark", "next"} /\ i = due[1]
  \/ disturbed = "last" /\ \E k \in 1 .. Len(due) : due[k] = i

\* Another enabled job's latest run lies before its next one.
RunsOnce(i) == mem[i].enabled => ran[mem[i].id] < mem[i].next \/ Open(i)

RanInv ==
  /\ DOMAIN ran = Id \cup {NoId}
  /\ \A id \in Id : ran[id] \in Int /\ ran[id] <= tick /\ ran[id] <= now

\* What the loop still has to visit is among the jobs, was due when it was
\* collected and is visited once.
PassIsCalm ==
  /\ old # <<>> => loop = "save"
  /\ \A k \in 1 .. Len(due) :
       due[k] \in 1 .. size /\ mem[due[k]].enabled /\ mem[due[k]].next <= tick
  /\ \A k, l \in 1 .. Len(due) : due[k] = due[l] => k = l
  /\ \A i \in 1 .. size : RunsOnce(i)

CalmInv ==
  /\ RanInv /\ tick <= now
  /\ disturbed \in {"no", "last", "now"}
  /\ disturbed # "now" => PassIsCalm

\* The typing of what a pass reads and points to.
CalmFacts ==
  /\ \A i \in 1 .. size : mem[i] \in Job /\ mem[i].id \in issued /\ mem[i].id \in Id
  /\ size \in Nat /\ Len(mem) \in Nat /\ size <= Len(mem) /\ DOMAIN mem = 1 .. Len(mem)
  /\ now \in Nat /\ tick \in Nat
  /\ due \in Seq(1 .. Len(Pointed)) /\ Len(due) \in Nat
  /\ due # <<>> => /\ Len(due) > 0 /\ Head(due) = due[1]
                   /\ Len(Tail(due)) = Len(due) - 1
                   /\ \A k \in 1 .. Len(due) - 1 : Tail(due)[k] = due[k + 1]
  /\ due = <<>> => Len(due) = 0

\* The invariant of the jobs and the file gives the typing the arguments need.
LEMMA CalmTypes ==
  ASSUME CronInv
  PROVE  CalmFacts
<1>1. /\ size \in Nat /\ Len(mem) \in Nat /\ DOMAIN mem = 1 .. Len(mem) /\ size <= Len(mem)
      /\ 1 .. size \subseteq 1 .. Len(mem) /\ \A i \in 1 .. Len(mem) : mem[i] \in Job
  BY BufferSlots DEF CronInv, StoreInv, Buffer
<1>2. \A i \in 1 .. size : mem[i].id \in issued /\ mem[i].id \in Id
  BY DEF CronInv, StoreInv, SlotIds
<1>3. now \in Nat /\ tick \in Nat
  BY TimeAssumption DEF CronInv, PassInv, Now
<1>4. due \in Seq(1 .. Len(Pointed))
  BY DEF CronInv, PassInv
<1>5. Len(due) \in Nat /\ (due = <<>> <=> Len(due) = 0)
  BY <1>4, LenProperties, EmptySeq
<1>6. due # <<>> => /\ Head(due) = due[1] /\ Len(Tail(due)) = Len(due) - 1
                    /\ \A k \in 1 .. Len(due) - 1 : Tail(due)[k] = due[k + 1]
  <2> SUFFICES ASSUME due # <<>>
               PROVE  /\ Head(due) = due[1] /\ Len(Tail(due)) = Len(due) - 1
                      /\ \A k \in 1 .. Len(due) - 1 : Tail(due)[k] = due[k + 1]
    OBVIOUS
  <2>1. /\ Head(due) = due[1] /\ Len(Tail(due)) = Len(due) - 1
        /\ \A k \in 1 .. Len(Tail(due)) : Tail(due)[k] = due[k + 1]
    BY <1>4, HeadTailProperties
  <2> QED
    BY <2>1
<1> QED
  BY <1>1, <1>2, <1>3, <1>4, <1>5, <1>6 DEF CalmFacts

\* An undisturbed pass that still has jobs to visit points into the live buffer.
LEMMA CalmSlot ==
  ASSUME CronInv, PassIsCalm, loop \in {"run", "mark", "next"}
  PROVE  /\ old = <<>> /\ due # <<>> /\ Len(due) > 0 /\ 1 \in 1 .. Len(due)
         /\ due[1] \in 1 .. size /\ Head(due) = due[1] /\ Deref = mem[due[1]]
         /\ mem[due[1]].enabled /\ mem[due[1]].next <= tick
<1>1. CalmFacts
  BY CalmTypes
<1>2. due # <<>> /\ old = <<>>
  BY DEF CronInv, PassInv, PassIsCalm
<1>3. 1 \in 1 .. Len(due)
  BY <1>1, <1>2 DEF CalmFacts
<1> QED
  BY <1>1, <1>2, <1>3 DEF CalmFacts, PassIsCalm, Deref

\* An edit that does not disturb the pass touches no slot it points to.
LEMMA Undisturbed ==
  ASSUME CronInv, CalmFacts, NEW S, DisturbedBy(S) # "now"
  PROVE  disturbed # "now" /\ \A k \in 1 .. Len(due) : due[k] \notin S
<1>1. InPass \/ due = <<>>
  BY DEF CronInv, PassInv, InPass
<1>2. CASE InPass
  BY <1>2 DEF DisturbedBy
<1>3. CASE ~ InPass
  <2>1. disturbed # "now" /\ Len(due) = 0
    BY <1>1, <1>3 DEF DisturbedBy, CalmFacts
  <2> QED
    BY <2>1
<1> QED
  BY <1>2, <1>3

\* A new job is due later than any run of it, and moves no pointer unless the
\* buffer grows.
LEMMA AddJobCalm ==
  ASSUME CronInv, CalmInv,
         NEW c \in Client, NEW id \in Id, NEW s \in Schedule, AddJob(c, id, s)
  PROVE  CalmInv'
<1> DEFINE j == NewJob(id, s)
<1>1. /\ mem' = PushBack(j) /\ size' = size + 1
      /\ disturbed' = IF size = Len(mem) THEN DisturbedBy(1 .. size) ELSE disturbed
      /\ old' = IF size = Len(mem) /\ InPass /\ old = <<>> THEN mem ELSE old
      /\ UNCHANGED <<now, running, loop, tick, due, parsed, ran>>
  BY DEF AddJob
<1>2. CalmFacts
  BY CalmTypes
<1>3. NextAfter(s, now) \in Nat /\ now < NextAfter(s, now)
  BY <1>2, NextAfterIsLater DEF CalmFacts
<1>4. j \in Job /\ j.id = id /\ j.next = NextAfter(s, now)
  BY <1>3 DEF NewJob, Job, Never
<1> HIDE DEF j
<1>5. mem'[size + 1] = j /\ \A i \in 1 .. size : mem'[i] = mem[i]
  BY <1>1, <1>4, PushBackLaws DEF CronInv, StoreInv
<1>6. RanInv' /\ tick' <= now' /\ disturbed' \in {"no", "last", "now"}
  BY <1>1 DEF CalmInv, RanInv, DisturbedBy
<1>7. ASSUME disturbed' # "now"
      PROVE  PassIsCalm'
  <2>1. disturbed # "now" /\ (size = Len(mem) => \A k \in 1 .. Len(due) : due[k] \notin 1 .. size)
    BY <1>1, <1>2, <1>7, Undisturbed
  <2>2. PassIsCalm
    BY <2>1 DEF CalmInv
  <2>3. disturbed' = disturbed
    BY <1>1, <1>7 DEF DisturbedBy
  <2>4. old' # <<>> => loop' = "save"
    <3>1. CASE old' = old
      BY <1>1, <2>2, <3>1 DEF PassIsCalm
    <3>2. CASE old' # old
      <4>1. size = Len(mem) /\ InPass
        BY <1>1, <3>2
      <4>2. ~ (loop \in {"run", "mark", "next"})
        <5>1. loop \in {"run", "mark", "next"} => 1 \in 1 .. Len(due) /\ due[1] \in 1 .. size
          BY <2>2, CalmSlot
        <5> QED
          BY <2>1, <4>1, <5>1
      <4> QED
        BY <1>1, <4>1, <4>2 DEF InPass
    <3> QED
      BY <3>1, <3>2
  <2>5. \A k \in 1 .. Len(due') : /\ due'[k] \in 1 .. size' /\ mem'[due'[k]].enabled
                                  /\ mem'[due'[k]].next <= tick'
    <3> TAKE k \in 1 .. Len(due')
    <3>1. /\ due[k] \in 1 .. size /\ mem[due[k]].enabled /\ mem[due[k]].next <= tick
      BY <1>1, <2>2 DEF PassIsCalm
    <3>2. due[k] \in 1 .. size + 1
      BY <1>2, <3>1 DEF CalmFacts
    <3> QED
      BY <1>1, <1>5, <3>1, <3>2
  <2>6. ASSUME NEW i \in 1 .. size'
        PROVE  RunsOnce(i)'
    <3>1. CASE i \in 1 .. size
      BY <1>1, <1>5, <2>2, <2>3, <3>1 DEF PassIsCalm, RunsOnce, Open
    <3>2. CASE i = size + 1
      <4>1. ran[id] \in Int /\ ran[id] <= now
        BY DEF CalmInv, RanInv
      <4>2. ran[id] < NextAfter(s, now)
        BY <1>2, <1>3, <4>1 DEF CalmFacts
      <4> QED
        BY <1>1, <1>4, <1>5, <3>2, <4>2 DEF RunsOnce
    <3>3. i \in 1 .. size \/ i = size + 1
      <4>1. size \in Nat /\ i \in 1 .. size + 1
        BY <1>1, <1>2 DEF CalmFacts
      <4> QED
        BY <4>1
    <3> QED
      BY <3>1, <3>2, <3>3
  <2> QED
    BY <1>1, <2>2, <2>4, <2>5, <2>6 DEF PassIsCalm
<1> QED
  BY <1>6, <1>7 DEF CalmInv

\* A removed job lies behind what the loop points to, or the pass is disturbed.
LEMMA RemoveJobCalm ==
  ASSUME CronInv, CalmInv, NEW k \in DOMAIN Extends, RemoveJob(k)
  PROVE  CalmInv'
<1>1. PICK i \in RemoveMatches(k) :
        disturbed' = DisturbedBy(i .. size) /\ mem' = Erase(i) /\ size' = size - 1
  BY DEF RemoveJob
<1>2. UNCHANGED <<now, loop, tick, due, old, issued, ran>>
  BY DEF RemoveJob, loopVars
<1>3. i \in 1 .. size
  BY DEF RemoveMatches
<1>4. CalmFacts
  BY CalmTypes
<1>5. \A n \in 1 .. size' : mem'[n] = IF n < i THEN mem[n] ELSE mem[n + 1]
  BY <1>1, <1>3, EraseLaws DEF CronInv, StoreInv
<1>6. RanInv' /\ tick' <= now' /\ disturbed' \in {"no", "last", "now"}
  BY <1>1, <1>2 DEF CalmInv, RanInv, DisturbedBy
<1>7. ASSUME disturbed' # "now"
      PROVE  PassIsCalm'
  <2>1. disturbed # "now" /\ \A l \in 1 .. Len(due) : due[l] \notin i .. size
    BY <1>1, <1>4, <1>7, Undisturbed
  <2>2. PassIsCalm
    BY <2>1 DEF CalmInv
  <2>3. disturbed' = disturbed
    BY <1>1, <1>7 DEF DisturbedBy
  <2>4. \A l \in 1 .. Len(due) : due[l] < i /\ due[l] \in 1 .. size' /\ mem'[due[l]] = mem[due[l]]
    <3> TAKE l \in 1 .. Len(due)
    <3>1. due[l] \in 1 .. size /\ due[l] \notin i .. size
      BY <2>1, <2>2 DEF PassIsCalm
    <3>2. due[l] < i /\ due[l] \in 1 .. size'
      BY <1>1, <1>3, <1>4, <3>1 DEF CalmFacts
    <3> QED
      BY <1>5, <3>2
  <2>5. ASSUME NEW n \in 1 .. size'
        PROVE  RunsOnce(n)'
    <3>1. CASE n < i
      <4>1. mem'[n] = mem[n] /\ n \in 1 .. size
        BY <1>1, <1>3, <1>4, <1>5, <3>1 DEF CalmFacts
      <4> QED
        BY <1>2, <2>2, <2>3, <4>1 DEF RunsOnce, Open, PassIsCalm
    <3>2. CASE ~ (n < i)
      <4>1. mem'[n] = mem[n + 1] /\ n + 1 \in 1 .. size /\ ~ (n + 1 < i)
        BY <1>1, <1>3, <1>4, <1>5, <3>2 DEF CalmFacts
      <4>2. \A l \in 1 .. Len(due) : due[l] # n + 1
        BY <2>4, <4>1
      <4>3. ~ (loop \in {"mark", "next"} /\ n + 1 = due[1])
        <5>1. loop \in {"mark", "next"} => 1 \in 1 .. Len(due)
          BY <2>2, CalmSlot
        <5> QED
          BY <4>2, <5>1
      <4>4. ~ Open(n + 1)
        BY <4>2, <4>3 DEF Open
      <4>5. RunsOnce(n + 1)
        BY <2>2, <4>1 DEF PassIsCalm
      <4> QED
        BY <1>2, <4>1, <4>4, <4>5 DEF RunsOnce
    <3> QED
      BY <3>1, <3>2
  <2> QED
    BY <1>2, <2>2, <2>4, <2>5 DEF PassIsCalm
<1> QED
  BY <1>6, <1>7 DEF CalmInv

\* An updated job is due later than any run of it, and no pass points to it, or
\* the pass is disturbed.
LEMMA UpdateCalm ==
  ASSUME CronInv, CalmInv, NEW c \in Client, UpdateJob(c)
  PROVE  CalmInv'
<1> DEFINE found == {i \in 1 .. size : mem[i].id = client[c].id}
           s     == client[c].schedule
<1>1. /\ disturbed' = DisturbedBy(found)
      /\ mem' = [i \in 1 .. Len(mem) |->
                   IF i \in found
                   THEN [mem[i] EXCEPT !.schedule = s, !.next = NextAfter(s, now)]
                   ELSE mem[i]]
      /\ UNCHANGED <<now, size, loop, tick, due, old, issued, ran>>
  BY DEF UpdateJob, loopVars, idVars
<1>2. s \in Schedule
  BY DEF CronInv, ClientInv, UpdateJob
<1>3. CalmFacts
  BY CalmTypes
<1>4. NextAfter(s, now) \in Nat /\ now < NextAfter(s, now)
  BY <1>2, <1>3, NextAfterIsLater DEF CalmFacts
<1> HIDE DEF found, s
<1>5. \A i \in 1 .. size : /\ mem'[i].id = mem[i].id /\ mem'[i].enabled = mem[i].enabled
                           /\ i \notin found => mem'[i] = mem[i]
                           /\ i \in found => mem'[i].next = NextAfter(s, now)
  <2> TAKE i \in 1 .. size
  <2>1. i \in 1 .. Len(mem) /\ mem[i] \in Job
    BY <1>3 DEF CalmFacts
  <2> QED
    BY <1>1, <2>1 DEF Job
<1>6. RanInv' /\ tick' <= now' /\ disturbed' \in {"no", "last", "now"}
  BY <1>1 DEF CalmInv, RanInv, DisturbedBy
<1>7. ASSUME disturbed' # "now"
      PROVE  PassIsCalm'
  <2>1. disturbed # "now" /\ \A k \in 1 .. Len(due) : due[k] \notin found
    BY <1>1, <1>3, <1>7, Undisturbed
  <2>2. PassIsCalm
    BY <2>1 DEF CalmInv
  <2>3. disturbed' = disturbed
    BY <1>1, <1>7 DEF DisturbedBy
  <2>4. ASSUME NEW i \in 1 .. size
        PROVE  RunsOnce(i)'
    <3>1. CASE i \in found
      <4>1. ran[mem[i].id] \in Int /\ ran[mem[i].id] <= now
        BY <1>3 DEF CalmFacts, CalmInv, RanInv
      <4>2. ran[mem[i].id] < NextAfter(s, now)
        BY <1>3, <1>4, <4>1 DEF CalmFacts
      <4> QED
        BY <1>1, <1>5, <3>1, <4>2 DEF RunsOnce
    <3>2. CASE i \notin found
      <4>1. RunsOnce(i)
        BY <2>2 DEF PassIsCalm
      <4>2. Open(i)' <=> Open(i)
        BY <1>1, <2>3 DEF Open
      <4>3. mem'[i] = mem[i]
        BY <1>5, <3>2
      <4> QED
        BY <1>1, <4>1, <4>2, <4>3 DEF RunsOnce
    <3> QED
      BY <3>1, <3>2
  <2>5. \A k \in 1 .. Len(due) : due[k] \in 1 .. size /\ mem'[due[k]].enabled /\ mem'[due[k]].next <= tick
    BY <1>5, <2>1, <2>2 DEF PassIsCalm
  <2> QED
    BY <1>1, <2>2, <2>4, <2>5 DEF PassIsCalm
<1> QED
  BY <1>6, <1>7 DEF CalmInv

\* A write of the loop to the slot it points to.
LEMMA OwnWriteCalm ==
  ASSUME CronInv, PassIsCalm, loop \in {"mark", "next"}, NEW j, Assign(j), UNCHANGED size
  PROVE  /\ old' = <<>> /\ mem'[due[1]] = j
         /\ \A i \in 1 .. size : i # due[1] => mem'[i] = mem[i]
<1>1. /\ old = <<>> /\ due[1] \in 1 .. size /\ Head(due) = due[1]
  BY CalmSlot
<1>2. mem' = [mem EXCEPT ![due[1]] = j] /\ old' = old
  BY <1>1 DEF Assign
<1>3. due[1] \in DOMAIN mem
  BY <1>1, CalmTypes DEF CalmFacts
<1> QED
  BY <1>1, <1>2, <1>3

\* A new pass collects jobs that are due, each once; what the pass before it
\* has left to be run again is among them.
LEMMA CollectCalm ==
  ASSUME CronInv, CalmInv, CollectDue
  PROVE  CalmInv'
<1>1. CalmFacts
  BY CalmTypes
<1>2. /\ loop = "check" /\ tick' = now /\ due' = SlotSeq(DueSlots) /\ old' = <<>>
      /\ loop' \in {"sleep", "run"}
      /\ disturbed' = IF disturbed = "now" THEN "last" ELSE "no"
      /\ UNCHANGED <<now, mem, size, issued, ran>>
  BY DEF CollectDue, storeVars, idVars
<1>3. DueSlots \subseteq 1 .. size
  BY DEF DueSlots
<1>4. /\ due' \in Seq(DueSlots) /\ \A i \in DueSlots : \E k \in DOMAIN due' : due'[k] = i
      /\ \A k, l \in DOMAIN due' : due'[k] = due'[l] => k = l
  BY <1>1, <1>2, <1>3, SlotSeqIsList DEF CalmFacts
<1>5. DOMAIN due' = 1 .. Len(due') /\ \A k \in 1 .. Len(due') : due'[k] \in DueSlots
  BY <1>4, LenProperties, ElementOfSeq
<1>6. \A k \in 1 .. Len(due') : /\ due'[k] \in 1 .. size /\ mem[due'[k]].enabled
                                /\ mem[due'[k]].next <= now
  BY <1>5 DEF DueSlots
<1>7. RanInv' /\ tick' <= now'
  BY <1>1, <1>2 DEF CalmInv, RanInv, CalmFacts
<1>8. ASSUME NEW i \in 1 .. size
      PROVE  RunsOnce(i)'
  <2>1. CASE disturbed # "now"
    <3>1. RunsOnce(i) /\ disturbed' = "no"
      BY <1>2, <2>1 DEF CalmInv, PassIsCalm
    <3>2. Open(i) => due # <<>>
      BY <1>1, <1>2 DEF Open, CalmFacts
    <3>3. due = <<>>
      BY <1>2 DEF CronInv, PassInv
    <3> QED
      BY <1>2, <3>1, <3>2, <3>3 DEF RunsOnce
  <2>2. CASE disturbed = "now"
    <3>1. CASE i \in DueSlots
      <4>1. \E k \in 1 .. Len(due') : due'[k] = i
        BY <1>4, <1>5, <3>1
      <4> QED
        BY <1>2, <2>2, <4>1 DEF RunsOnce, Open
    <3>2. CASE i \notin DueSlots
      <4>1. mem[i].enabled => ~ (mem[i].next <= now)
        BY <3>2 DEF DueSlots
      <4>2. ran[mem[i].id] \in Int /\ ran[mem[i].id] <= now /\ mem[i].next \in Int
        BY <1>1 DEF CalmFacts, CalmInv, RanInv, Job
      <4>3. mem[i].enabled => ran[mem[i].id] < mem[i].next
        BY <1>1, <4>1, <4>2 DEF CalmFacts
      <4> QED
        BY <1>2, <4>3 DEF RunsOnce
    <3> QED
      BY <3>1, <3>2
  <2> QED
    BY <2>1, <2>2
<1>9. \A k, l \in 1 .. Len(due') : due'[k] = due'[l] => k = l
  BY <1>4, <1>5
<1>10. PassIsCalm'
  BY <1>2, <1>6, <1>8, <1>9 DEF PassIsCalm
<1> QED
  BY <1>2, <1>7, <1>10 DEF CalmInv

\* The handler runs on the slot the loop points to.
LEMMA RunCalm ==
  ASSUME CronInv, CalmInv, RunHandler
  PROVE  CalmInv'
<1>1. CalmFacts
  BY CalmTypes
<1>2. /\ loop = "run" /\ loop' = "mark"
      /\ ran' = [ran EXCEPT ![Deref.id] = tick]
      /\ UNCHANGED <<now, mem, size, tick, due, old, issued, disturbed>>
  BY DEF RunHandler, storeVars, idVars
<1>3. RanInv' /\ tick' <= now' /\ disturbed' \in {"no", "last", "now"}
  BY <1>1, <1>2 DEF CalmInv, RanInv, CalmFacts
<1>4. ASSUME disturbed # "now"
      PROVE  PassIsCalm'
  <2>1. PassIsCalm
    BY <1>4 DEF CalmInv
  <2>2. /\ old = <<>> /\ due[1] \in 1 .. size /\ Deref = mem[due[1]]
    BY <1>2, <2>1, CalmSlot
  <2>3. ASSUME NEW i \in 1 .. size
        PROVE  RunsOnce(i)'
    <3>1. CASE i = due[1]
      BY <1>2, <3>1 DEF RunsOnce, Open
    <3>2. CASE i # due[1]
      <4>1. mem[i].id # mem[due[1]].id
        BY <2>2, <3>2 DEF CronInv, StoreInv, Live
      <4>2. RunsOnce(i)
        BY <2>1 DEF PassIsCalm
      <4>3. Open(i) => Open(i)'
        BY <1>2 DEF Open
      <4>4. ran'[mem[i].id] = ran[mem[i].id]
        BY <1>2, <2>2, <4>1
      <4> QED
        BY <1>2, <4>2, <4>3, <4>4 DEF RunsOnce
    <3> QED
      BY <3>1, <3>2
  <2> QED
    BY <1>2, <2>1, <2>2, <2>3 DEF PassIsCalm
<1> QED
  BY <1>2, <1>3, <1>4 DEF CalmInv

\* last_run is written to the slot the loop points to.
LEMMA MarkCalm ==
  ASSUME CronInv, CalmInv, MarkRun
  PROVE  CalmInv'
<1> DEFINE j == [Deref EXCEPT !.last = tick]
<1>1. CalmFacts
  BY CalmTypes
<1>2. /\ loop = "mark" /\ loop' = "next" /\ Assign(j)
      /\ UNCHANGED <<now, size, tick, due, issued, ran, disturbed>>
  BY DEF MarkRun, historyVars, idVars
<1>3. RanInv' /\ tick' <= now' /\ disturbed' \in {"no", "last", "now"}
  BY <1>2 DEF CalmInv, RanInv
<1>4. ASSUME disturbed # "now"
      PROVE  PassIsCalm'
  <2>1. PassIsCalm
    BY <1>4 DEF CalmInv
  <2>2. due[1] \in 1 .. size /\ Deref = mem[due[1]]
    BY <1>2, <2>1, CalmSlot
  <2>3. /\ j.id = mem[due[1]].id /\ j.next = mem[due[1]].next
        /\ j.enabled = mem[due[1]].enabled
    BY <1>1, <2>2 DEF CalmFacts, Job
  <2> HIDE DEF j
  <2>4. /\ old' = <<>> /\ mem'[due[1]] = j
        /\ \A i \in 1 .. size : i # due[1] => mem'[i] = mem[i]
    BY <1>2, <2>1, OwnWriteCalm
  <2>5. \A i \in 1 .. size : /\ mem'[i].id = mem[i].id /\ mem'[i].next = mem[i].next
                             /\ mem'[i].enabled = mem[i].enabled
    BY <2>3, <2>4
  <2>6. ASSUME NEW i \in 1 .. size
        PROVE  RunsOnce(i)'
    <3>1. RunsOnce(i)
      BY <2>1 DEF PassIsCalm
    <3>2. Open(i) => Open(i)'
      BY <1>2 DEF Open
    <3> QED
      BY <1>2, <2>5, <3>1, <3>2 DEF RunsOnce
  <2> QED
    BY <1>2, <2>1, <2>4, <2>5, <2>6 DEF PassIsCalm
<1> QED
  BY <1>2, <1>3, <1>4 DEF CalmInv

\* The job that was run gets a time later than its run.
LEMMA SetNextCalm ==
  ASSUME CronInv, CalmInv, SetNextRun
  PROVE  CalmInv'
<1> DEFINE j == [Deref EXCEPT !.next = NextAfter(parsed, tick)]
<1>1. CalmFacts
  BY CalmTypes
<1>2. /\ loop = "next" /\ Assign(j) /\ due' = Tail(due) /\ loop' \in {"save", "run"}
      /\ UNCHANGED <<now, size, tick, issued, ran, disturbed>>
  BY DEF SetNextRun, historyVars, idVars
<1>3. RanInv' /\ tick' <= now' /\ disturbed' \in {"no", "last", "now"}
  BY <1>2 DEF CalmInv, RanInv
<1>4. ASSUME disturbed # "now"
      PROVE  PassIsCalm'
  <2>1. PassIsCalm
    BY <1>4 DEF CalmInv
  <2>2. /\ due[1] \in 1 .. size /\ Deref = mem[due[1]] /\ due # <<>>
    BY <1>2, <2>1, CalmSlot
  <2>3. NextAfter(parsed, tick) \in Nat /\ tick < NextAfter(parsed, tick)
    <3>1. parsed \in Schedule \cup {EveryMinute} /\ tick \in Nat
      BY <1>1 DEF CronInv, PassInv, CalmFacts
    <3> QED
      BY <3>1, NextAfterIsLater
  <2>4. /\ j.id = mem[due[1]].id /\ j.next = NextAfter(parsed, tick)
    BY <1>1, <2>2 DEF CalmFacts, Job
  <2> HIDE DEF j
  <2>5. /\ old' = <<>> /\ mem'[due[1]] = j
        /\ \A i \in 1 .. size : i # due[1] => mem'[i] = mem[i]
    BY <1>2, <2>1, OwnWriteCalm
  <2>6. ran[mem[due[1]].id] < NextAfter(parsed, tick)
    <3>1. ran[mem[due[1]].id] \in Int /\ ran[mem[due[1]].id] <= tick
      BY <1>1, <2>2 DEF CalmFacts, CalmInv, RanInv
    <3> QED
      BY <1>1, <2>3, <3>1 DEF CalmFacts
  <2>7. /\ Len(due') = Len(due) - 1 /\ Len(due) \in Nat
        /\ \A k \in 1 .. Len(due') : /\ due'[k] = due[k + 1] /\ k + 1 \in 1 .. Len(due)
                                     /\ due[k + 1] # due[1]
    <3>1. /\ Len(due') = Len(due) - 1 /\ Len(due) \in Nat
          /\ \A k \in 1 .. Len(due') : due'[k] = due[k + 1]
      BY <1>1, <1>2, <2>2 DEF CalmFacts
    <3>2. \A k \in 1 .. Len(due') : k + 1 \in 1 .. Len(due) /\ k + 1 # 1 /\ 1 \in 1 .. Len(due)
      BY <3>1
    <3> QED
      BY <2>1, <3>1, <3>2 DEF PassIsCalm
  <2>8. ASSUME NEW i \in 1 .. size
        PROVE  RunsOnce(i)'
    <3>1. CASE i = due[1]
      BY <1>2, <2>4, <2>5, <2>6, <3>1 DEF RunsOnce
    <3>2. CASE i # due[1]
      <4>1. RunsOnce(i) /\ mem'[i] = mem[i]
        BY <2>1, <2>5, <3>2 DEF PassIsCalm
      <4>2. ASSUME NEW k \in 1 .. Len(due), due[k] = i
            PROVE  \E l \in 1 .. Len(due') : due'[l] = i
        <5>1. k # 1 /\ k - 1 \in 1 .. Len(due')
          BY <2>7, <3>2, <4>2
        <5>2. due'[k - 1] = due[(k - 1) + 1]
          BY <2>7, <5>1
        <5>3. due'[k - 1] = i
          BY <4>2, <5>2
        <5> QED
          BY <5>1, <5>3
      <4>3. Open(i) => Open(i)'
        BY <1>2, <3>2, <4>2 DEF Open
      <4> QED
        BY <1>2, <4>1, <4>3 DEF RunsOnce
    <3> QED
      BY <3>1, <3>2
  <2>9. \A k \in 1 .. Len(due') : /\ due'[k] \in 1 .. size /\ mem'[due'[k]].enabled
                                  /\ mem'[due'[k]].next <= tick
    <3> TAKE k \in 1 .. Len(due')
    <3>1. due'[k] = due[k + 1] /\ k + 1 \in 1 .. Len(due) /\ due[k + 1] # due[1]
      BY <2>7
    <3>2. /\ due[k + 1] \in 1 .. size /\ mem[due[k + 1]].enabled
          /\ mem[due[k + 1]].next <= tick
      BY <2>1, <3>1 DEF PassIsCalm
    <3> QED
      BY <2>5, <3>1, <3>2
  <2>10. \A k, l \in 1 .. Len(due') : due'[k] = due'[l] => k = l
    <3> TAKE k, l \in 1 .. Len(due')
    <3> HAVE due'[k] = due'[l]
    <3>1. k + 1 = l + 1
      BY <2>1, <2>7 DEF PassIsCalm
    <3> QED
      BY <2>7, <3>1
  <2> QED
    BY <1>2, <2>5, <2>8, <2>9, <2>10 DEF PassIsCalm
<1> QED
  BY <1>2, <1>3, <1>4 DEF CalmInv

\* The steps of the scheduler thread.
LEMMA LoopStepCalm ==
  ASSUME CronInv, CalmInv, LoopStep
  PROVE  CalmInv'
<1>1. CASE LoopSave \/ Wake \/ LoopExit
  <2>1. /\ loop \in {"save", "sleep", "check"} /\ loop' \in {"sleep", "check", "off"}
        /\ (old' = old /\ loop # "save") \/ old' = <<>>
        /\ UNCHANGED <<now, mem, size, tick, due, issued, ran, disturbed>>
    BY <1>1 DEF LoopSave, Wake, LoopExit, storeVars, historyVars, idVars
  <2>2. PassIsCalm => PassIsCalm'
    BY <2>1 DEF PassIsCalm, RunsOnce, Open
  <2> QED
    BY <2>1, <2>2 DEF CalmInv, RanInv
<1> QED
  BY <1>1, CollectCalm, RunCalm, MarkCalm, SetNextCalm DEF LoopStep

\* A restart reads the jobs with their next times later than now; the other
\* steps of the process and its environment change no job.
LEMMA LifeCalm ==
  ASSUME CronInv, CalmInv,
         \/ Start \/ Stop \/ Tick \/ Crash \/ Restart \/ UNCHANGED vars
         \/ \E c \in Client :
              \/ AddJobSave(c)
              \/ \E id \in Id, patch \in Schedule \cup {EveryMinute} :
                   CronUpdateRead(c, id, patch)
  PROVE  CalmInv'
<1>1. CalmFacts
  BY CalmTypes
<1>2. CASE Crash
  <2>1. /\ size' = 0 /\ due' = <<>> /\ old' = <<>> /\ disturbed' = "no"
        /\ UNCHANGED <<now, tick, issued, ran>>
    BY <1>2 DEF Crash, idVars
  <2>2. Len(due') = 0
    BY <2>1, EmptySeq
  <2>3. PassIsCalm'
    BY <2>1, <2>2 DEF PassIsCalm
  <2> QED
    BY <2>1, <2>3 DEF CalmInv, RanInv
<1>3. CASE Restart
  <2>1. /\ ~alive /\ mem' = Loaded(disk) /\ size' = Len(Loaded(disk))
        /\ UNCHANGED <<now, loop, tick, due, old, issued, ran, disturbed>>
    BY <1>3 DEF Restart, loopVars, historyVars, idVars
  <2>2. due = <<>> /\ Len(due) = 0
    BY <1>1, <2>1 DEF CronInv, LifeInv, PassInv, CalmFacts
  <2>3. /\ Buffer(mem', size') /\ SlotIds(mem', size') \subseteq Id
    <3>1. now \in Now /\ issued \ removed \subseteq Id /\ GoodFile(disk, issued \ removed)
      BY DEF CronInv, StoreInv, PassInv
    <3>2. SlotIds(mem', size') \subseteq issued \ removed /\ Buffer(mem', size')
      BY <2>1, <3>1, LoadIsSound
    <3> QED
      BY <3>1, <3>2
  <2>4. ASSUME NEW i \in 1 .. size'
        PROVE  RunsOnce(i)'
    <3>1. mem'[i].id \in Id
      BY <2>3 DEF SlotIds
    <3>2. CASE disk \in {NoFile, Torn}
      <4>1. mem' = <<>> /\ size' = 0
        BY <2>1, <3>2, EmptySeq DEF Loaded
      <4> QED
        BY <4>1
    <3>3. CASE disk \notin {NoFile, Torn}
      <4>1. disk \in Seq(Entry)
        BY <3>3 DEF CronInv, StoreInv, GoodFile
      <4>2. mem' = [k \in 1 .. Len(disk) |-> FromJson(disk[k])]
        BY <2>1, <3>3 DEF Loaded
      <4>3. i \in 1 .. Len(disk)
        <5>1. DOMAIN mem' = 1 .. Len(mem') /\ size' = Len(mem')
          BY <2>1, <2>3, BufferSlots
        <5> QED
          BY <4>2, <5>1
      <4>4. disk[i] \in Entry
        BY <4>1, <4>3, LenProperties, ElementOfSeq
      <4>5. mem'[i].next = NextAfter(disk[i].schedule, now)
        BY <4>2, <4>3 DEF FromJson
      <4>6. NextAfter(disk[i].schedule, now) \in Nat /\ now < NextAfter(disk[i].schedule, now)
        BY <1>1, <4>4, NextAfterIsLater DEF CalmFacts, Entry
      <4>7. ran[mem'[i].id] \in Int /\ ran[mem'[i].id] <= now
        BY <3>1 DEF CalmInv, RanInv
      <4>8. ran[mem'[i].id] < mem'[i].next
        BY <1>1, <4>5, <4>6, <4>7 DEF CalmFacts
      <4> QED
        BY <2>1, <4>8 DEF RunsOnce
    <3> QED
      BY <3>2, <3>3
  <2>5. RanInv'
    BY <2>1 DEF CalmInv, RanInv
  <2>6. disturbed # "now" => PassIsCalm'
    BY <2>1, <2>2, <2>4 DEF CalmInv, PassIsCalm
  <2> QED
    BY <2>1, <2>5, <2>6 DEF CalmInv
<1>4. CASE Start \/ Stop \/ (\E c \in Client : AddJobSave(c))
           \/ \E c \in Client, id \in Id, patch \in Schedule \cup {EveryMinute} :
                CronUpdateRead(c, id, patch)
  <2>1. /\ loop' = loop \/ (loop = "off" /\ loop' = "check")
        /\ UNCHANGED <<now, mem, size, tick, due, old, issued, ran, disturbed>>
    BY <1>4 DEF Start, Stop, AddJobSave, CronUpdateRead, storeVars, loopVars, historyVars, idVars
  <2>2. PassIsCalm => PassIsCalm'
    BY <2>1 DEF PassIsCalm, RunsOnce, Open
  <2> QED
    BY <2>1, <2>2 DEF CalmInv, RanInv
<1>5. CASE Tick \/ UNCHANGED vars
  <2>1. /\ now' = now \/ now' = now + 1
        /\ UNCHANGED <<mem, size, loop, tick, due, old, issued, ran, disturbed>>
    BY <1>5 DEF Tick, vars, storeVars, loopVars, historyVars, idVars
  <2>2. RanInv' /\ tick' <= now'
    BY <1>1, <2>1 DEF CalmInv, CalmFacts, RanInv
  <2>3. PassIsCalm => PassIsCalm'
    BY <2>1 DEF PassIsCalm, RunsOnce, Open
  <2> QED
    BY <2>1, <2>2, <2>3 DEF CalmInv
<1> QED
  BY <1>2, <1>3, <1>4, <1>5

\* A pass that no edit disturbs runs only enabled jobs that are due, and a job
\* runs twice for one due time only in a disturbed pass or the one after it, for
\* any jobs, schedules, clients and crashes (cron_scheduler.cpp:348, 353).
THEOREM DueTimesRunOnce == Spec => NoDoubleRun
<1>1. Init => CalmInv
  <2> SUFFICES ASSUME Init PROVE CalmInv
    OBVIOUS
  <2>1. Len(due) = 0
    BY EmptySeq DEF Init
  <2>2. RanInv /\ tick <= now
    BY DEF Init, RanInv, Never
  <2> QED
    BY <2>1, <2>2 DEF Init, CalmInv, PassIsCalm
<1>2. CronInv /\ CalmInv /\ [Next]_vars => CalmInv'
  BY AddJobCalm, RemoveJobCalm, UpdateCalm, LoopStepCalm, LifeCalm DEF Next, ClientStep
<1>3. CronInv /\ CalmInv /\ [Next]_vars
        => [Handles => /\ disturbed # "now" => Deref.enabled /\ Deref.next <= tick
                       /\ disturbed = "no" => ran[Deref.id] < Deref.next]_vars
  <2> SUFFICES ASSUME CronInv, CalmInv, Handles, disturbed # "now"
               PROVE  /\ Deref.enabled /\ Deref.next <= tick
                      /\ disturbed = "no" => ran[Deref.id] < Deref.next
    BY Zenon
  <2>1. loop = "run"
    BY DEF Handles
  <2>2. PassIsCalm
    BY DEF CalmInv
  <2>3. /\ due[1] \in 1 .. size /\ Deref = mem[due[1]] /\ mem[due[1]].enabled
        /\ mem[due[1]].next <= tick
    BY <2>1, <2>2, CalmSlot
  <2>4. disturbed = "no" => ~ Open(due[1])
    BY <2>1 DEF Open
  <2>5. RunsOnce(due[1])
    BY <2>2, <2>3 DEF PassIsCalm
  <2> QED
    BY <2>3, <2>4, <2>5 DEF RunsOnce
<1> QED
  BY <1>1, <1>2, <1>3, CronInvariant, PTL DEF Spec, NoDoubleRun

=============================================================================
