------------------------- MODULE ConversationProofs -------------------------
(***************************************************************************)
(* Proofs about what an agent keeps of a conversation, and the sub-agents  *)
(* it starts.                                                              *)
(*                                                                         *)
(* Sessions: for any set of keys, spellings, threads and session ids and   *)
(* any limits, no crash, reset or compaction erases a transcript or loses  *)
(* its session, a reply stands below its question, and a request that has  *)
(* its session to itself gets the right context.                           *)
(*                                                                         *)
(* Subagents: for any set of threads, parents and depths, any limits and   *)
(* whichever calls the embedding program makes, the run table, the lists   *)
(* of children and the limit on active children stay consistent.           *)
(*                                                                         *)
(* Context: for any limits and any window, with and without a summary       *)
(* function and however often a request overflows, what the model gets     *)
(* begins with the prompt, is in its order, ends with the newest message   *)
(* and has lost no tool result that is too young.                          *)
(*                                                                         *)
(* Providers: for any histories and any answers, a result is replayed only *)
(* behind its call, what the caller is told does not depend on the chunks  *)
(* an answer is cut into, and the calls of the OpenAI API get distinct ids. *)
(***************************************************************************)
EXTENDS Sessions, Context, Providers, Subagents, FiniteSetTheorems,
        SequenceTheorems, WellFoundedInduction, TLAPS

-----------------------------------------------------------------------------
(* Induction over the natural numbers, in the form the provers can use: the *)
(* induction hypothesis is a set.                                          *)

(* A set of natural numbers that is not empty has a least element.         *)
LEMMA Least ==
  ASSUME NEW T \in SUBSET Nat, T # {}
  PROVE  \E x \in T : \A y \in T : x <= y
<1> DEFINE R == OpToRel(<, Nat)
<1>1. IsWellFoundedOn(R, Nat)
  BY NatLessThanWellFounded
<1>2. \A x, y \in Nat : x < y => <<x, y>> \in R
  BY DEF OpToRel
<1> HIDE DEF R
<1>3. PICK x \in T : \A y \in T : ~ (<<y, x>> \in R)
  BY <1>1, WFMin
<1>4. ASSUME NEW y \in T PROVE x <= y
  <2>1. x \in Nat /\ y \in Nat /\ ~ (y < x)
    BY <1>2, <1>3
  <2> QED
    BY <2>1
<1> QED
  BY <1>4

(* A set that holds 0 and every successor of its elements is all of Nat.   *)
LEMMA Induction ==
  ASSUME NEW S \in SUBSET Nat, 0 \in S, \A n \in S : n + 1 \in S
  PROVE  S = Nat
<1>1. SUFFICES ASSUME Nat \ S # {} PROVE FALSE
  OBVIOUS
<1>2. PICK x \in Nat \ S : \A y \in Nat \ S : x <= y
  BY <1>1, Least
<1>3. x - 1 \in Nat /\ x - 1 \in S
  BY <1>2
<1> QED
  BY <1>2, <1>3

(* The front and the last element of a sequence that is not empty.         *)
LEMMA FrontLast ==
  ASSUME NEW S, NEW q \in Seq(S), q # <<>>
  PROVE  /\ Front(q) \in Seq(S) /\ Len(Front(q)) = Len(q) - 1
         /\ \A i \in 1 .. Len(q) - 1 : Front(q)[i] = q[i]
         /\ Len(q) \in Nat \ {0} /\ Last(q) = q[Len(q)] /\ Last(q) \in S
         /\ Front(q) \o <<Last(q)>> = q
<1>1. Len(q) \in Nat \ {0}
  BY EmptySeq
<1>2. Last(q) = q[Len(q)] /\ Last(q) \in S
  BY <1>1 DEF Last
<1>3. Front(q) = SubSeq(q, 1, Len(q) - 1)
  BY DEF Front
<1>4. /\ Front(q) \in Seq(S) /\ Len(Front(q)) = Len(q) - 1
      /\ \A i \in 1 .. Len(q) - 1 : Front(q)[i] = q[i]
  <2>1. 1 \in Int /\ Len(q) - 1 \in Int /\ \A i \in 1 .. Len(q) - 1 : q[i] \in S
    BY <1>1
  <2>2. /\ SubSeq(q, 1, Len(q) - 1) \in Seq(S)
        /\ Len(SubSeq(q, 1, Len(q) - 1)) = IF 1 <= Len(q) - 1 THEN Len(q) - 1 - 1 + 1 ELSE 0
        /\ \A i \in 1 .. Len(q) - 1 - 1 + 1 : SubSeq(q, 1, Len(q) - 1)[i] = q[1 + i - 1]
    BY <2>1, SubSeqProperties
  <2>3. Len(q) - 1 - 1 + 1 = Len(q) - 1 /\ \A i \in 1 .. Len(q) - 1 : 1 + i - 1 = i
    BY <1>1
  <2> QED
    BY <1>1, <1>3, <2>2, <2>3
<1>5. Front(q) \o <<Last(q)>> = q
  <2>1. <<Last(q)>> \in Seq(S) /\ Len(<<Last(q)>>) = 1 /\ <<Last(q)>>[1] = Last(q)
    BY <1>2
  <2> DEFINE r == Front(q) \o <<Last(q)>>
  <2>2. r \in Seq(S) /\ Len(r) = Len(q)
    BY <1>1, <1>4, <2>1, ConcatProperties
  <2>3. \A i \in 1 .. Len(q) : r[i] = q[i]
    BY <1>1, <1>2, <1>4, <2>1, ConcatProperties
  <2> QED
    BY <2>2, <2>3, SeqEqual
<1> QED
  BY <1>1, <1>2, <1>4, <1>5

-----------------------------------------------------------------------------
(* The messages of a transcript *)

FileLine == SUBSET (Msg \cup {Part})

(* GetHistory after each line of q.                                        *)
IsKept(u, q) ==
  u = [i \in 0 .. Len(q) |->
         IF i = 0 THEN <<>>
         ELSE IF Parses(q[i])
              THEN Append(u[i - 1], CHOOSE m \in q[i] : TRUE)
              ELSE u[i - 1]]

(* One more line.                                                          *)
Read(h, line) ==
  IF Parses(line) THEN Append(h, CHOOSE m \in line : TRUE) ELSE h

(* The function that GetHistory computes, line by line.                    *)
LEMMA KeptStep ==
  ASSUME NEW q \in Seq(FileLine), NEW u, IsKept(u, q)
  PROVE  /\ u[0] = <<>>
         /\ \A i \in 1 .. Len(q) : u[i] = Read(u[i - 1], q[i])
<1> DEFINE G(i) == IF i = 0 THEN <<>> ELSE Read(u[i - 1], q[i])
<1>0. Len(q) \in Nat
  BY LenProperties
<1>1. u = [i \in 0 .. Len(q) |-> G(i)]
  BY DEF IsKept, Read
<1>2. \A i \in 0 .. Len(q) : u[i] = G(i)
  <2> HIDE DEF G
  <2> QED
    BY <1>1
<1> QED
  BY <1>0, <1>2

(* The function that GetHistory computes exists...                         *)
LEMMA KeptExists ==
  ASSUME NEW q \in Seq(FileLine)
  PROVE  \E u : IsKept(u, q)
<1> DEFINE Upto(u, n) ==
      u = [i \in 0 .. n |-> IF i = 0 THEN <<>> ELSE Read(u[i - 1], q[i])]
    S == {n \in Nat : \E u : Upto(u, n)}
<1>1. 0 \in S
  <2>1. Upto([i \in 0 .. 0 |-> <<>>], 0)
    OBVIOUS
  <2> QED
    BY <2>1
<1>2. ASSUME NEW n \in S PROVE n + 1 \in S
  <2>1. PICK u : Upto(u, n)
    OBVIOUS
  <2> DEFINE v == [i \in 0 .. n + 1 |-> IF i = n + 1 THEN Read(u[n], q[n + 1]) ELSE u[i]]
  <2>2. ASSUME NEW i \in 0 .. n + 1
        PROVE  v[i] = IF i = 0 THEN <<>> ELSE Read(v[i - 1], q[i])
    <3>1. CASE i = n + 1
      <4>1. v[i - 1] = u[n]
        BY <3>1
      <4> QED
        BY <3>1, <4>1
    <3>2. CASE i \in 1 .. n
      <4>1. v[i - 1] = u[i - 1] /\ u[i] = Read(u[i - 1], q[i])
        BY <2>1, <3>2
      <4> QED
        BY <3>2, <4>1
    <3>3. CASE i = 0
      BY <2>1, <3>3
    <3> QED
      BY <3>1, <3>2, <3>3
  <2>3. Upto(v, n + 1)
    BY <2>2
  <2> HIDE DEF v, Upto
  <2>4. \E w : Upto(w, n + 1)
    BY <2>3
  <2>5. n \in Nat /\ n + 1 \in Nat
    OBVIOUS
  <2> QED
    BY <2>4, <2>5
<1> HIDE DEF S
<1>3. S = Nat
  <2>1. S \in SUBSET Nat
    BY DEF S
  <2> QED
    BY <1>1, <1>2, <2>1, Induction
<1>4. PICK u : Upto(u, Len(q))
  <2>1. Len(q) \in S
    BY <1>3
  <2> QED
    BY <2>1 DEF S
<1> QED
  BY <1>4 DEF IsKept, Read

(* ... and depends on the lines up to where it looks only.                 *)
LEMMA KeptPrefix ==
  ASSUME NEW q \in Seq(FileLine), NEW r \in Seq(FileLine), NEW u, NEW v,
         IsKept(u, q), IsKept(v, r), NEW n \in Nat, n <= Len(q), n <= Len(r),
         \A i \in 1 .. n : q[i] = r[i]
  PROVE  u[n] = v[n]
<1> DEFINE S == {i \in Nat : i <= n => u[i] = v[i]}
<1>1. 0 \in S
  BY KeptStep
<1>2. ASSUME NEW i \in S PROVE i + 1 \in S
  <2>1. SUFFICES ASSUME i + 1 <= n PROVE u[i + 1] = v[i + 1]
    OBVIOUS
  <2>2. /\ i + 1 \in 1 .. Len(q) /\ i + 1 \in 1 .. Len(r) /\ i + 1 \in 1 .. n
        /\ (i + 1) - 1 = i /\ u[i] = v[i]
    BY <2>1
  <2>3. u[i + 1] = Read(u[i], q[i + 1]) /\ v[i + 1] = Read(v[i], r[i + 1])
    BY <2>2, KeptStep
  <2> QED
    BY <2>2, <2>3
<1> HIDE DEF S
<1>3. S = Nat
  <2>1. S \in SUBSET Nat
    BY DEF S
  <2> QED
    BY <1>1, <1>2, <2>1, Induction
<1> QED
  BY <1>3 DEF S

(* What GetHistory returns is what it has kept after the last line.        *)
LEMMA MessagesKept ==
  ASSUME NEW f \in Transcript
  PROVE  \E u : IsKept(u, f.lines) /\ Messages(f) = u[Len(f.lines)]
<1>1. f.lines \in Seq(FileLine)
  BY DEF Transcript, FileLine
<1>2. PICK u : IsKept(u, f.lines)
  BY <1>1, KeptExists
<1> DEFINE v == CHOOSE v : IsKept(v, f.lines)
<1>3. IsKept(v, f.lines)
  BY <1>2
<1>4. Messages(f) = v[Len(f.lines)]
  BY DEF Messages, IsKept
<1> QED
  BY <1>3, <1>4

(* GetHistory after one more line.                                         *)
LEMMA MessagesAppend ==
  ASSUME NEW f \in Transcript, NEW g \in Transcript, NEW line \in FileLine,
         g.lines = Append(f.lines, line)
  PROVE  Messages(g) = Read(Messages(f), line)
<1>1. f.lines \in Seq(FileLine) /\ g.lines \in Seq(FileLine)
  BY DEF Transcript, FileLine
<1>2. PICK u : IsKept(u, f.lines) /\ Messages(f) = u[Len(f.lines)]
  BY MessagesKept
<1>3. PICK v : IsKept(v, g.lines) /\ Messages(g) = v[Len(g.lines)]
  BY MessagesKept
<1> DEFINE n == Len(f.lines)
<1>4. /\ n \in Nat /\ Len(g.lines) = n + 1 /\ g.lines[n + 1] = line
      /\ \A i \in 1 .. n : f.lines[i] = g.lines[i]
  BY <1>1, AppendProperties
<1> HIDE DEF n
<1>5. u[n] = v[n]
  <2>1. n <= Len(f.lines) /\ n <= Len(g.lines)
    BY <1>4 DEF n
  <2>2. PICK q \in Seq(FileLine), r \in Seq(FileLine) : q = f.lines /\ r = g.lines
    BY <1>1
  <2>3. /\ IsKept(u, q) /\ IsKept(v, r) /\ n \in Nat /\ n <= Len(q) /\ n <= Len(r)
        /\ \A i \in 1 .. n : q[i] = r[i]
    BY <1>2, <1>3, <1>4, <2>1, <2>2 DEF n
  <2> QED
    BY <2>3, KeptPrefix
<1>6. v[n + 1] = Read(v[n], line)
  <2>1. n + 1 \in 1 .. Len(g.lines) /\ (n + 1) - 1 = n
    BY <1>4
  <2>2. v[n + 1] = Read(v[(n + 1) - 1], g.lines[n + 1])
    BY <1>1, <1>3, <2>1, KeptStep
  <2> QED
    BY <1>4, <2>1, <2>2
<1> QED
  BY <1>2, <1>3, <1>4, <1>5, <1>6 DEF n

(* An empty transcript has no history.                                     *)
LEMMA MessagesNone == Messages(NoFile) = <<>>
<1>1. NoFile \in Transcript /\ NoFile.lines = <<>> /\ <<>> \in Seq(FileLine) /\ Len(<<>>) = 0
  BY EmptySeq DEF NoFile, Transcript
<1> QED
  BY <1>1, MessagesKept, KeptStep

(* A line that parses is one whole message.                                *)
LEMMA ParsedLine ==
  ASSUME NEW line \in FileLine, Parses(line)
  PROVE  \E m \in Msg : line = {m} /\ m = CHOOSE x \in line : TRUE
<1>1. IsFiniteSet(line)
  <2>1. Msg \cup {Part} = 0 .. MaxMsgs
    BY SessionsAssumption DEF Msg, Part
  <2>2. IsFiniteSet(0 .. MaxMsgs)
    BY FS_Interval, SessionsAssumption
  <2> QED
    BY <2>1, <2>2, FS_Subset DEF FileLine
<1>2. PICK m : line = {m}
  BY <1>1, FS_Singleton DEF Parses
<1> QED
  BY <1>2 DEF FileLine, Parses

(* A message alone on its line can be parsed, and is not a part.           *)
LEMMA SingleLine ==
  ASSUME NEW m \in Msg
  PROVE  /\ {m} \in FileLine /\ Parses({m}) /\ m = CHOOSE x \in {m} : TRUE
         /\ m \in Nat /\ m >= 1 /\ m # Part
<1>1. m \in Nat /\ m >= 1 /\ m # Part
  BY SessionsAssumption DEF Msg, Part
<1>2. Cardinality({m}) = 1
  BY FS_Singleton
<1> QED
  BY <1>1, <1>2 DEF Parses, FileLine

(* What is in a transcript.                                                *)
LEMMA InFileIs ==
  ASSUME NEW f \in Transcript
  PROVE  /\ InFile(f) \in SUBSET Msg
         /\ \A m : m \in InFile(f) <=>
              m # Part /\ \E i \in 1 .. Len(f.lines) : m \in f.lines[i]
         /\ f.lines \in Seq(FileLine) /\ Len(f.lines) \in Nat /\ f.cut \in BOOLEAN
<1>1. f.lines \in Seq(FileLine) /\ Len(f.lines) \in Nat /\ f.cut \in BOOLEAN
  BY LenProperties DEF Transcript, FileLine
<1>2. \A i \in 1 .. Len(f.lines) : f.lines[i] \in FileLine
  BY <1>1
<1>3. \A m : m \in InFile(f) <=>
        m # Part /\ \E i \in 1 .. Len(f.lines) : m \in f.lines[i]
  <2> DEFINE L == {f.lines[i] : i \in 1 .. Len(f.lines)}
  <2>1. InFile(f) = (UNION L) \ {Part}
    BY DEF InFile
  <2>2. \A x : x \in L <=> \E i \in 1 .. Len(f.lines) : x = f.lines[i]
    OBVIOUS
  <2> HIDE DEF L
  <2>3. \A m : m \in UNION L <=> \E x \in L : m \in x
    OBVIOUS
  <2> SUFFICES ASSUME NEW m
               PROVE  m \in InFile(f) <=>
                        m # Part /\ \E i \in 1 .. Len(f.lines) : m \in f.lines[i]
    OBVIOUS
  <2>4. m \in UNION L <=> \E i \in 1 .. Len(f.lines) : m \in f.lines[i]
    BY <2>2, <2>3
  <2> QED
    BY <2>1, <2>4
<1>4. InFile(f) \in SUBSET Msg
  BY <1>2, <1>3 DEF FileLine
<1> QED
  BY <1>1, <1>3, <1>4

(* Every message of the history is in the transcript.                      *)
LEMMA MessagesType ==
  ASSUME NEW f \in Transcript
  PROVE  /\ Messages(f) \in Seq(Msg)
         /\ \A i \in 1 .. Len(Messages(f)) : Messages(f)[i] \in InFile(f)
<1>1. PICK u : IsKept(u, f.lines) /\ Messages(f) = u[Len(f.lines)]
  BY MessagesKept
<1>2. f.lines \in Seq(FileLine) /\ Len(f.lines) \in Nat
  BY InFileIs
<1> DEFINE I == InFile(f)
           S == {n \in Nat : n <= Len(f.lines) => u[n] \in Seq(I)}
<1>3. 0 \in S
  BY <1>1, <1>2, KeptStep, EmptySeq
<1>4. ASSUME NEW n \in S PROVE n + 1 \in S
  <2>1. SUFFICES ASSUME n + 1 <= Len(f.lines) PROVE u[n + 1] \in Seq(I)
    OBVIOUS
  <2>2. n + 1 \in 1 .. Len(f.lines) /\ (n + 1) - 1 = n /\ u[n] \in Seq(I)
    BY <1>2, <2>1
  <2> DEFINE line == f.lines[n + 1]
  <2>3. u[n + 1] = Read(u[n], line) /\ line \in FileLine
    BY <1>1, <1>2, <2>2, KeptStep
  <2>4. CASE Parses(line)
    <3>1. PICK m \in Msg : line = {m} /\ m = CHOOSE x \in line : TRUE
      BY <2>3, <2>4, ParsedLine
    <3>2. m \in I
      BY <2>2, <3>1, SingleLine, InFileIs
    <3>3. u[n + 1] = Append(u[n], m)
      BY <2>3, <2>4, <3>1 DEF Read
    <3> QED
      BY <2>2, <3>2, <3>3, AppendProperties
  <2>5. CASE ~Parses(line)
    BY <2>2, <2>3, <2>5 DEF Read
  <2> QED
    BY <2>4, <2>5
<1> HIDE DEF S
<1>5. S = Nat
  <2>1. S \in SUBSET Nat
    BY DEF S
  <2> QED
    BY <1>3, <1>4, <2>1, Induction
<1>6. Messages(f) \in Seq(I)
  BY <1>1, <1>2, <1>5 DEF S
<1>7. I \in SUBSET Msg
  BY InFileIs
<1> HIDE DEF I
<1>8. Messages(f) \in Seq(Msg)
  BY <1>6, <1>7, SeqMonotonic
<1> QED
  BY <1>6, <1>8, ElementOfSeq DEF I

(* The transcript after a write: a line of its own, or the rest of the line *)
(* that was cut off.                                                       *)
LEMMA WrittenIs ==
  ASSUME NEW f \in Transcript, f.cut => f.lines # <<>>,
         NEW p \in Msg \cup {Part}, NEW w \in BOOLEAN,
         NEW g, g = Written(f, p, w)
  PROVE  /\ g \in Transcript /\ g.cut = ~w /\ g.lines # <<>> /\ g # NoFile
         /\ Len(g.lines) \in Nat \ {0} /\ Last(g.lines) = g.lines[Len(g.lines)]
         /\ f.cut => /\ Len(g.lines) = Len(f.lines)
                     /\ g.lines[Len(g.lines)] = Last(f.lines) \cup {p}
                     /\ Last(f.lines) = f.lines[Len(f.lines)]
                     /\ g.lines = Append(Front(f.lines), Last(f.lines) \cup {p})
         /\ ~f.cut => /\ Len(g.lines) = Len(f.lines) + 1
                      /\ g.lines[Len(g.lines)] = {p}
                      /\ g.lines = Append(f.lines, {p})
         /\ \A i \in 1 .. Len(g.lines) - 1 :
              i \in 1 .. Len(f.lines) /\ g.lines[i] = f.lines[i]
<1> DEFINE q == f.lines
<1>1. /\ q \in Seq(FileLine) /\ Len(q) \in Nat /\ f.cut \in BOOLEAN /\ {p} \in FileLine
  BY InFileIs DEF FileLine
<1>2. CASE f.cut
  <2>1. /\ Front(q) \in Seq(FileLine) /\ Len(Front(q)) = Len(q) - 1
        /\ \A i \in 1 .. Len(q) - 1 : Front(q)[i] = q[i]
        /\ Len(q) \in Nat \ {0} /\ Last(q) = q[Len(q)] /\ Last(q) \in FileLine
    BY <1>1, <1>2, FrontLast
  <2> DEFINE e == Last(q) \cup {p}
             r == Append(Front(q), e)
  <2>2. e \in FileLine
    BY <2>1 DEF FileLine
  <2>3. /\ r \in Seq(FileLine) /\ Len(r) = Len(q) /\ r[Len(q)] = e
        /\ \A i \in 1 .. Len(q) - 1 : r[i] = q[i]
    <3> HIDE DEF e, q
    <3> QED
      BY <2>1, <2>2, AppendProperties
  <2>4. r = Front(q) \o <<e>>
    <3> HIDE DEF e, q
    <3> QED
      BY <2>1, <2>2, AppendIsConcat
  <2>5. g = [lines |-> r, cut |-> ~w]
    BY <1>2, <2>4 DEF Written
  <2> HIDE DEF r, e
  <2>6. g.lines = r /\ g.cut = ~w
    BY <2>5
  <2>7. g \in Transcript
    BY <2>3, <2>5 DEF Transcript, FileLine
  <2>8. r # <<>> /\ Last(r) = r[Len(r)]
    BY <2>1, <2>3, EmptySeq DEF Last
  <2>9. g # NoFile
    BY <2>6, <2>8 DEF NoFile
  <2> QED
    BY <1>1, <1>2, <2>1, <2>3, <2>6, <2>7, <2>8, <2>9 DEF e, r
<1>3. CASE ~f.cut
  <2> DEFINE r == Append(q, {p})
  <2>1. /\ r \in Seq(FileLine) /\ Len(r) = Len(q) + 1 /\ r[Len(q) + 1] = {p}
        /\ \A i \in 1 .. Len(q) : r[i] = q[i]
    BY <1>1, AppendProperties
  <2>2. g = [lines |-> r, cut |-> ~w]
    BY <1>3 DEF Written
  <2> HIDE DEF r
  <2>3. g.lines = r /\ g.cut = ~w
    BY <2>2
  <2>4. g \in Transcript
    BY <2>1, <2>2 DEF Transcript, FileLine
  <2>5. r # <<>> /\ Last(r) = r[Len(r)]
    BY <1>1, <2>1, EmptySeq DEF Last
  <2>6. g # NoFile
    BY <2>3, <2>5 DEF NoFile
  <2> QED
    BY <1>1, <1>3, <2>1, <2>3, <2>4, <2>5, <2>6 DEF r
<1> QED
  BY <1>1, <1>2, <1>3

(* A write adds its piece to the transcript and removes nothing.           *)
LEMMA WrittenHolds ==
  ASSUME NEW f \in Transcript, f.cut => f.lines # <<>>,
         NEW p \in Msg \cup {Part}, NEW w \in BOOLEAN,
         NEW g, g = Written(f, p, w)
  PROVE  InFile(g) = InFile(f) \cup ({p} \ {Part})
<1>1. /\ g \in Transcript /\ f.lines \in Seq(FileLine) /\ Len(f.lines) \in Nat
      /\ f.cut \in BOOLEAN /\ Len(g.lines) \in Nat \ {0}
      /\ f.cut => Len(g.lines) = Len(f.lines)
                  /\ g.lines[Len(g.lines)] = f.lines[Len(f.lines)] \cup {p}
      /\ ~f.cut => Len(g.lines) = Len(f.lines) + 1 /\ g.lines[Len(g.lines)] = {p}
      /\ \A i \in 1 .. Len(g.lines) - 1 :
           i \in 1 .. Len(f.lines) /\ g.lines[i] = f.lines[i]
  BY WrittenIs, InFileIs
<1> DEFINE n == Len(g.lines)
<1>2. ASSUME NEW m
      PROVE  (\E i \in 1 .. n : m \in g.lines[i])
               <=> m = p \/ \E i \in 1 .. Len(f.lines) : m \in f.lines[i]
  <2>1. ASSUME NEW i \in 1 .. n, m \in g.lines[i]
        PROVE  m = p \/ \E j \in 1 .. Len(f.lines) : m \in f.lines[j]
    <3>1. i = n \/ i \in 1 .. n - 1
      BY <1>1
    <3>2. f.cut => n \in 1 .. Len(f.lines)
      BY <1>1
    <3> QED
      BY <1>1, <2>1, <3>1, <3>2, SMTT(60)
  <2>2. p \in g.lines[n] /\ n \in 1 .. n
    BY <1>1
  <2>3. ASSUME NEW i \in 1 .. Len(f.lines), m \in f.lines[i]
        PROVE  \E j \in 1 .. n : m \in g.lines[j]
    <3>1. i \in 1 .. n /\ (i \in 1 .. n - 1 \/ (f.cut /\ i = n /\ n = Len(f.lines)))
      BY <1>1
    <3> QED
      BY <1>1, <2>3, <3>1
  <2> QED
    BY <2>1, <2>2, <2>3
<1>3. \A m : m \in InFile(f) <=> m # Part /\ \E i \in 1 .. Len(f.lines) : m \in f.lines[i]
  BY InFileIs
<1>4. \A m : m \in InFile(g) <=> m # Part /\ \E i \in 1 .. n : m \in g.lines[i]
  BY <1>1, InFileIs
<1> QED
  BY <1>2, <1>3, <1>4

(* The messages of f that cannot be read.                                  *)
Garbled(f) ==
  {m \in Msg : \E i \in 1 .. Len(f.lines) : m \in f.lines[i] /\ ~Parses(f.lines[i])}

(* A write garbles its own message at most, and that one only if it ends a *)
(* line that was cut off, or is no message itself.                         *)
LEMMA WrittenGarbles ==
  ASSUME NEW f \in Transcript, f.cut => f.lines # <<>>,
         NEW p \in Msg \cup {Part}, NEW w \in BOOLEAN,
         NEW g, g = Written(f, p, w), NEW m \in Garbled(g)
  PROVE  \/ m \in Garbled(f)
         \/ f.cut /\ (m = p \/ m \in Last(f.lines))
         \/ ~f.cut /\ m = p /\ ~Parses({p})
<1>1. /\ Len(g.lines) \in Nat \ {0} /\ Len(f.lines) \in Nat
      /\ f.cut => /\ Len(g.lines) = Len(f.lines)
                  /\ g.lines[Len(g.lines)] = Last(f.lines) \cup {p}
      /\ ~f.cut => /\ Len(g.lines) = Len(f.lines) + 1
                   /\ g.lines[Len(g.lines)] = {p}
      /\ \A i \in 1 .. Len(g.lines) - 1 :
           i \in 1 .. Len(f.lines) /\ g.lines[i] = f.lines[i]
  <2>1. Len(f.lines) \in Nat
    BY InFileIs
  <2> QED
    BY <2>1, WrittenIs, SMTT(60)
<1>2. PICK i \in 1 .. Len(g.lines) : m \in g.lines[i] /\ ~Parses(g.lines[i])
  BY DEF Garbled
<1>3. i = Len(g.lines) \/ i \in 1 .. Len(g.lines) - 1
  BY <1>1
<1>4. CASE i \in 1 .. Len(g.lines) - 1
  BY <1>1, <1>2, <1>4 DEF Garbled
<1>5. CASE i = Len(g.lines)
  BY <1>1, <1>2, <1>5
<1> QED
  BY <1>3, <1>4, <1>5

(* Where in a transcript the messages are after a write.                   *)
LEMMA WrittenLines ==
  ASSUME NEW f \in Transcript, f.cut => f.lines # <<>>,
         NEW p \in Msg \cup {Part}, NEW w \in BOOLEAN,
         NEW g, g = Written(f, p, w), NEW i \in 1 .. Len(g.lines), NEW m \in g.lines[i]
  PROVE  /\ \/ i \in 1 .. Len(f.lines) /\ m \in f.lines[i]
            \/ m = p /\ i = Len(g.lines)
         /\ \A j \in 1 .. i - 1 : j \in 1 .. Len(f.lines) /\ g.lines[j] = f.lines[j]
         /\ ~f.cut => Len(g.lines) = Len(f.lines) + 1
         /\ Len(g.lines) \in Nat /\ Len(f.lines) \in Nat
<1>1. /\ Len(g.lines) \in Nat \ {0} /\ Len(f.lines) \in Nat
      /\ f.cut => /\ Len(g.lines) = Len(f.lines)
                  /\ Last(f.lines) = f.lines[Len(f.lines)]
                  /\ g.lines[Len(g.lines)] = Last(f.lines) \cup {p}
      /\ ~f.cut => /\ Len(g.lines) = Len(f.lines) + 1
                   /\ g.lines[Len(g.lines)] = {p}
      /\ \A j \in 1 .. Len(g.lines) - 1 :
           j \in 1 .. Len(f.lines) /\ g.lines[j] = f.lines[j]
      /\ f.cut \in BOOLEAN
  <2>1. Len(f.lines) \in Nat /\ f.cut \in BOOLEAN
    BY InFileIs
  <2>2. /\ Len(g.lines) \in Nat \ {0}
        /\ \A j \in 1 .. Len(g.lines) - 1 :
             j \in 1 .. Len(f.lines) /\ g.lines[j] = f.lines[j]
    BY WrittenIs, SMTT(60)
  <2>3. /\ f.cut => /\ Len(g.lines) = Len(f.lines)
                    /\ Last(f.lines) = f.lines[Len(f.lines)]
                    /\ g.lines[Len(g.lines)] = Last(f.lines) \cup {p}
        /\ ~f.cut => /\ Len(g.lines) = Len(f.lines) + 1
                     /\ g.lines[Len(g.lines)] = {p}
    BY WrittenIs, SMTT(60)
  <2> QED
    BY <2>1, <2>2, <2>3
<1>2. i = Len(g.lines) \/ i \in 1 .. Len(g.lines) - 1
  BY <1>1
<1>3. \A j \in 1 .. i - 1 : j \in 1 .. Len(g.lines) - 1
  BY <1>1
<1>4. \/ i \in 1 .. Len(f.lines) /\ m \in f.lines[i]
      \/ m = p /\ i = Len(g.lines)
  <2>1. CASE i \in 1 .. Len(g.lines) - 1
    BY <1>1, <2>1
  <2>2. CASE i = Len(g.lines) /\ f.cut
    BY <1>1, <2>2
  <2>3. CASE i = Len(g.lines) /\ ~f.cut
    BY <1>1, <2>3
  <2> QED
    BY <1>2, <2>1, <2>2, <2>3
<1> QED
  BY <1>1, <1>3, <1>4

(* g is the transcript f after piece p was written: all that the proofs    *)
(* use of it.                                                              *)
Wrote(f, g, p) ==
  /\ f \in Transcript /\ g \in Transcript /\ f.cut \in BOOLEAN
  /\ Len(f.lines) \in Nat /\ Len(g.lines) \in Nat /\ g.lines # <<>>
  /\ f.cut => Last(g.lines) = Last(f.lines) \cup {p}
  /\ ~f.cut => Last(g.lines) = {p} /\ Len(g.lines) = Len(f.lines) + 1
  /\ InFile(g) = InFile(f) \cup ({p} \ {Part})
  /\ \A m \in Garbled(g) : \/ m \in Garbled(f)
                           \/ f.cut /\ (m = p \/ m \in Last(f.lines))
                           \/ ~f.cut /\ m = p /\ ~Parses({p})
  /\ \A i \in 1 .. Len(g.lines) : \A m \in g.lines[i] :
       /\ \/ i \in 1 .. Len(f.lines) /\ m \in f.lines[i]
          \/ m = p /\ i = Len(g.lines)
       /\ \A j \in 1 .. i - 1 : j \in 1 .. Len(f.lines) /\ g.lines[j] = f.lines[j]

(* Written does that, and ends the line if the piece is a whole message.   *)
LEMMA WroteIs ==
  ASSUME NEW f \in Transcript, f.cut => f.lines # <<>>,
         NEW p \in Msg \cup {Part}, NEW w \in BOOLEAN,
         NEW g, g = Written(f, p, w)
  PROVE  Wrote(f, g, p) /\ (w => ~g.cut)
<1>1. /\ g \in Transcript /\ Len(f.lines) \in Nat /\ f.cut \in BOOLEAN
      /\ g.cut = ~w /\ g.lines # <<>> /\ Len(g.lines) \in Nat
  BY WrittenIs, InFileIs
<1>2. /\ f.cut => Last(g.lines) = Last(f.lines) \cup {p}
      /\ ~f.cut => Last(g.lines) = {p} /\ Len(g.lines) = Len(f.lines) + 1
  BY WrittenIs
<1>3. InFile(g) = InFile(f) \cup ({p} \ {Part})
  BY WrittenHolds
<1>4. \A m \in Garbled(g) : \/ m \in Garbled(f)
                            \/ f.cut /\ (m = p \/ m \in Last(f.lines))
                            \/ ~f.cut /\ m = p /\ ~Parses({p})
  BY WrittenGarbles
<1>5. \A i \in 1 .. Len(g.lines) : \A m \in g.lines[i] :
        /\ \/ i \in 1 .. Len(f.lines) /\ m \in f.lines[i]
           \/ m = p /\ i = Len(g.lines)
        /\ \A j \in 1 .. i - 1 : j \in 1 .. Len(f.lines) /\ g.lines[j] = f.lines[j]
  BY WrittenLines
<1> QED
  BY <1>1, <1>2, <1>3, <1>4, <1>5 DEF Wrote

(* A new message is the last one of the history if it is there at all.     *)
LEMMA NewIsLast ==
  ASSUME NEW f \in Transcript, f.cut => f.lines # <<>>,
         NEW m \in Msg, m \notin InFile(f), Contains(Messages(Written(f, m, TRUE)), m)
  PROVE  Last(Messages(Written(f, m, TRUE))) = m
<1>0. PICK g : g = Written(f, m, TRUE)
  OBVIOUS
<1>1. /\ g \in Transcript /\ f.lines \in Seq(FileLine) /\ Len(f.lines) \in Nat
      /\ f.cut \in BOOLEAN
      /\ f.cut => g.lines = Append(Front(f.lines), Last(f.lines) \cup {m})
      /\ ~f.cut => g.lines = Append(f.lines, {m})
  <2>1. PICK p \in Msg \cup {Part}, w \in BOOLEAN : p = m /\ g = Written(f, p, w)
    BY <1>0
  <2>2. /\ g \in Transcript
        /\ f.cut => g.lines = Append(Front(f.lines), Last(f.lines) \cup {m})
        /\ ~f.cut => g.lines = Append(f.lines, {m})
    BY <2>1, WrittenIs
  <2> QED
    BY <2>2, InFileIs
<1>2. Contains(Messages(g), m)
  BY <1>0
<1>3. ASSUME NEW h \in Transcript, NEW line \in FileLine, g.lines = Append(h.lines, line),
             m \in line, m \notin InFile(h)
      PROVE  Last(Messages(g)) = m
  <2>1. Messages(g) = Read(Messages(h), line)
    BY <1>1, <1>3, MessagesAppend
  <2>2. /\ Messages(h) \in Seq(Msg)
        /\ \A i \in 1 .. Len(Messages(h)) : Messages(h)[i] # m
    BY <1>3, MessagesType
  <2>3. Parses(line)
    BY <1>2, <2>1, <2>2 DEF Read, Contains
  <2>4. PICK x \in Msg : line = {x} /\ x = CHOOSE y \in line : TRUE
    BY <2>3, ParsedLine
  <2>5. Messages(g) = Append(Messages(h), m)
    BY <1>3, <2>1, <2>3, <2>4 DEF Read
  <2>6. /\ Len(Messages(g)) = Len(Messages(h)) + 1
        /\ Messages(g)[Len(Messages(h)) + 1] = m
    BY <2>2, <2>5, AppendProperties
  <2> QED
    BY <2>6 DEF Last
<1>4. CASE f.cut
  <2>1. /\ Front(f.lines) \in Seq(FileLine) /\ Len(Front(f.lines)) = Len(f.lines) - 1
        /\ \A i \in 1 .. Len(f.lines) - 1 : Front(f.lines)[i] = f.lines[i]
        /\ Last(f.lines) \in FileLine
    BY <1>1, <1>4, FrontLast
  <2> DEFINE h == [lines |-> Front(f.lines), cut |-> FALSE]
             line == Last(f.lines) \cup {m}
  <2>2. h \in Transcript /\ h.lines = Front(f.lines) /\ line \in FileLine /\ m \in line
    BY <2>1 DEF Transcript, FileLine
  <2> HIDE DEF h
  <2>3. m \notin InFile(h)
    <3>1. \A i \in 1 .. Len(f.lines) : m # Part => m \notin f.lines[i]
      BY InFileIs
    <3>2. \A i \in 1 .. Len(h.lines) : i \in 1 .. Len(f.lines) - 1 /\ h.lines[i] = f.lines[i]
      BY <1>1, <2>1, <2>2
    <3>3. m \in InFile(h) => m # Part /\ \E i \in 1 .. Len(h.lines) : m \in h.lines[i]
      BY <2>2, InFileIs
    <3>4. \A i \in 1 .. Len(f.lines) - 1 : i \in 1 .. Len(f.lines)
      BY <1>1
    <3> QED
      BY <3>1, <3>2, <3>3, <3>4
  <2> HIDE DEF line
  <2>4. g.lines = Append(h.lines, line)
    BY <1>1, <1>4, <2>2 DEF line
  <2>5. Last(Messages(g)) = m
    BY <1>3, <2>2, <2>3, <2>4
  <2> QED
    BY <1>0, <2>5
<1>5. CASE ~f.cut
  <2>1. {m} \in FileLine /\ m \in {m}
    BY DEF FileLine
  <2>2. g.lines = Append(f.lines, {m})
    BY <1>1, <1>5
  <2>3. Last(Messages(g)) = m
    BY <1>3, <2>1, <2>2
  <2> QED
    BY <1>0, <2>3
<1> QED
  BY <1>0, <1>1, <1>4, <1>5

-----------------------------------------------------------------------------
(* The invariant *)

(* Sessions on its own.                                                    *)
SessionsSpec == SessionsInit /\ [][SessionsNext]_sessionVars

KeyOf(t) == Normal[raw[t]]
FileOf(k) == file[store[k].id]

(* A thread that serves nobody names no session; a compaction under way    *)
(* has messages left, and so has a thread that appends replies.            *)
ThreadsOK ==
  \A t \in Requester :
    /\ ~up => pc[t] = "idle"
    /\ pc[t] # "idle" => raw[t] \in Spelling
    /\ pc[t] = "idle" => raw[t] = NoKey
    /\ pc[t] \in {"compact_reset", "compact_append"} => seen[t] # <<>>
    /\ pc[t] = "reply" => todo[t] >= 1

(* sessions.json is what store_ is, once it is saved; its ids were given   *)
(* out, each to one key.                                                   *)
StoreOK ==
  /\ \A k \in Key : store[k] # Absent => store[k].id \in ids
  /\ storeFile # TornStore =>
       /\ \A k \in Key : storeFile[k] # Absent => storeFile[k].id \in ids
       /\ \A k, l \in Key :
            storeFile[k] # Absent /\ storeFile[l] # Absent
              /\ storeFile[k].id = storeFile[l].id => k = l
  /\ up /\ ~saving /\ ~hist.wiped => storeFile = store

(* Whichever of the two a restart finds names every transcript.            *)
Names(names, s) == \E k \in Key : names[k] # Absent /\ names[k].id = s

FilesNamed ==
  ~hist.wiped =>
    /\ storeFile # TornStore =>
         \A s \in Sid : file[s] # NoFile => Names(storeFile, s)
    /\ up => storeFile # TornStore /\ \A s \in Sid : file[s] # NoFile => Names(store, s)

(* Messages are numbered in the order they are sent.                       *)
Numbered ==
  /\ \A s \in Sid : \A m \in InFile(file[s]) : m <= sent
  /\ \A m \in hist.appended : m <= sent
  /\ \A m \in Msg : replyTo[m] # 0 => m <= sent
  /\ \A t \in Requester : ask[t] <= sent /\ \A i \in 1 .. Len(seen[t]) : seen[t][i] <= sent

(* What /compact is about to append again was archived or deleted, or is    *)
(* still to be, by its own reset.                                          *)
Gone == archived \cup hist.deleted

Copied ==
  \A t \in Requester : pc[t] \in {"compact_reset", "compact_append"} =>
    \A i \in 1 .. Len(seen[t]) :
      \/ seen[t][i] \in Gone
      \/ /\ pc[t] = "compact_reset" /\ store[KeyOf(t)] # Absent
         /\ seen[t][i] \in InFile(FileOf(KeyOf(t)))

(* What a crash in AppendMessage may leave: a part, a new message, or a     *)
(* copy of one.                                                            *)
CutPiece(p) ==
  \/ p = Part
  \/ p \in Msg /\ p = sent + 1 /\ sent' = sent + 1
  \/ p \in Msg /\ p <= sent /\ p \in Gone /\ p \in hist'.loose

(* A line that a crash cut off holds no message that the transcripts owe;  *)
(* each such line was counted, and so was each unreadable message.         *)
CutFiles == {s \in Sid : file[s].cut}

CutLines ==
  \A s \in CutFiles :
    file[s].lines # <<>> /\ Last(file[s].lines) \cap Owed = {}

CutsCounted ==
  /\ IsFiniteSet(CutFiles)
  /\ Cardinality(Unreadable) + Cardinality(CutFiles) <= hist.cuts

(* A question stands in the transcript it was put into until its session   *)
(* moves, and that transcript is not cut.                                  *)
QuestionKept ==
  \A t \in Requester :
    pc[t] \in {"history", "agent", "reply"} /\ since[t] # "moved" =>
      /\ store[KeyOf(t)] # Absent /\ ~FileOf(KeyOf(t)).cut
      /\ ask[t] \in Msg /\ ask[t] \in InFile(FileOf(KeyOf(t)))

(* Nothing came after a question that is alone.                            *)
QuestionLast ==
  \A t \in Requester :
    pc[t] = "history" /\ since[t] = "alone"
      /\ Contains(History(KeyOf(t)), ask[t])
    => Last(History(KeyOf(t))) = ask[t]

SessionsInv ==
  /\ SessionsTypeOK /\ ThreadsOK /\ StoreOK /\ FilesNamed /\ Numbered
  /\ CutLines /\ CutsCounted /\ QuestionKept /\ QuestionLast
  /\ NothingErased /\ ReplyFollowsQuestion /\ Copied

(* The types of what the actions look at.                                  *)
LEMMA Looked ==
  ASSUME SessionsTypeOK, ThreadsOK
  PROVE  /\ \A k \in Key : store[k] # Absent =>
              /\ store[k] \in Entry /\ store[k].id \in Sid /\ FileOf(k) \in Transcript
         /\ \A s \in Sid : file[s] \in Transcript
         /\ \A t \in Requester : pc[t] # "idle" =>
              raw[t] # NoKey /\ KeyOf(t) \in Key /\ up
         /\ \A r \in Spelling : Normal[r] \in Key
         /\ sent \in Nat /\ sent <= MaxMsgs /\ MaxMsgs \in Nat
         /\ sent < MaxMsgs => sent + 1 \in Msg
<1>1. \A k \in Key : store[k] # Absent =>
        store[k] \in Entry /\ store[k].id \in Sid /\ FileOf(k) \in Transcript
  BY DEF SessionsTypeOK, Entry, FileOf
<1>2. /\ \A s \in Sid : file[s] \in Transcript
      /\ \A r \in Spelling : Normal[r] \in Key
      /\ \A t \in Requester : pc[t] # "idle" => raw[t] # NoKey /\ KeyOf(t) \in Key
  BY SessionsAssumption DEF SessionsTypeOK, ThreadsOK, Spelling, KeyOf
<1>3. \A t \in Requester : pc[t] # "idle" => up
  BY DEF SessionsTypeOK, ThreadsOK
<1>4. sent \in Nat /\ sent <= MaxMsgs /\ MaxMsgs \in Nat
  BY SessionsAssumption DEF SessionsTypeOK
<1>5. sent < MaxMsgs => sent + 1 \in Msg
  BY <1>4 DEF Msg
<1> QED
  BY <1>1, <1>2, <1>3, <1>4, <1>5

(* A history is a sequence of messages of one transcript.                  *)
LEMMA HistoryIs ==
  ASSUME SessionsTypeOK, ThreadsOK, NEW k \in Key
  PROVE  /\ History(k) \in Seq(Msg)
         /\ \A i \in 1 .. Len(History(k)) :
              store[k] # Absent /\ History(k)[i] \in InFile(FileOf(k))
<1>1. CASE store[k] = Absent
  BY <1>1, EmptySeq DEF History
<1>2. CASE store[k] # Absent
  <2>1. History(k) = Messages(FileOf(k)) /\ FileOf(k) \in Transcript
    BY <1>2, Looked DEF History, FileOf
  <2> QED
    BY <1>2, <2>1, MessagesType
<1> QED
  BY <1>1, <1>2

(* The end of a sequence.                                                  *)
LEMMA LastNIs ==
  ASSUME NEW S, NEW q \in Seq(S), NEW n \in Nat \ {0}
  PROVE  /\ LastN(q, n) \in Seq(S)
         /\ Len(LastN(q, n)) = IF Len(q) > n THEN n ELSE Len(q)
         /\ \A i \in 1 .. Len(LastN(q, n)) :
              /\ Len(q) - Len(LastN(q, n)) + i \in 1 .. Len(q)
              /\ LastN(q, n)[i] = q[Len(q) - Len(LastN(q, n)) + i]
<1>1. Len(q) \in Nat
  BY LenProperties
<1>2. CASE Len(q) > n
  <2> DEFINE a == Len(q) - n + 1
             r == SubSeq(q, a, Len(q))
  <2>1. a \in Int /\ Len(q) \in Int /\ a >= 1 /\ a <= Len(q) /\ \A i \in a .. Len(q) : q[i] \in S
    BY <1>1, <1>2, ElementOfSeq
  <2>2. Len(q) - a + 1 = n
    BY <1>1
  <2> HIDE DEF a
  <2>3. /\ r \in Seq(S) /\ Len(r) = n
        /\ \A i \in 1 .. n : r[i] = q[a + i - 1]
    BY <2>1, <2>2, SubSeqProperties
  <2>4. LastN(q, n) = r
    BY <1>2 DEF LastN, a
  <2>5. \A i \in 1 .. n : a + i - 1 = Len(q) - n + i /\ Len(q) - n + i \in 1 .. Len(q)
    BY <1>1, <1>2 DEF a
  <2> HIDE DEF r
  <2>6. PICK v, d : v = LastN(q, n) /\ d = Len(q) - n
    OBVIOUS
  <2>7. v \in Seq(S) /\ Len(v) = n /\ \A i \in 1 .. n : v[i] = q[d + i] /\ d + i \in 1 .. Len(q)
    BY <2>3, <2>4, <2>5, <2>6
  <2>8. Len(q) - Len(v) = d
    BY <2>6, <2>7
  <2> QED
    BY <1>2, <2>6, <2>7, <2>8
<1>3. CASE ~ (Len(q) > n)
  <2>1. LastN(q, n) = q
    BY <1>3 DEF LastN
  <2> QED
    BY <1>1, <1>3, <2>1
<1> QED
  BY <1>2, <1>3

-----------------------------------------------------------------------------
(* Types *)

(* A new session, or a new id for an old one.                              *)
LEMMA FreshEntry ==
  ASSUME SessionsTypeOK, StoreOK, NEW k \in Key, NEW e \in Entry, e.id \notin ids,
         store' = [store EXCEPT ![k] = e]
  PROVE  /\ store' \in [Key -> Entry \cup {Absent}]
         /\ \A l \in Key : l # k => store'[l] = store[l]
         /\ store'[k] = e /\ e # Absent
         /\ \A l, m \in Key :
              store'[l] # Absent /\ store'[m] # Absent /\ store'[l].id = store'[m].id
                => l = m
<1>1. /\ store' \in [Key -> Entry \cup {Absent}] /\ store'[k] = e /\ e # Absent
      /\ \A l \in Key : l # k => store'[l] = store[l]
  BY SessionsAssumption DEF SessionsTypeOK
<1>2. \A l \in Key : l # k /\ store[l] # Absent => store[l].id # e.id
  BY DEF StoreOK
<1>3. \A l, m \in Key :
        store[l] # Absent /\ store[m] # Absent /\ store[l].id = store[m].id => l = m
  BY DEF SessionsTypeOK
<1> QED
  BY <1>1, <1>2, <1>3

(* A session that keeps its id.                                            *)
LEMMA RenamedEntry ==
  ASSUME SessionsTypeOK, NEW k \in Key, store[k] # Absent,
         store' = [store EXCEPT ![k].name = "given"]
  PROVE  /\ store' \in [Key -> Entry \cup {Absent}]
         /\ \A l \in Key : /\ store'[l] # Absent <=> store[l] # Absent
                           /\ store[l] # Absent => store'[l].id = store[l].id
         /\ \A l, m \in Key :
              store'[l] # Absent /\ store'[m] # Absent /\ store'[l].id = store'[m].id
                => l = m
<1>1. PICK e \in Entry : e = [store[k] EXCEPT !.name = "given"] /\ e.id = store[k].id
  <2>1. store[k] \in Entry
    BY DEF SessionsTypeOK
  <2>2. PICK e : e = [store[k] EXCEPT !.name = "given"]
    OBVIOUS
  <2>3. e \in Entry /\ e.id = store[k].id
    BY <2>1, <2>2 DEF Entry
  <2> QED
    BY <2>2, <2>3
<1>2. store' = [store EXCEPT ![k] = e]
  BY <1>1
<1>3. /\ store' \in [Key -> Entry \cup {Absent}]
      /\ \A l \in Key : store'[l] = IF l = k THEN e ELSE store[l]
  BY <1>2 DEF SessionsTypeOK
<1>4. \A l, m \in Key :
        store[l] # Absent /\ store[m] # Absent /\ store[l].id = store[m].id => l = m
  BY DEF SessionsTypeOK
<1> QED
  BY <1>1, <1>3, <1>4, SessionsAssumption

(* A new session gets an id that was never given out.                      *)
LEMMA CreateIs ==
  ASSUME SessionsTypeOK, StoreOK, NEW k \in Key, Create(k)
  PROVE  \E e \in Entry : /\ e.id \notin ids /\ ids' = ids \cup {e.id}
                          /\ store' = [store EXCEPT ![k] = e]
<1>1. PICK s \in Sid \ ids : /\ store' = [store EXCEPT ![k] = [id |-> s, name |-> "key"]]
                             /\ ids' = ids \cup {s}
  BY DEF Create, FreshSid
<1> QED
  BY <1>1 DEF Entry

(* ResetSession gives a fresh id to the session and renames its            *)
(* transcript.                                                             *)
LEMMA ResetIs ==
  ASSUME SessionsTypeOK, StoreOK, NEW k \in Key, store[k] # Absent, ResetSession(k)
  PROVE  /\ \E e \in Entry : /\ e.id \notin ids /\ ids' = ids \cup {e.id}
                             /\ store' = [store EXCEPT ![k] = e]
         /\ archived' = archived \cup InFile(FileOf(k))
         /\ file' = [file EXCEPT ![store[k].id] = NoFile] /\ saving' = TRUE
<1>1. PICK s \in Sid \ ids : /\ store' = [store EXCEPT ![k].id = s]
                             /\ ids' = ids \cup {s}
  BY DEF ResetSession, FreshSid
<1>2. store[k] \in Entry
  BY DEF SessionsTypeOK
<1>3. PICK e : e = [store[k] EXCEPT !.id = s]
  OBVIOUS
<1>4. e \in Entry /\ e.id = s
  BY <1>2, <1>3 DEF Entry
<1>5. store' = [store EXCEPT ![k] = e]
  BY <1>1, <1>3
<1> QED
  BY <1>1, <1>4, <1>5 DEF ResetSession, Archive, FileOf

(* A transcript that gets a message, or is renamed or removed.             *)
LEMMA AppendIs ==
  ASSUME SessionsTypeOK, CutLines, NEW k \in Key, store[k] # Absent,
         NEW p \in Msg \cup {Part}, NEW w \in BOOLEAN,
         file' = [file EXCEPT ![store[k].id] = Written(@, p, w)]
  PROVE  /\ file' \in [Sid -> Transcript]
         /\ store[k].id \in Sid /\ FileOf(k) = file[store[k].id] /\ FileOf(k) \in Transcript
         /\ FileOf(k).cut => FileOf(k).lines # <<>>
         /\ file'[store[k].id] = Written(FileOf(k), p, w)
         /\ Wrote(FileOf(k), file'[store[k].id], p) /\ (w => ~file'[store[k].id].cut)
         /\ \A s \in Sid : s # store[k].id => file'[s] = file[s]
<1>1. store[k].id \in Sid /\ FileOf(k) \in Transcript /\ FileOf(k) = file[store[k].id]
  BY DEF SessionsTypeOK, Entry, FileOf
<1>2. FileOf(k).cut => FileOf(k).lines # <<>>
  BY <1>1 DEF CutLines, CutFiles
<1>3. PICK f, g : f \in Transcript /\ f = FileOf(k) /\ g = Written(f, p, w)
  BY <1>1
<1>4. Wrote(f, g, p) /\ (w => ~g.cut)
  BY <1>2, <1>3, WroteIs
<1>5. g \in Transcript
  BY <1>4 DEF Wrote
<1>6. file' \in [Sid -> Transcript] /\ file'[store[k].id] = g
      /\ \A s \in Sid : s # store[k].id => file'[s] = file[s]
  BY <1>1, <1>3, <1>5 DEF SessionsTypeOK
<1> QED
  BY <1>1, <1>2, <1>3, <1>4, <1>6

(* A transcript that is renamed or removed leaves the other ones alone.    *)
LEMMA EmptyIs ==
  ASSUME SessionsTypeOK, NEW k \in Key, store[k] # Absent,
         file' = [file EXCEPT ![store[k].id] = NoFile]
  PROVE  /\ file' \in [Sid -> Transcript] /\ NoFile \in Transcript
         /\ store[k].id \in Sid /\ FileOf(k) = file[store[k].id] /\ FileOf(k) \in Transcript
         /\ file'[store[k].id] = NoFile
         /\ \A s \in Sid : s # store[k].id => file'[s] = file[s]
<1>1. store[k].id \in Sid /\ FileOf(k) \in Transcript /\ FileOf(k) = file[store[k].id]
  BY DEF SessionsTypeOK, Entry, FileOf
<1>2. NoFile \in Transcript
  BY EmptySeq DEF NoFile, Transcript
<1> QED
  BY <1>1, <1>2 DEF SessionsTypeOK

(* What threads are told about their sessions keeps its type.              *)
LEMMA SinceTyped ==
  ASSUME SessionsTypeOK, NEW k, NEW t
  PROVE  /\ Shared(k, t) \in [Requester -> {"alone", "shared", "moved"}]
         /\ Moved(k) \in [Requester -> {"alone", "shared", "moved"}]
<1> QED
  BY DEF SessionsTypeOK, Shared, Moved

(* The rest of the types, which no step breaks for more than a variable or *)
(* two.                                                                    *)
Injective ==
  \A k, l \in Key :
    store[k] # Absent /\ store[l] # Absent /\ store[k].id = store[l].id => k = l

(* AppendMessage keeps the transcripts well formed.                        *)
LEMMA AppendStoreTyped ==
  ASSUME SessionsTypeOK, CutLines, NEW k \in Key, NEW m \in Msg, AppendMessage(k, m)
  PROVE  file' \in [Sid -> Transcript] /\ saving' \in BOOLEAN
<1>1. CASE store[k] = Absent
  BY <1>1 DEF AppendMessage, SessionsTypeOK
<1>2. CASE store[k] # Absent
  <2>1. PICK p \in Msg \cup {Part}, w \in BOOLEAN :
          file' = [file EXCEPT ![store[k].id] = Written(@, p, w)]
    BY <1>2 DEF AppendMessage
  <2> QED
    BY <1>2, <2>1, AppendIs DEF AppendMessage
<1> QED
  BY <1>1, <1>2

(* Every step of SessionManager and of the handlers preserves the types,   *)
(* and an id is given to one session at a time.                            *)
LEMMA Typing ==
  ASSUME SessionsInv, SessionsNext
  PROVE  SessionsTypeOK'
<1> USE DEF SessionsInv
<1>0. /\ SessionsTypeOK /\ ThreadsOK /\ StoreOK /\ CutLines /\ Injective
      /\ sent \in Nat /\ sent <= MaxMsgs /\ MaxMsgs \in Nat
      /\ sent < MaxMsgs => sent + 1 \in Msg /\ sent + 1 \in 0 .. MaxMsgs
      /\ \A t \in Requester : pc[t] # "idle" => KeyOf(t) \in Key /\ up
      /\ \A r \in Spelling : Normal[r] \in Key
  <2>1. Injective
    BY DEF SessionsTypeOK, Injective
  <2> QED
    BY <2>1, Looked
<1> DEFINE Threads == /\ pc \in [Requester -> Pc]
                      /\ raw \in [Requester -> Spelling \cup {NoKey}]
                      /\ ask \in [Requester -> 0 .. MaxMsgs]
                      /\ seen \in [Requester -> Seq(Msg)]
                      /\ todo \in [Requester -> 0 .. MaxReplies]
                      /\ since \in [Requester -> {"alone", "shared", "moved"}]
           Disk == /\ storeFile \in [Key -> Entry \cup {Absent}] \cup {TornStore}
                   /\ file \in [Sid -> Transcript] /\ archived \subseteq Msg
           Rest == /\ ids \subseteq Sid /\ sent \in 0 .. MaxMsgs
                   /\ replyTo \in [Msg -> 0 .. MaxMsgs] /\ hist \in Happenings
           Mine == /\ store \in [Key -> Entry \cup {Absent}] /\ Injective
                   /\ saving \in BOOLEAN /\ up \in BOOLEAN /\ (~up => ~saving)
<1>A. Threads /\ Disk /\ Rest /\ Mine
  BY <1>0 DEF SessionsTypeOK
<1>B. Threads' /\ Disk' /\ Rest' /\ Mine' => SessionsTypeOK'
  BY DEF SessionsTypeOK, Injective
<1>1. CASE SaveStore
  BY <1>1, <1>A, <1>B DEF SaveStore, requestVars, Injective
<1>2. CASE Restart
  <2>1. store' \in [Key -> Entry \cup {Absent}] /\ Injective'
    BY <1>2, <1>0, <1>A DEF Restart, LoadStore, StoreOK, Injective
  <2>2. hist' \in Happenings
    BY <1>2, <1>A DEF Restart, Happenings
  <2> QED
    BY <1>2, <1>A, <1>B, <2>1, <2>2 DEF Restart, LoadStore, diskVars, requestVars
<1>3. ASSUME NEW cuts \in {0, 1}, NEW loose \in SUBSET Msg, GoDown(cuts, loose)
      PROVE  Threads' /\ Mine' /\ hist' \in Happenings
  <2>1. Threads'
    BY <1>3, <1>A, <1>0, EmptySeq, SessionsAssumption DEF GoDown, Pc
  <2>2. Mine'
    BY <1>3, <1>A DEF GoDown, Injective
  <2>3. hist' \in Happenings
    <3>1. /\ hist \in Happenings
          /\ hist' = [hist EXCEPT !.crashes = @ + 1, !.cuts = @ + cuts,
                                  !.loose = @ \cup loose]
      BY <1>3, <1>A DEF GoDown
    <3>4. /\ hist.crashes + 1 \in Nat /\ hist.cuts + cuts \in Nat
          /\ hist.loose \cup loose \in SUBSET Msg
      BY <1>3, <3>1 DEF Happenings
    <3>2. PICK a \in Nat, b \in Nat, c \in SUBSET Msg :
            a = hist.crashes + 1 /\ b = hist.cuts + cuts /\ c = hist.loose \cup loose
      BY <3>4
    <3>3. hist' = [hist EXCEPT !.crashes = a, !.cuts = b, !.loose = c]
      BY <3>1, <3>2
    <3> QED
      BY <3>1, <3>3 DEF Happenings
  <2> QED
    BY <2>1, <2>2, <2>3
<1>4. CASE Crash
  <2>1. PICK cuts \in {0, 1}, loose \in SUBSET Msg : GoDown(cuts, loose)
    BY <1>4 DEF Crash
  <2> QED
    BY <1>4, <1>3, <1>A, <1>B, <2>1 DEF Crash, GoDown
<1>5. ASSUME NEW t \in Requester, CrashInAppend(t) PROVE SessionsTypeOK'
  <2>1. /\ KeyOf(t) \in Key /\ store[KeyOf(t)] # Absent /\ archived' = archived
        /\ storeFile' = storeFile
    BY <1>5, <1>0 DEF CrashInAppend, KeyOf
  <2>4. PICK cuts \in {0, 1}, loose \in SUBSET Msg : GoDown(cuts, loose)
    BY <1>5 DEF CrashInAppend
  <2>5. sent' \in 0 .. MaxMsgs
    <3>1. PICK m \in Msg : sent' = m \/ sent' = sent
      BY <1>5 DEF CrashInAppend
    <3> QED
      BY <1>A, <3>1 DEF Msg
  <2>2. PICK p \in Msg \cup {Part}, w \in BOOLEAN :
          file' = [file EXCEPT ![store[KeyOf(t)].id] = Written(@, p, w)]
    BY <1>5, <1>0, <2>1 DEF CrashInAppend, KeyOf
  <2>3. file' \in [Sid -> Transcript]
    BY <1>0, <2>1, <2>2, AppendIs
  <2> QED
    BY <1>3, <1>0, <1>A, <1>B, <2>1, <2>3, <2>4, <2>5 DEF GoDown
<1>7. ASSUME NEW k \in Key, DeleteSession(k) PROVE SessionsTypeOK'
  <2>1. store' \in [Key -> Entry \cup {Absent}] /\ Injective'
    BY <1>7, <1>A DEF DeleteSession, Injective
  <2>2. file' \in [Sid -> Transcript] /\ FileOf(k) \in Transcript
    BY <1>7, <1>0, EmptyIs DEF DeleteSession
  <2>3. hist' \in Happenings
    BY <1>7, <1>A, <2>2, InFileIs DEF DeleteSession, Happenings, FileOf
  <2>4. since' \in [Requester -> {"alone", "shared", "moved"}]
    BY <1>7, <1>0, SinceTyped DEF DeleteSession
  <2> QED
    BY <1>7, <1>A, <1>B, <2>1, <2>2, <2>3, <2>4 DEF DeleteSession, Unlocked
<1>8. ASSUME NEW k \in Key, ResetSession(k), since' = Moved(k)
      PROVE  /\ store' \in [Key -> Entry \cup {Absent}] /\ Injective'
             /\ file' \in [Sid -> Transcript] /\ archived' \subseteq Msg
             /\ ids' \subseteq Sid /\ saving' \in BOOLEAN
             /\ since' \in [Requester -> {"alone", "shared", "moved"}]
  <2>1. since' \in [Requester -> {"alone", "shared", "moved"}]
    BY <1>8, <1>0, SinceTyped
  <2>2. CASE store[k] = Absent
    BY <1>8, <1>A, <2>1, <2>2 DEF ResetSession, Injective
  <2>3. CASE store[k] # Absent
    <3>1. PICK e \in Entry : /\ e.id \notin ids /\ ids' = ids \cup {e.id}
                             /\ store' = [store EXCEPT ![k] = e]
      BY <1>8, <1>0, <2>3, ResetIs
    <3>2. store' \in [Key -> Entry \cup {Absent}] /\ Injective'
      BY <1>0, <3>1, FreshEntry DEF Injective
    <3>3. /\ archived' = archived \cup InFile(FileOf(k))
          /\ file' = [file EXCEPT ![store[k].id] = NoFile] /\ saving' = TRUE
      BY <1>8, <1>0, <2>3, ResetIs
    <3>4. file' \in [Sid -> Transcript] /\ FileOf(k) \in Transcript
      BY <1>0, <2>3, <3>3, EmptyIs
    <3>5. archived' \subseteq Msg
      BY <1>A, <3>3, <3>4, InFileIs
    <3> QED
      BY <1>A, <2>1, <3>1, <3>2, <3>3, <3>4, <3>5 DEF Entry
  <2> QED
    BY <2>2, <2>3
<1>9. ASSUME NEW k \in Key, Reset(k) PROVE SessionsTypeOK'
  BY <1>9, <1>8, <1>A, <1>B DEF Reset, Unlocked
<1>10. ASSUME NEW k \in Key, Unlocked, UpdateDisplayName(k), UNCHANGED up
       PROVE  Mine'
  <2>1. CASE store[k] = Absent
    BY <1>10, <1>A, <2>1 DEF UpdateDisplayName, Injective
  <2>2. CASE store[k] # Absent
    BY <1>10, <1>0, <1>A, <2>2, RenamedEntry DEF UpdateDisplayName, Injective, Unlocked
  <2> QED
    BY <2>1, <2>2
<1>11. ASSUME NEW k \in Key, Patch(k) PROVE SessionsTypeOK'
  BY <1>11, <1>10, <1>A, <1>B DEF Patch, diskVars, requestVars
<1>12. ASSUME NEW t \in Requester PROVE
         /\ ListSessions(t) => SessionsTypeOK'
         /\ SetTitle(t) => SessionsTypeOK'
         /\ GetHistory(t) => SessionsTypeOK'
  <2>1. CASE ListSessions(t)
    BY <2>1, <1>A, <1>B DEF ListSessions, GoOn, Pc, diskVars, Injective
  <2>2. CASE SetTitle(t)
    <3>1. pc' \in [Requester -> Pc]
      BY <2>2, <1>A DEF SetTitle, GoOn, Pc
    <3>2. Mine'
      BY <2>2, <1>0, <1>10 DEF SetTitle, KeyOf
    <3> QED
      BY <2>2, <1>A, <1>B, <3>1, <3>2 DEF SetTitle, diskVars
  <2>3. CASE GetHistory(t)
    BY <2>3, <1>A, <1>B DEF GetHistory, GoOn, Pc, diskVars, Injective
  <2> QED
    BY <2>1, <2>2, <2>3
<1>13. ASSUME NEW t \in Requester, AgentReturns(t) PROVE SessionsTypeOK'
  <2>1. Threads'
    <3>1. PICK n \in 0 .. MaxReplies :
            todo' = [todo EXCEPT ![t] = n] /\ Leave(t, n = 0, "reply", since)
      BY <1>13 DEF AgentReturns
    <3>2. pc' \in [Requester -> Pc]
      BY <1>A, <3>1 DEF Leave, Pc
    <3>3. /\ raw' \in [Requester -> Spelling \cup {NoKey}]
          /\ ask' \in [Requester -> 0 .. MaxMsgs]
      BY <1>0, <1>A, <3>1 DEF Leave
    <3>4. since' \in [Requester -> {"alone", "shared", "moved"}]
      BY <1>A, <3>1 DEF Leave
    <3>5. todo' \in [Requester -> 0 .. MaxReplies] /\ seen' = seen
      BY <1>13, <1>A, <3>1 DEF AgentReturns
    <3> QED
      BY <1>A, <3>2, <3>3, <3>4, <3>5
  <2> QED
    BY <1>13, <1>A, <1>B, <2>1 DEF AgentReturns, diskVars, Injective
<1>14. ASSUME NEW t \in Requester, NEW r \in Spelling, Request(t, r)
       PROVE  SessionsTypeOK'
  <2>1. Threads'
    BY <1>14, <1>A DEF Request, GoOn, Pc
  <2>2. Mine' /\ ids' \subseteq Sid
    <3>1. CASE store[Normal[r]] # Absent
      BY <1>14, <1>A, <3>1 DEF Request, GetOrCreate, Injective
    <3>2. CASE store[Normal[r]] = Absent
      <4>1. Create(Normal[r]) /\ Normal[r] \in Key /\ saving' = TRUE /\ up' = up /\ up
        BY <1>14, <1>0, <3>2 DEF Request, GetOrCreate, Unlocked
      <4>2. PICK e \in Entry : /\ e.id \notin ids /\ ids' = ids \cup {e.id}
                               /\ store' = [store EXCEPT ![Normal[r]] = e]
        BY <1>0, <4>1, CreateIs
      <4>3. store' \in [Key -> Entry \cup {Absent}] /\ Injective'
        BY <1>0, <4>1, <4>2, FreshEntry DEF Injective
      <4> QED
        BY <1>A, <4>1, <4>2, <4>3 DEF Entry
    <3> QED
      BY <3>1, <3>2
  <2> QED
    BY <1>14, <1>A, <1>B, <2>1, <2>2 DEF Request, diskVars
<1>15. ASSUME NEW t \in Requester, AppendUser(t) PROVE SessionsTypeOK'
  <2>1. /\ KeyOf(t) \in Key /\ sent + 1 \in Msg /\ sent + 1 \in 0 .. MaxMsgs
        /\ AppendMessage(KeyOf(t), sent + 1) /\ up /\ ~saving
        /\ hist' = [hist EXCEPT !.appended = NoteAppend(KeyOf(t), sent + 1)]
    BY <1>15, <1>0 DEF AppendUser, KeyOf, Unlocked
  <2>2. file' \in [Sid -> Transcript] /\ saving' \in BOOLEAN
    BY <1>0, <2>1, AppendStoreTyped
  <2>3. Threads'
    BY <1>15, <1>A, <1>0, <2>1, SinceTyped DEF AppendUser, GoOn, Pc
  <2>4. hist' \in Happenings
    BY <1>A, <2>1 DEF Happenings, NoteAppend
  <2> QED
    BY <1>15, <1>A, <1>B, <2>1, <2>2, <2>3, <2>4 DEF AppendUser, Injective
<1>16. ASSUME NEW t \in Requester, AppendReply(t) PROVE SessionsTypeOK'
  <2>1. /\ KeyOf(t) \in Key /\ sent + 1 \in Msg /\ sent + 1 \in 0 .. MaxMsgs
        /\ AppendMessage(KeyOf(t), sent + 1) /\ up /\ ~saving
        /\ hist' = [hist EXCEPT
              !.appended = NoteAppend(KeyOf(t), sent + 1),
              !.loose = IF since[t] = "moved" THEN @ \cup {sent + 1} ELSE @]
        /\ todo[t] >= 1
    BY <1>16, <1>0 DEF AppendReply, KeyOf, Unlocked, ThreadsOK
  <2>2. file' \in [Sid -> Transcript] /\ saving' \in BOOLEAN
    BY <1>0, <2>1, AppendStoreTyped
  <2>3. Threads'
    <3>1. Shared(KeyOf(t), t) \in [Requester -> {"alone", "shared", "moved"}]
      BY <1>0, SinceTyped
    <3>2. since' \in [Requester -> {"alone", "shared", "moved"}]
      BY <1>16, <3>1 DEF AppendReply, Leave, KeyOf
    <3>3. todo' \in [Requester -> 0 .. MaxReplies]
      BY <1>16, <1>A, <2>1, SessionsAssumption DEF AppendReply
    <3> QED
      BY <1>16, <1>A, <3>2, <3>3, <1>0 DEF AppendReply, Leave, Pc
  <2>4. hist' \in Happenings
    BY <1>A, <2>1 DEF Happenings, NoteAppend
  <2>5. replyTo' \in [Msg -> 0 .. MaxMsgs]
    BY <1>16, <1>A DEF AppendReply
  <2> QED
    BY <1>16, <1>A, <1>B, <2>1, <2>2, <2>3, <2>4, <2>5 DEF AppendReply, Injective
<1>17. ASSUME NEW t \in Requester, NEW r \in Spelling, CompactRead(t, r)
       PROVE  SessionsTypeOK'
  <2>1. LastN(History(Normal[r]), CompactKeep) \in Seq(Msg)
    BY <1>0, HistoryIs, LastNIs, SessionsAssumption
  <2>2. Threads'
    BY <1>17, <1>A, <2>1 DEF CompactRead, GoOn, Pc
  <2> QED
    BY <1>17, <1>A, <1>B, <2>2 DEF CompactRead, diskVars, Injective
<1>18. ASSUME NEW t \in Requester, CompactReset(t) PROVE SessionsTypeOK'
  <2>1. KeyOf(t) \in Key /\ ResetSession(KeyOf(t)) /\ since' = Moved(KeyOf(t)) /\ up
    BY <1>18, <1>0 DEF CompactReset, KeyOf
  <2>2. pc' \in [Requester -> Pc]
    BY <1>18, <1>A DEF CompactReset, GoOn, Pc
  <2> QED
    BY <1>18, <1>8, <1>A, <1>B, <2>1, <2>2 DEF CompactReset
<1>19. ASSUME NEW t \in Requester, CompactAppend(t) PROVE SessionsTypeOK'
  <2>1. /\ KeyOf(t) \in Key /\ seen[t] # <<>> /\ seen[t] \in Seq(Msg) /\ up /\ ~saving
        /\ AppendMessage(KeyOf(t), Head(seen[t]))
        /\ hist' = [hist EXCEPT !.loose = @ \cup {Head(seen[t])}]
    BY <1>19, <1>0, <1>A DEF CompactAppend, KeyOf, ThreadsOK, Unlocked
  <2>2. Head(seen[t]) \in Msg /\ Tail(seen[t]) \in Seq(Msg)
    BY <2>1, HeadTailProperties
  <2>3. file' \in [Sid -> Transcript] /\ saving' \in BOOLEAN
    BY <1>0, <2>1, <2>2, AppendStoreTyped
  <2>4. Threads'
    <3>1. Shared(KeyOf(t), t) \in [Requester -> {"alone", "shared", "moved"}]
      BY <1>0, SinceTyped
    <3>2. since' \in [Requester -> {"alone", "shared", "moved"}]
      BY <1>19, <3>1 DEF CompactAppend, Leave, KeyOf
    <3> QED
      BY <1>19, <1>A, <3>2, <2>2, <1>0 DEF CompactAppend, Leave, Pc
  <2>5. hist' \in Happenings
    BY <1>A, <2>1, <2>2 DEF Happenings
  <2> QED
    BY <1>19, <1>A, <1>B, <2>1, <2>3, <2>4, <2>5 DEF CompactAppend, Injective
<1> QED
  BY <1>1, <1>2, <1>4, <1>5, <1>7, <1>9, <1>11, <1>12, <1>13, <1>14, <1>15, <1>16,
     <1>17, <1>18, <1>19 DEF SessionsNext

-----------------------------------------------------------------------------
(* What a step does to store_ and the transcripts: nothing that matters,   *)
(* one message more, or one transcript less.                               *)
Still ==
  /\ file' = file /\ archived' = archived
  /\ hist'.appended = hist.appended /\ hist'.deleted = hist.deleted
  /\ \A l \in Key : store[l] # Absent =>
       store'[l] # Absent /\ store'[l].id = store[l].id

Adds(k, m) ==
  /\ ~saving /\ store[k] # Absent /\ store' = store /\ archived' = archived
  /\ file' = [file EXCEPT ![store[k].id] = Written(@, m, TRUE)]
  /\ hist'.deleted = hist.deleted
  /\ \/ m = sent + 1 /\ sent' = sent + 1 /\ hist'.appended = hist.appended \cup {m}
     \/ m <= sent /\ sent' = sent /\ hist'.appended = hist.appended /\ m \in hist'.loose

Drops(k) ==
  /\ ~saving /\ store[k] # Absent
  /\ file' = [file EXCEPT ![store[k].id] = NoFile]
  /\ \A l \in Key : l # k => store'[l] = store[l]
  /\ since' = Moved(k)
  /\ hist'.appended = hist.appended
  /\ archived \subseteq archived' /\ hist.deleted \subseteq hist'.deleted
  /\ InFile(FileOf(k)) \subseteq archived' \cup hist'.deleted

CalmFlags == up /\ up' /\ (~saving' => store' = store /\ ~saving)

CalmData ==
  /\ storeFile' = storeFile /\ ids \subseteq ids'
  /\ hist'.wiped = hist.wiped /\ hist'.cuts = hist.cuts
  /\ hist.loose \subseteq hist'.loose
  /\ sent' \in {sent, sent + 1}
  /\ \A m \in Msg : replyTo'[m] = replyTo[m] \/ (m = sent + 1 /\ sent' = sent + 1)
  /\ \A k \in Key : store'[k] # Absent => store'[k].id \in ids'

Calm == CalmFlags /\ CalmData

(* Every step is one of these kinds.                                       *)
LEMMA Kinds ==
  ASSUME SessionsInv, SessionsNext
  PROVE  \/ SaveStore \/ Restart \/ Crash \/ \E t \in Requester : CrashInAppend(t)
         \/ Calm /\ \/ Still
                    \/ \E k \in Key, m \in Msg : Adds(k, m)
                    \/ \E k \in Key : Drops(k)
<1> USE DEF SessionsInv
<1>0. /\ SessionsTypeOK /\ ThreadsOK /\ StoreOK /\ CutLines
      /\ sent \in Nat /\ (sent < MaxMsgs => sent + 1 \in Msg)
      /\ \A t \in Requester : pc[t] # "idle" => KeyOf(t) \in Key /\ up
      /\ \A r \in Spelling : Normal[r] \in Key
      /\ \A k \in Key : store[k] # Absent => store[k].id \in ids
      /\ hist \in Happenings /\ hist.appended \in SUBSET Msg
  BY Looked DEF StoreOK, SessionsTypeOK, Happenings
<1> DEFINE Goal == Calm /\ \/ Still
                           \/ \E k \in Key, m \in Msg : Adds(k, m)
                           \/ \E k \in Key : Drops(k)
<1>C. CalmFlags /\ CalmData => Calm
  BY DEF Calm
<1>1. ASSUME NEW k \in Key, DeleteSession(k) PROVE Goal
  <2>1. PICK D : D = hist.deleted \cup InFile(FileOf(k))
    OBVIOUS
  <2>2. hist' = [hist EXCEPT !.deleted = D]
    BY <1>1, <2>1 DEF DeleteSession, FileOf
  <2>3. Calm
    <3>1. CalmFlags
      BY <1>1 DEF DeleteSession, Unlocked, CalmFlags
    <3>2. CalmData
      BY <1>1, <1>0, <2>2 DEF DeleteSession, SessionsTypeOK, Happenings, CalmData
    <3> QED
      BY <1>C, <3>1, <3>2
  <2>4. Drops(k)
    BY <1>1, <1>0, <2>1, <2>2 DEF DeleteSession, Drops, Unlocked, SessionsTypeOK, Happenings
  <2> QED
    BY <2>3, <2>4
<1>2. ASSUME NEW k \in Key, ResetSession(k), since' = Moved(k), Unlocked,
             UNCHANGED <<storeFile, up, sent, replyTo, hist>>
      PROVE  Goal
  <2>1. CASE store[k] = Absent
    <3>1. CalmFlags
      BY <1>2, <2>1 DEF ResetSession, Unlocked, CalmFlags
    <3>2. CalmData
      BY <1>2, <1>0, <2>1 DEF ResetSession, CalmData
    <3>3. Still
      BY <1>2, <2>1 DEF ResetSession, Still
    <3> QED
      BY <1>C, <3>1, <3>2, <3>3
  <2>2. CASE store[k] # Absent
    <3>1. PICK e \in Entry : /\ e.id \notin ids /\ ids' = ids \cup {e.id}
                             /\ store' = [store EXCEPT ![k] = e]
      BY <1>2, <1>0, <2>2, ResetIs
    <3>2. /\ archived' = archived \cup InFile(FileOf(k))
          /\ file' = [file EXCEPT ![store[k].id] = NoFile] /\ saving' = TRUE
      BY <1>2, <1>0, <2>2, ResetIs
    <3>3. store'[k] = e /\ \A l \in Key : l # k => store'[l] = store[l]
      BY <1>0, <3>1 DEF SessionsTypeOK
    <3>4. Calm
      <4>1. CalmFlags
        BY <1>2, <3>2 DEF Unlocked, CalmFlags
      <4>2. CalmData
        BY <1>2, <1>0, <3>1, <3>3 DEF CalmData
      <4> QED
        BY <1>C, <4>1, <4>2
    <3>5. Drops(k)
      BY <1>2, <2>2, <3>2, <3>3 DEF Drops, Unlocked
    <3> QED
      BY <3>4, <3>5
  <2> QED
    BY <2>1, <2>2
<1>3. ASSUME NEW k \in Key, UpdateDisplayName(k), Unlocked,
             UNCHANGED <<diskVars, up, ids, sent, replyTo, hist>>
      PROVE  Goal
  <2>1. CASE store[k] = Absent
    <3>1. CalmFlags
      BY <1>3, <2>1 DEF UpdateDisplayName, Unlocked, CalmFlags
    <3>2. CalmData
      BY <1>3, <1>0, <2>1 DEF UpdateDisplayName, diskVars, CalmData
    <3>3. Still
      BY <1>3, <2>1 DEF UpdateDisplayName, Still, diskVars
    <3> QED
      BY <1>C, <3>1, <3>2, <3>3
  <2>2. CASE store[k] # Absent
    <3>1. \A l \in Key : /\ store'[l] # Absent <=> store[l] # Absent
                         /\ store[l] # Absent => store'[l].id = store[l].id
      BY <1>3, <1>0, <2>2, RenamedEntry DEF UpdateDisplayName
    <3> QED
      <4>1. CalmFlags
        BY <1>3, <2>2 DEF UpdateDisplayName, Unlocked, CalmFlags
      <4>2. CalmData
        BY <1>3, <1>0, <3>1 DEF diskVars, CalmData
      <4>3. Still
        BY <1>3, <3>1 DEF Still, diskVars
      <4> QED
        BY <1>C, <4>1, <4>2, <4>3
  <2> QED
    BY <2>1, <2>2
<1>4. ASSUME UNCHANGED <<store, diskVars, up, ids, sent, replyTo, hist, saving>>, up
      PROVE  Goal
  <2>1. CalmFlags
    BY <1>4 DEF CalmFlags
  <2>2. CalmData
    BY <1>4, <1>0 DEF diskVars, CalmData
  <2>3. Still
    BY <1>4, <1>0 DEF Still, diskVars
  <2> QED
    BY <1>C, <2>1, <2>2, <2>3
<1>5. ASSUME NEW t \in Requester
      PROVE  /\ ListSessions(t) => Goal
             /\ SetTitle(t) => Goal
             /\ GetHistory(t) => Goal
             /\ AgentReturns(t) => Goal
             /\ CompactReset(t) => Goal
             /\ \A r \in Spelling : CompactRead(t, r) => Goal
  <2> HIDE DEF Goal
  <2>1. CASE ListSessions(t)
    BY <2>1, <1>4 DEF ListSessions, Unlocked
  <2>2. CASE SetTitle(t)
    BY <2>2, <1>0, <1>3 DEF SetTitle, KeyOf
  <2>3. CASE GetHistory(t)
    BY <2>3, <1>4 DEF GetHistory, Unlocked
  <2>4. CASE AgentReturns(t)
    BY <2>4, <1>4 DEF AgentReturns
  <2>5. CASE CompactReset(t)
    BY <2>5, <1>0, <1>2 DEF CompactReset, KeyOf
  <2>6. ASSUME NEW r \in Spelling, CompactRead(t, r) PROVE Goal
    BY <2>6, <1>4 DEF CompactRead, Unlocked
  <2> QED
    BY <2>1, <2>2, <2>3, <2>4, <2>5, <2>6
<1>6. ASSUME NEW t \in Requester, NEW r \in Spelling, Request(t, r) PROVE Goal
  <2>1. CASE store[Normal[r]] # Absent
    <3>1. CalmFlags
      BY <1>6, <2>1 DEF Request, GetOrCreate, Unlocked, CalmFlags
    <3>2. CalmData
      BY <1>6, <1>0, <2>1 DEF Request, GetOrCreate, diskVars, CalmData
    <3>3. Still
      BY <1>6, <2>1 DEF Request, GetOrCreate, Still, diskVars
    <3> QED
      BY <1>C, <3>1, <3>2, <3>3
  <2>2. CASE store[Normal[r]] = Absent
    <3>1. Create(Normal[r]) /\ Normal[r] \in Key /\ saving' = TRUE
      BY <1>6, <1>0, <2>2 DEF Request, GetOrCreate
    <3>2. PICK e \in Entry : /\ e.id \notin ids /\ ids' = ids \cup {e.id}
                             /\ store' = [store EXCEPT ![Normal[r]] = e]
      BY <1>0, <3>1, CreateIs
    <3>3. store'[Normal[r]] = e /\ \A l \in Key : l # Normal[r] => store'[l] = store[l]
      BY <1>0, <3>1, <3>2 DEF SessionsTypeOK
    <3>4. Calm
      <4>1. CalmFlags
        BY <1>6, <3>1 DEF Request, Unlocked, CalmFlags
      <4>2. CalmData
        BY <1>6, <1>0, <3>2, <3>3 DEF Request, diskVars, CalmData
      <4> QED
        BY <1>C, <4>1, <4>2
    <3>5. Still
      BY <1>6, <2>2, <3>3 DEF Request, Still, diskVars
    <3> QED
      BY <3>4, <3>5
  <2> QED
    BY <2>1, <2>2
<1>7. ASSUME NEW t \in Requester, NEW m \in Msg, Unlocked, AppendMessage(KeyOf(t), m),
             KeyOf(t) \in Key,
             UNCHANGED <<store, storeFile, archived, up, ids>>,
             hist'.wiped = hist.wiped, hist'.cuts = hist.cuts,
             hist.loose \subseteq hist'.loose, hist'.deleted = hist.deleted,
             \A n \in Msg : replyTo'[n] = replyTo[n] \/ (n = sent + 1 /\ sent' = sent + 1),
             \/ m = sent + 1 /\ sent' = sent + 1 /\ hist'.appended = NoteAppend(KeyOf(t), m)
             \/ m <= sent /\ sent' = sent /\ hist'.appended = hist.appended /\ m \in hist'.loose
      PROVE  Goal
  <2>1. CASE store[KeyOf(t)] = Absent
    <3>1. Calm
      <4>1. CalmFlags
        BY <1>7, <2>1 DEF AppendMessage, Unlocked, CalmFlags
      <4>2. CalmData
        BY <1>7, <1>0 DEF CalmData
      <4> QED
        BY <1>C, <4>1, <4>2
    <3>2. Still
      BY <1>7, <2>1 DEF AppendMessage, Still, NoteAppend
    <3> QED
      BY <3>1, <3>2
  <2>2. CASE store[KeyOf(t)] # Absent
    <3>1. Calm
      <4>1. CalmFlags
        BY <1>7, <2>2 DEF AppendMessage, Unlocked, CalmFlags
      <4>2. CalmData
        BY <1>7, <1>0 DEF CalmData
      <4> QED
        BY <1>C, <4>1, <4>2
    <3>2. Adds(KeyOf(t), m)
      BY <1>7, <2>2 DEF AppendMessage, Adds, NoteAppend, Unlocked
    <3> QED
      BY <1>7, <3>1, <3>2
  <2> QED
    BY <2>1, <2>2
<1>8. ASSUME NEW t \in Requester, AppendUser(t) PROVE Goal
  <2>1. /\ KeyOf(t) \in Key /\ sent + 1 \in Msg /\ Unlocked
        /\ AppendMessage(KeyOf(t), sent + 1)
        /\ hist' = [hist EXCEPT !.appended = NoteAppend(KeyOf(t), sent + 1)]
        /\ sent' = sent + 1 /\ replyTo' = replyTo
        /\ UNCHANGED <<store, storeFile, archived, up, ids>>
    BY <1>8, <1>0 DEF AppendUser, KeyOf
  <2>2. /\ hist'.wiped = hist.wiped /\ hist'.cuts = hist.cuts
        /\ hist'.loose = hist.loose /\ hist'.deleted = hist.deleted
        /\ hist'.appended = NoteAppend(KeyOf(t), sent + 1)
    BY <1>0, <2>1 DEF Happenings
  <2> HIDE DEF Goal
  <2> QED
    BY <1>7, <2>1, <2>2
<1>9. ASSUME NEW t \in Requester, AppendReply(t) PROVE Goal
  <2>1. /\ KeyOf(t) \in Key /\ sent + 1 \in Msg /\ Unlocked
        /\ AppendMessage(KeyOf(t), sent + 1)
        /\ hist' = [hist EXCEPT
              !.appended = NoteAppend(KeyOf(t), sent + 1),
              !.loose = IF since[t] = "moved" THEN @ \cup {sent + 1} ELSE @]
        /\ sent' = sent + 1 /\ replyTo' = [replyTo EXCEPT ![sent + 1] = ask[t]]
        /\ UNCHANGED <<store, storeFile, archived, up, ids>>
    BY <1>9, <1>0 DEF AppendReply, KeyOf
  <2>2. /\ hist'.wiped = hist.wiped /\ hist'.cuts = hist.cuts
        /\ hist.loose \subseteq hist'.loose /\ hist'.deleted = hist.deleted
        /\ hist'.appended = NoteAppend(KeyOf(t), sent + 1)
    BY <1>0, <2>1 DEF Happenings
  <2>3. \A n \in Msg : replyTo'[n] = replyTo[n] \/ (n = sent + 1 /\ sent' = sent + 1)
    BY <1>0, <2>1 DEF SessionsTypeOK
  <2> HIDE DEF Goal
  <2> QED
    BY <1>7, <2>1, <2>2, <2>3
<1>10. ASSUME NEW t \in Requester, CompactAppend(t) PROVE Goal
  <2>1. /\ KeyOf(t) \in Key /\ seen[t] # <<>> /\ seen[t] \in Seq(Msg) /\ Unlocked
        /\ AppendMessage(KeyOf(t), Head(seen[t]))
        /\ hist' = [hist EXCEPT !.loose = @ \cup {Head(seen[t])}]
        /\ UNCHANGED <<store, storeFile, archived, up, ids, sent, replyTo>>
    BY <1>10, <1>0 DEF CompactAppend, KeyOf, ThreadsOK, SessionsTypeOK
  <2>2. PICK m \in Msg : m = Head(seen[t]) /\ m <= sent
    <3>1. Len(seen[t]) >= 1 /\ Head(seen[t]) = seen[t][1] /\ Head(seen[t]) \in Msg
      BY <2>1, HeadTailProperties, EmptySeq
    <3> QED
      BY <1>0, <2>1, <3>1 DEF Numbered
  <2>3. /\ hist'.wiped = hist.wiped /\ hist'.cuts = hist.cuts
        /\ hist'.loose = hist.loose \cup {m} /\ hist'.deleted = hist.deleted
        /\ hist'.appended = hist.appended
    BY <1>0, <2>1, <2>2 DEF Happenings
  <2>4. /\ AppendMessage(KeyOf(t), m) /\ m <= sent /\ m \in hist'.loose
        /\ sent' = sent /\ hist.loose \subseteq hist'.loose
        /\ \A n \in Msg : replyTo'[n] = replyTo[n]
        /\ UNCHANGED <<store, storeFile, archived, up, ids>>
    BY <2>1, <2>2, <2>3
  <2> HIDE DEF Goal
  <2> QED
    BY <1>7, <2>1, <2>3, <2>4
<1>11. ASSUME NEW k \in Key
       PROVE  (DeleteSession(k) => Goal) /\ (Reset(k) => Goal) /\ (Patch(k) => Goal)
  <2> HIDE DEF Goal
  <2>1. CASE Reset(k)
    BY <2>1, <1>2 DEF Reset
  <2>2. CASE Patch(k)
    BY <2>2, <1>3 DEF Patch
  <2> QED
    BY <1>1, <2>1, <2>2
<1> HIDE DEF Goal
<1> SUFFICES ASSUME ~ (SaveStore \/ Restart \/ Crash \/ \E t \in Requester : CrashInAppend(t))
             PROVE  Goal
  BY DEF Goal
<1> QED
  BY <1>5, <1>6, <1>8, <1>9, <1>10, <1>11 DEF SessionsNext

-----------------------------------------------------------------------------
(* The parts of the invariant, one lemma each *)

LEMMA DownIs ==
  ASSUME SessionsInv, \/ Crash
                      \/ \E t \in Requester : CrashInAppend(t)
  PROVE  /\ up /\ ~up' /\ ~saving'
         /\ \A k \in Key : store'[k] = Absent
         /\ \A t \in Requester : pc'[t] = "idle" /\ raw'[t] = NoKey /\ ask'[t] = 0
                                 /\ since'[t] = "alone" /\ seen'[t] = <<>>
         /\ ids' = ids /\ replyTo' = replyTo /\ archived' = archived
         /\ hist'.wiped = hist.wiped /\ hist'.appended = hist.appended
         /\ hist'.deleted = hist.deleted /\ hist.loose \subseteq hist'.loose
         /\ storeFile' = storeFile \/ storeFile' = TornStore
<1>1. PICK cuts \in {0, 1}, loose \in SUBSET Msg : GoDown(cuts, loose)
  BY DEF Crash, CrashInAppend
<1>2. /\ hist \in Happenings
      /\ hist' = [hist EXCEPT !.crashes = @ + 1, !.cuts = @ + cuts, !.loose = @ \cup loose]
  BY <1>1 DEF GoDown, SessionsInv, SessionsTypeOK
<1>3. /\ hist'.wiped = hist.wiped /\ hist'.appended = hist.appended
      /\ hist'.deleted = hist.deleted /\ hist.loose \subseteq hist'.loose
  BY <1>2 DEF Happenings
<1>4. ~up' /\ ~saving'
  BY <1>1 DEF GoDown
<1>5. up /\ archived' = archived /\ (storeFile' = storeFile \/ storeFile' = TornStore)
  <2>1. CASE Crash
    BY <2>1 DEF Crash
  <2>2. ASSUME NEW t \in Requester, CrashInAppend(t)
        PROVE  up /\ archived' = archived /\ storeFile' = storeFile
    BY <2>2 DEF CrashInAppend, Unlocked
  <2> QED
    BY <2>1, <2>2
<1>6. /\ \A k \in Key : store'[k] = Absent
      /\ \A t \in Requester : pc'[t] = "idle" /\ raw'[t] = NoKey /\ ask'[t] = 0
                              /\ since'[t] = "alone" /\ seen'[t] = <<>>
      /\ ids' = ids /\ replyTo' = replyTo
  BY <1>1 DEF GoDown
<1> QED
  BY <1>3, <1>4, <1>5, <1>6

(* Every step leaves the handlers in a position with the session and the   *)
(* messages that their next call needs.                                    *)
LEMMA ThreadsStep ==
  ASSUME SessionsInv, SessionsNext
  PROVE  ThreadsOK'
<1> USE DEF SessionsInv
<1> DEFINE P(t) == /\ ~up => pc[t] = "idle"
                   /\ pc[t] # "idle" => raw[t] \in Spelling
                   /\ pc[t] = "idle" => raw[t] = NoKey
                   /\ pc[t] \in {"compact_reset", "compact_append"} => seen[t] # <<>>
                   /\ pc[t] = "reply" => todo[t] >= 1
<1>0. /\ \A t \in Requester : P(t)
      /\ pc \in [Requester -> Pc] /\ raw \in [Requester -> Spelling \cup {NoKey}]
      /\ todo \in [Requester -> 0 .. MaxReplies] /\ seen \in [Requester -> Seq(Msg)]
      /\ MaxReplies \in Nat
  BY SessionsAssumption DEF ThreadsOK, SessionsTypeOK
<1> SUFFICES ASSUME NEW u \in Requester PROVE P(u)'
  BY DEF ThreadsOK
<1>1. CASE UNCHANGED <<pc, raw, seen, todo>> /\ (up' \/ up' = up)
  BY <1>1, <1>0
<1>2. CASE Crash \/ \E t \in Requester : CrashInAppend(t)
  BY <1>2, DownIs
<1>3. CASE SaveStore \/ Restart
  BY <1>3, <1>1 DEF SaveStore, Restart, requestVars
<1>4. ASSUME NEW k \in Key, DeleteSession(k) \/ Reset(k) \/ Patch(k) PROVE P(u)'
  BY <1>4, <1>1 DEF DeleteSession, Reset, Patch, requestVars
<1>5. ASSUME NEW t \in Requester PROVE
        /\ ListSessions(t) => P(u)'
        /\ SetTitle(t) => P(u)'
        /\ AppendUser(t) => P(u)'
        /\ GetHistory(t) => P(u)'
        /\ CompactReset(t) => P(u)'
  <2>1. CASE ListSessions(t)
    BY <2>1, <1>0 DEF ListSessions, GoOn, Unlocked
  <2>2. CASE SetTitle(t)
    BY <2>2, <1>0 DEF SetTitle, GoOn, Unlocked
  <2>3. CASE AppendUser(t)
    BY <2>3, <1>0 DEF AppendUser, GoOn, Unlocked
  <2>4. CASE GetHistory(t)
    BY <2>4, <1>0 DEF GetHistory, GoOn, Unlocked
  <2>5. CASE CompactReset(t)
    BY <2>5, <1>0 DEF CompactReset, GoOn, Unlocked
  <2> QED
    BY <2>1, <2>2, <2>3, <2>4, <2>5
<1>6. ASSUME NEW t \in Requester, NEW r \in Spelling, Request(t, r) PROVE P(u)'
  BY <1>6, <1>0 DEF Request, GoOn, Unlocked
<1>7. ASSUME NEW t \in Requester, NEW r \in Spelling, CompactRead(t, r) PROVE P(u)'
  <2> DEFINE h == History(Normal[r])
  <2>1. LastN(h, CompactKeep) # <<>>
    <3>1. /\ h \in Seq(Msg) /\ CompactKeep \in Nat \ {0} /\ Len(h) > CompactKeep
          /\ Len(h) \in Nat
      BY <1>7, HistoryIs, Looked, SessionsAssumption, LenProperties DEF CompactRead
    <3> HIDE DEF h
    <3>2. /\ LastN(h, CompactKeep) \in Seq(Msg)
          /\ Len(LastN(h, CompactKeep)) = CompactKeep
      BY <3>1, LastNIs
    <3> QED
      BY <3>1, <3>2, EmptySeq
  <2> QED
    BY <1>7, <1>0, <2>1 DEF CompactRead, GoOn, Unlocked
<1>8. ASSUME NEW t \in Requester, AgentReturns(t) PROVE P(u)'
  <2>1. PICK n \in 0 .. MaxReplies :
          todo' = [todo EXCEPT ![t] = n] /\ Leave(t, n = 0, "reply", since)
    BY <1>8 DEF AgentReturns
  <2>2. pc[t] = "agent" /\ raw[t] \in Spelling /\ up' = up /\ seen' = seen /\ up
    BY <1>8, <1>0 DEF AgentReturns
  <2>3. /\ pc'[u] = IF u = t THEN IF n = 0 THEN "idle" ELSE "reply" ELSE pc[u]
        /\ raw'[u] = IF u = t /\ n = 0 THEN NoKey ELSE raw[u]
        /\ todo'[u] = IF u = t THEN n ELSE todo[u]
    BY <1>0, <2>1 DEF Leave
  <2>4. up' /\ P(u)
    BY <1>0, <2>2
  <2>5. n \in Nat /\ MaxReplies \in Nat
    BY <1>0
  <2> QED
    BY <2>2, <2>3, <2>4, <2>5
<1>9. ASSUME NEW t \in Requester, AppendReply(t) PROVE P(u)'
  <2>1. /\ pc[t] = "reply" /\ raw[t] \in Spelling /\ up' = up /\ seen' = seen /\ up
        /\ todo[t] >= 1 /\ todo' = [todo EXCEPT ![t] = @ - 1]
        /\ Leave(t, todo[t] = 1, "reply", Shared(KeyOf(t), t))
    BY <1>9, <1>0 DEF AppendReply, Unlocked, KeyOf
  <2>2. /\ pc'[u] = IF u = t THEN IF todo[t] = 1 THEN "idle" ELSE "reply" ELSE pc[u]
        /\ raw'[u] = IF u = t /\ todo[t] = 1 THEN NoKey ELSE raw[u]
        /\ todo'[u] = IF u = t THEN todo[t] - 1 ELSE todo[u]
    BY <1>0, <2>1 DEF Leave
  <2>3. up' /\ P(u) /\ todo[t] \in Nat
    BY <1>0, <2>1
  <2> QED
    BY <2>1, <2>2, <2>3
<1>10. ASSUME NEW t \in Requester, CompactAppend(t) PROVE P(u)'
  <2>1. /\ pc[t] = "compact_append" /\ raw[t] \in Spelling /\ up' = up /\ todo' = todo /\ up
        /\ seen[t] # <<>> /\ seen[t] \in Seq(Msg) /\ seen' = [seen EXCEPT ![t] = Tail(@)]
        /\ Leave(t, Len(seen[t]) = 1, "compact_append", Shared(KeyOf(t), t))
    BY <1>10, <1>0 DEF CompactAppend, Unlocked, KeyOf
  <2>2. /\ pc'[u] = IF u = t THEN IF Len(seen[t]) = 1 THEN "idle" ELSE "compact_append"
                              ELSE pc[u]
        /\ raw'[u] = IF u = t /\ Len(seen[t]) = 1 THEN NoKey ELSE raw[u]
        /\ seen'[u] = IF u = t THEN Tail(seen[t]) ELSE seen[u]
    BY <1>0, <2>1 DEF Leave
  <2>3. up' /\ P(u)
    BY <1>0, <2>1
  <2>4. Len(seen[t]) # 1 => Tail(seen[t]) # <<>>
    <3>1. /\ Len(seen[t]) \in Nat /\ Len(Tail(seen[t])) = Len(seen[t]) - 1
          /\ Tail(seen[t]) \in Seq(Msg)
      BY <2>1, HeadTailProperties
    <3>2. Tail(seen[t]) = <<>> => Len(Tail(seen[t])) = 0
      BY <3>1, EmptySeq
    <3> QED
      BY <3>1, <3>2
  <2> QED
    BY <2>1, <2>2, <2>3, <2>4
<1> QED
  BY <1>2, <1>3, <1>4, <1>5, <1>6, <1>7, <1>8, <1>9, <1>10 DEF SessionsNext

(* Every step keeps the ids of both stores among those given out, and      *)
(* sessions.json up to date outside SaveStore.                             *)
LEMMA StoreStep ==
  ASSUME SessionsInv, SessionsNext
  PROVE  StoreOK'
<1> USE DEF SessionsInv
<1>0. /\ StoreOK
      /\ \A k, l \in Key :
           store[k] # Absent /\ store[l] # Absent /\ store[k].id = store[l].id => k = l
  BY DEF SessionsTypeOK
<1>1. CASE SaveStore
  BY <1>1, <1>0 DEF SaveStore, StoreOK
<1>2. CASE Restart
  <2>1. hist'.wiped = (hist.wiped \/ storeFile = TornStore)
    BY <1>2 DEF Restart, SessionsTypeOK, Happenings
  <2>2. /\ storeFile' = storeFile /\ ids' = ids
        /\ store' = IF storeFile = TornStore THEN [k \in Key |-> Absent] ELSE storeFile
    BY <1>2 DEF Restart, LoadStore, diskVars
  <2> QED
    BY <1>0, <2>1, <2>2 DEF StoreOK
<1>3. CASE Crash \/ \E t \in Requester : CrashInAppend(t)
  <2>1. /\ ~up' /\ ids' = ids /\ \A k \in Key : store'[k] = Absent
        /\ storeFile' = storeFile \/ storeFile' = TornStore
    BY <1>3, DownIs
  <2> QED
    BY <1>0, <2>1 DEF StoreOK
<1>4. CASE Calm
  <2>1. /\ storeFile' = storeFile /\ ids \subseteq ids' /\ hist'.wiped = hist.wiped
        /\ \A k \in Key : store'[k] # Absent => store'[k].id \in ids'
    BY <1>4 DEF Calm, CalmData
  <2>2. up /\ up' /\ (~saving' => store' = store /\ ~saving)
    BY <1>4 DEF Calm, CalmFlags
  <2>3. up' /\ ~saving' /\ ~hist'.wiped => storeFile' = store'
    BY <1>0, <2>1, <2>2 DEF StoreOK
  <2> QED
    BY <1>0, <2>1, <2>3 DEF StoreOK
<1> QED
  BY <1>1, <1>2, <1>3, <1>4, Kinds

(* A message is written into one transcript, and ends its line.            *)
LEMMA AddsIs ==
  ASSUME SessionsInv, NEW k \in Key, NEW m \in Msg, Adds(k, m)
  PROVE  /\ file' \in [Sid -> Transcript] /\ FileOf(k) \in Transcript
         /\ store[k].id \in Sid /\ FileOf(k) = file[store[k].id]
         /\ Wrote(FileOf(k), file'[store[k].id], m) /\ ~file'[store[k].id].cut
         /\ \A s \in Sid : s # store[k].id => file'[s] = file[s]
<1>1. PICK p \in Msg \cup {Part}, w \in BOOLEAN :
        w = TRUE /\ p = m /\ file' = [file EXCEPT ![store[k].id] = Written(@, p, w)]
  BY DEF Adds
<1>2. SessionsTypeOK /\ CutLines /\ store[k] # Absent
  BY DEF SessionsInv, Adds
<1> QED
  BY <1>1, <1>2, AppendIs

(* One transcript is renamed or removed, and no other one touched.         *)
LEMMA DropsIs ==
  ASSUME SessionsInv, NEW k \in Key, Drops(k)
  PROVE  /\ file' \in [Sid -> Transcript] /\ FileOf(k) \in Transcript
         /\ store[k].id \in Sid /\ FileOf(k) = file[store[k].id]
         /\ file'[store[k].id] = NoFile
         /\ \A s \in Sid : s # store[k].id => file'[s] = file[s]
<1> QED
  BY EmptyIs DEF SessionsInv, Drops

(* A crash while a message is written.                                     *)
LEMMA CutIs ==
  ASSUME SessionsInv, NEW t \in Requester, CrashInAppend(t)
  PROVE  LET k == KeyOf(t)
         IN  /\ k \in Key /\ store[k] # Absent /\ ~saving /\ up
             /\ file' \in [Sid -> Transcript] /\ FileOf(k) \in Transcript
             /\ store[k].id \in Sid /\ FileOf(k) = file[store[k].id]
             /\ \E p \in Msg \cup {Part} :
                  CutPiece(p) /\ Wrote(FileOf(k), file'[store[k].id], p)
             /\ \A s \in Sid : s # store[k].id => file'[s] = file[s]
             /\ storeFile' = storeFile /\ sent' \in {sent, sent + 1}
             /\ hist'.cuts = hist.cuts + 1
<1>1. PICK k : k = KeyOf(t)
  OBVIOUS
<1>2. /\ k \in Key /\ store[k] # Absent /\ ~saving /\ up
      /\ SessionsTypeOK /\ CutLines /\ hist \in Happenings
  BY <1>1, Looked DEF SessionsInv, SessionsTypeOK, CrashInAppend, KeyOf, Unlocked
<1>3. PICK m \in Msg, p \in Msg \cup {Part}, w \in BOOLEAN :
        /\ w = FALSE /\ file' = [file EXCEPT ![store[k].id] = Written(@, p, w)]
        /\ p = Part \/ p = m
        /\ \/ m = sent + 1 /\ sent' = m /\ GoDown(1, {})
           \/ /\ pc[t] = "compact_append"
              /\ m = Head(seen[t]) /\ sent' = sent /\ GoDown(1, {m})
  BY <1>1 DEF CrashInAppend, KeyOf
<1>4. /\ file' \in [Sid -> Transcript] /\ FileOf(k) \in Transcript
      /\ store[k].id \in Sid /\ FileOf(k) = file[store[k].id]
      /\ Wrote(FileOf(k), file'[store[k].id], p)
      /\ \A s \in Sid : s # store[k].id => file'[s] = file[s]
  BY <1>2, <1>3, AppendIs
<1>5. PICK loose \in SUBSET Msg :
        GoDown(1, loose) /\ (sent' = sent + 1 \/ loose = {m})
  BY <1>3
<1>6. hist'.cuts = hist.cuts + 1 /\ hist'.loose = hist.loose \cup loose
  BY <1>2, <1>5 DEF GoDown, Happenings
<1>7. CutPiece(p)
  <2>1. CASE m = sent + 1 /\ sent' = m
    BY <1>3, <2>1 DEF CutPiece
  <2>2. CASE pc[t] = "compact_append" /\ m = Head(seen[t]) /\ sent' = sent /\ GoDown(1, {m})
    <3>1. /\ seen[t] \in Seq(Msg) /\ seen[t] # <<>>
      BY <2>2 DEF SessionsInv, SessionsTypeOK, ThreadsOK
    <3>2. 1 \in 1 .. Len(seen[t]) /\ m = seen[t][1]
      <4>1. Len(seen[t]) \in Nat /\ Len(seen[t]) # 0
        BY <3>1, EmptySeq
      <4> QED
        BY <2>2, <3>1, <4>1
    <3>3. m \in Gone /\ m <= sent
      BY <2>2, <3>2 DEF SessionsInv, Copied, Numbered
    <3>4. m \in hist'.loose
      BY <1>2, <2>2 DEF GoDown, Happenings
    <3> QED
      BY <1>3, <3>3, <3>4 DEF CutPiece
  <2> QED
    BY <1>3, <2>1, <2>2
<1>8. storeFile' = storeFile
  BY DEF CrashInAppend
<1>9. sent' \in {sent, sent + 1}
  BY <1>3
<1> QED
  BY <1>1, <1>2, <1>3, <1>4, <1>6, <1>7, <1>8, <1>9

(* Every step leaves each transcript with a session in both stores: the    *)
(* write of sessions.json comes after that of the transcript.              *)
LEMMA FilesStep ==
  ASSUME SessionsInv, SessionsNext
  PROVE  FilesNamed'
<1> USE DEF SessionsInv
<1>0. FilesNamed /\ StoreOK /\ store \in [Key -> Entry \cup {Absent}]
  BY DEF SessionsTypeOK
<1>1. CASE SaveStore
  <2>1. /\ up /\ up' = up /\ store' = store /\ storeFile' = store /\ file' = file
        /\ hist' = hist
    BY <1>1 DEF SaveStore
  <2>2. store # TornStore
    BY <1>0, SessionsAssumption
  <2> QED
    BY <1>0, <2>1, <2>2 DEF FilesNamed, Names
<1>2. CASE Restart
  <2>1. hist'.wiped = (hist.wiped \/ storeFile = TornStore)
    BY <1>2 DEF Restart, SessionsTypeOK, Happenings
  <2>2. /\ storeFile' = storeFile /\ file' = file
        /\ store' = IF storeFile = TornStore THEN [k \in Key |-> Absent] ELSE storeFile
    BY <1>2 DEF Restart, LoadStore, diskVars
  <2> QED
    BY <1>0, <2>1, <2>2 DEF FilesNamed, Names
<1>3. CASE Crash
  <2>1. /\ ~up' /\ hist'.wiped = hist.wiped
        /\ storeFile' = storeFile \/ storeFile' = TornStore
    BY <1>3, DownIs
  <2>2. file' = file
    BY <1>3 DEF Crash
  <2> QED
    BY <1>0, <2>1, <2>2 DEF FilesNamed, Names
<1>4. ASSUME NEW t \in Requester, CrashInAppend(t) PROVE FilesNamed'
  <2>1. ~up' /\ hist'.wiped = hist.wiped
    BY <1>4, DownIs
  <2>2. PICK k \in Key :
          /\ store[k] # Absent /\ ~saving /\ up /\ storeFile' = storeFile
          /\ \A s \in Sid : s # store[k].id => file'[s] = file[s]
    BY <1>4, CutIs
  <2>3. ~hist.wiped => storeFile = store
    BY <1>0, <2>2 DEF StoreOK
  <2> QED
    BY <1>0, <2>1, <2>2, <2>3 DEF FilesNamed, Names
<1>5. CASE Calm /\ Still
  <2>1. /\ storeFile' = storeFile /\ hist'.wiped = hist.wiped /\ file' = file
        /\ \A l \in Key : store[l] # Absent =>
             store'[l] # Absent /\ store'[l].id = store[l].id
    BY <1>5 DEF Calm, CalmData, Still
  <2>2. up
    BY <1>5 DEF Calm, CalmFlags
  <2> QED
    BY <1>0, <2>1, <2>2 DEF FilesNamed, Names
<1>6. ASSUME Calm, NEW k \in Key, NEW m \in Msg, Adds(k, m) PROVE FilesNamed'
  <2>1. /\ storeFile' = storeFile /\ hist'.wiped = hist.wiped
        /\ store[k] # Absent /\ store' = store
    BY <1>6 DEF Calm, CalmData, Adds
  <2>2. up /\ ~saving
    BY <1>6 DEF Calm, CalmFlags, Adds
  <2>3. \A s \in Sid : s # store[k].id => file'[s] = file[s]
    BY <1>6, AddsIs
  <2>4. ~hist.wiped => storeFile = store
    BY <1>0, <2>2 DEF StoreOK
  <2> QED
    BY <1>0, <2>1, <2>2, <2>3, <2>4 DEF FilesNamed, Names
<1>7. ASSUME Calm, NEW k \in Key, Drops(k) PROVE FilesNamed'
  <2>1. /\ storeFile' = storeFile /\ hist'.wiped = hist.wiped
        /\ store[k] # Absent /\ \A l \in Key : l # k => store'[l] = store[l]
    BY <1>7 DEF Calm, CalmData, Drops
  <2>2. up
    BY <1>7 DEF Calm, CalmFlags
  <2>3. /\ file'[store[k].id] = NoFile
        /\ \A s \in Sid : s # store[k].id => file'[s] = file[s]
    BY <1>7, DropsIs
  <2> QED
    BY <1>0, <2>1, <2>2, <2>3 DEF FilesNamed, Names
<1> QED
  BY <1>1, <1>2, <1>3, <1>4, <1>5, <1>6, <1>7, Kinds

(* The contents of the transcripts after a step.                           *)
LEMMA Contents ==
  ASSUME SessionsInv, SessionsNext, NEW s \in Sid
  PROVE  /\ file[s] \in Transcript /\ file'[s] \in Transcript
         /\ InFile(file'[s]) \in SUBSET Msg /\ InFile(file[s]) \in SUBSET Msg
         /\ \A m \in InFile(file'[s]) : m \in InFile(file[s]) \/ m <= sent'
         /\ sent \in Nat /\ sent' \in Nat /\ sent <= sent'
<1> USE DEF SessionsInv
<1>1. /\ SessionsTypeOK /\ SessionsTypeOK' /\ sent \in Nat /\ sent' \in Nat
      /\ file[s] \in Transcript /\ file'[s] \in Transcript
  BY Typing, SessionsAssumption DEF SessionsTypeOK
<1>2. InFile(file'[s]) \in SUBSET Msg /\ InFile(file[s]) \in SUBSET Msg
  BY <1>1, InFileIs
<1>3. /\ sent <= sent'
      /\ \A m \in InFile(file'[s]) : m \in InFile(file[s]) \/ m <= sent'
  <2>1. CASE SaveStore \/ Restart \/ Crash
    <3>1. file' = file /\ sent' = sent
      BY <2>1 DEF SaveStore, Restart, Crash, LoadStore, diskVars
    <3> QED
      BY <1>1, <3>1
  <2>2. ASSUME NEW t \in Requester, CrashInAppend(t)
        PROVE  /\ sent <= sent'
               /\ \A m \in InFile(file'[s]) : m \in InFile(file[s]) \/ m <= sent'
    <3>1. PICK k \in Key, p \in Msg \cup {Part} :
            /\ Wrote(FileOf(k), file'[store[k].id], p) /\ FileOf(k) = file[store[k].id]
            /\ \A z \in Sid : z # store[k].id => file'[z] = file[z]
            /\ sent' \in {sent, sent + 1} /\ CutPiece(p)
      BY <2>2, CutIs
    <3>3. InFile(file'[store[k].id]) = InFile(FileOf(k)) \cup ({p} \ {Part})
      BY <3>1 DEF Wrote
    <3>4. CASE s = store[k].id
      <4>1. file[s] = FileOf(k) /\ InFile(file'[s]) = InFile(file[s]) \cup ({p} \ {Part})
        BY <3>1, <3>3, <3>4
      <4>2. \A m \in {p} \ {Part} : m <= sent'
        BY <1>1, <3>1, SessionsAssumption DEF CutPiece, Msg
      <4> QED
        BY <1>1, <3>1, <4>1, <4>2
    <3>5. CASE s # store[k].id
      BY <1>1, <3>1, <3>5
    <3> QED
      BY <3>4, <3>5
  <2>3. CASE Calm /\ Still
    BY <1>1, <2>3 DEF Calm, CalmData, Still
  <2>4. ASSUME Calm, NEW k \in Key, NEW m \in Msg, Adds(k, m)
        PROVE  /\ sent <= sent'
               /\ \A n \in InFile(file'[s]) : n \in InFile(file[s]) \/ n <= sent'
    <3>1. /\ FileOf(k) = file[store[k].id]
          /\ Wrote(FileOf(k), file'[store[k].id], m)
          /\ \A z \in Sid : z # store[k].id => file'[z] = file[z]
      BY <2>4, AddsIs
    <3>2. m <= sent' /\ sent <= sent'
      BY <1>1, <2>4 DEF Adds
    <3>3. InFile(file'[store[k].id]) = InFile(FileOf(k)) \cup ({m} \ {Part})
      BY <3>1 DEF Wrote
    <3> QED
      BY <3>1, <3>2, <3>3
  <2>5. ASSUME Calm, NEW k \in Key, Drops(k)
        PROVE  /\ sent <= sent'
               /\ \A n \in InFile(file'[s]) : n \in InFile(file[s]) \/ n <= sent'
    <3>1. /\ file'[store[k].id] = NoFile
          /\ \A z \in Sid : z # store[k].id => file'[z] = file[z]
      BY <2>5, DropsIs
    <3>2. InFile(NoFile) = {}
      BY DEF InFile, NoFile
    <3>3. sent <= sent'
      BY <1>1, <2>5 DEF Calm, CalmData
    <3> QED
      BY <3>1, <3>2, <3>3
  <2> QED
    BY <2>1, <2>2, <2>3, <2>4, <2>5, Kinds
<1> QED
  BY <1>1, <1>2, <1>3

(* No step mentions a message that was not sent yet.                       *)
LEMMA NumberedStep ==
  ASSUME SessionsInv, SessionsNext
  PROVE  Numbered'
<1> USE DEF SessionsInv
<1>0. /\ SessionsTypeOK /\ SessionsTypeOK' /\ Numbered /\ sent \in Nat /\ sent' \in Nat
      /\ hist.appended \in SUBSET Msg /\ hist'.appended \in SUBSET Msg /\ Msg \in SUBSET Nat
      /\ ask \in [Requester -> Nat] /\ ask' \in [Requester -> Nat]
      /\ seen \in [Requester -> Seq(Msg)] /\ seen' \in [Requester -> Seq(Msg)]
  <2>1. SessionsTypeOK /\ SessionsTypeOK' /\ Numbered
    BY Typing
  <2>2. MaxMsgs \in Nat /\ Msg \in SUBSET Nat /\ \A n \in 0 .. MaxMsgs : n \in Nat
    BY SessionsAssumption DEF Msg
  <2>3. sent \in Nat /\ sent' \in Nat
    BY <2>1, <2>2 DEF SessionsTypeOK
  <2>4. hist.appended \in SUBSET Msg /\ hist'.appended \in SUBSET Msg
    BY <2>1 DEF SessionsTypeOK, Happenings
  <2>5. /\ ask \in [Requester -> 0 .. MaxMsgs] /\ ask' \in [Requester -> 0 .. MaxMsgs]
        /\ seen \in [Requester -> Seq(Msg)] /\ seen' \in [Requester -> Seq(Msg)]
    BY <2>1 DEF SessionsTypeOK
  <2>6. ask \in [Requester -> Nat] /\ ask' \in [Requester -> Nat]
    BY <2>2, <2>5
  <2> QED
    BY <2>1, <2>2, <2>3, <2>4, <2>5, <2>6
<1>1. sent' \in {sent, sent + 1}
  <2>1. SaveStore \/ Restart \/ Crash => sent' = sent
    BY DEF SaveStore, Restart, Crash
  <2>2. ASSUME NEW t \in Requester, CrashInAppend(t) PROVE sent' \in {sent, sent + 1}
    BY <2>2, CutIs
  <2> QED
    BY <2>1, <2>2, Kinds DEF Calm, CalmData
<1>2. \A s \in Sid : \A m \in InFile(file'[s]) : m <= sent'
  <2> SUFFICES ASSUME NEW s \in Sid, NEW m \in InFile(file'[s]) PROVE m <= sent'
    OBVIOUS
  <2>1. m \in Nat /\ (m \in InFile(file[s]) \/ m <= sent')
    BY <1>0, Contents
  <2>2. CASE m \in InFile(file[s])
    <3>1. m <= sent
      BY <1>0, <2>2 DEF Numbered
    <3>2. sent \in Int /\ sent <= sent'
      BY <1>0, <1>1
    <3> QED
      BY <1>1, <2>1, <3>1, <3>2
  <2> QED
    BY <2>1, <2>2
<1>3. (\A m \in hist'.appended : m <= sent') /\ (\A m \in Msg : replyTo'[m] # 0 => m <= sent')
  <2>1. \/ hist'.appended = hist.appended
        \/ \E m \in Msg : m = sent + 1 /\ sent' = sent + 1
                          /\ hist'.appended = hist.appended \cup {m}
    <3>1. Restart \/ SaveStore => hist'.appended = hist.appended
      BY <1>0 DEF SaveStore, Restart, SessionsTypeOK, Happenings
    <3>2. Crash \/ (\E t \in Requester : CrashInAppend(t)) => hist'.appended = hist.appended
      BY DownIs
    <3> QED
      BY <3>1, <3>2, Kinds DEF Still, Adds, Drops
  <2>2. \A m \in Msg : replyTo'[m] = replyTo[m] \/ (m = sent + 1 /\ sent' = sent + 1)
    <3>1. SaveStore \/ Restart => replyTo' = replyTo
      BY DEF SaveStore, Restart
    <3>2. Crash \/ (\E t \in Requester : CrashInAppend(t)) => replyTo' = replyTo
      BY DownIs
    <3> QED
      BY <3>1, <3>2, Kinds DEF Calm, CalmData
  <2>3. /\ \A m \in hist.appended : m \in Nat /\ m <= sent
        /\ \A m \in Msg : m \in Nat /\ (replyTo[m] # 0 => m <= sent)
    BY <1>0 DEF Numbered
  <2>4. ASSUME NEW m \in hist'.appended PROVE m <= sent'
    <3>1. m \in hist.appended \/ (m = sent + 1 /\ sent' = sent + 1)
      BY <2>1
    <3>2. sent \in Nat /\ sent' \in Nat
      BY <1>0
    <3> QED
      BY <1>1, <2>3, <3>1, <3>2
  <2>5. ASSUME NEW m \in Msg, replyTo'[m] # 0 PROVE m <= sent'
    <3>1. sent \in Nat /\ sent' \in Nat
      BY <1>0
    <3> QED
      BY <1>1, <2>2, <2>3, <2>5, <3>1
  <2> QED
    BY <2>4, <2>5
<1>4. ASSUME NEW t \in Requester
      PROVE  ask'[t] <= sent' /\ \A i \in 1 .. Len(seen'[t]) : seen'[t][i] <= sent'
  <2>0. ask[t] <= sent /\ \A i \in 1 .. Len(seen[t]) : seen[t][i] <= sent
    BY DEF Numbered
  <2>1. \A i \in 1 .. Len(seen[t]) : seen[t][i] \in Nat
    BY <1>0, ElementOfSeq
  <2>2. ask'[t] \in {ask[t], 0, sent'}
    <3>1. CASE Crash \/ \E u \in Requester : CrashInAppend(u)
      BY <3>1, DownIs
    <3>2. ASSUME NEW u \in Requester, AppendUser(u) PROVE ask'[t] \in {ask[t], 0, sent'}
      BY <3>2, <1>0 DEF AppendUser
    <3>3. ASSUME NEW u \in Requester, AppendReply(u) \/ CompactAppend(u) \/ AgentReturns(u)
          PROVE  ask'[t] \in {ask[t], 0, sent'}
      BY <3>3, <1>0 DEF AppendReply, CompactAppend, AgentReturns, Leave
    <3>4. ASSUME NEW u \in Requester,
                 \/ ListSessions(u) \/ SetTitle(u) \/ GetHistory(u) \/ CompactReset(u)
                 \/ \E r \in Spelling : Request(u, r) \/ CompactRead(u, r)
          PROVE  ask' = ask
      BY <3>4 DEF ListSessions, SetTitle, GetHistory, CompactReset, Request, CompactRead
    <3>5. ASSUME NEW k \in Key, DeleteSession(k) \/ Reset(k) \/ Patch(k)
          PROVE  ask' = ask
      BY <3>5 DEF DeleteSession, Reset, Patch, requestVars
    <3>6. SaveStore \/ Restart => ask' = ask
      BY DEF SaveStore, Restart, requestVars
    <3> QED
      BY <3>1, <3>2, <3>3, <3>4, <3>5, <3>6 DEF SessionsNext
  <2>3. ask[t] \in Nat
    BY <1>0
  <2>4. ask'[t] <= sent'
    BY <1>0, <1>1, <2>0, <2>2, <2>3
  <2>5. ASSUME NEW i \in 1 .. Len(seen'[t]) PROVE seen'[t][i] <= sent'
    <3>1. CASE seen'[t] = seen[t]
      BY <1>0, <1>1, <2>0, <2>1, <2>5, <3>1
    <3>2. CASE Crash \/ \E u \in Requester : CrashInAppend(u)
      <4>1. seen'[t] = <<>>
        BY <3>2, DownIs
      <4> QED
        BY <2>5, <4>1
    <3>3. ASSUME NEW r \in Spelling, CompactRead(t, r) PROVE seen'[t][i] <= sent'
      <4>1. /\ Normal[r] \in Key /\ CompactKeep \in Nat \ {0} /\ sent' = sent
            /\ seen'[t] = LastN(History(Normal[r]), CompactKeep)
        BY <3>3, <1>0, Looked, SessionsAssumption DEF CompactRead
      <4>2. /\ History(Normal[r]) \in Seq(Msg)
            /\ \A j \in 1 .. Len(History(Normal[r])) :
                 store[Normal[r]] # Absent
                 /\ History(Normal[r])[j] \in InFile(FileOf(Normal[r]))
        BY <4>1, HistoryIs
      <4>3. PICK h : h = History(Normal[r])
        OBVIOUS
      <4>4. PICK j \in 1 .. Len(h) : LastN(h, CompactKeep)[i] = h[j]
        <5>1. PICK n \in Nat \ {0} : n = CompactKeep
          BY <4>1
        <5>2. h \in Seq(Msg)
          BY <4>2, <4>3
        <5>3. i \in 1 .. Len(LastN(h, n))
          BY <2>5, <4>1, <4>3, <5>1
        <5>4. /\ Len(h) - Len(LastN(h, n)) + i \in 1 .. Len(h)
              /\ LastN(h, n)[i] = h[Len(h) - Len(LastN(h, n)) + i]
          BY <5>2, <5>3, LastNIs
        <5> QED
          BY <5>1, <5>4
      <4>5. \A k \in Key : store[k] # Absent => store[k].id \in Sid
        BY Looked
      <4> QED
        BY <4>1, <4>2, <4>3, <4>4, <4>5 DEF Numbered, FileOf
    <3>4. CASE CompactAppend(t)
      <4>1. /\ seen[t] # <<>> /\ seen[t] \in Seq(Msg) /\ seen'[t] = Tail(seen[t])
            /\ sent' = sent
        BY <3>4, <1>0 DEF CompactAppend, ThreadsOK
      <4>2. /\ Len(seen[t]) \in Nat /\ Len(Tail(seen[t])) = Len(seen[t]) - 1
            /\ \A j \in 1 .. Len(Tail(seen[t])) : Tail(seen[t])[j] = seen[t][j + 1]
        BY <4>1, HeadTailProperties
      <4>3. i + 1 \in 1 .. Len(seen[t]) /\ seen'[t][i] = seen[t][i + 1]
        BY <2>5, <4>1, <4>2
      <4> QED
        BY <2>0, <4>1, <4>3
    <3>5. \/ seen'[t] = seen[t]
          \/ Crash \/ \E u \in Requester : CrashInAppend(u)
          \/ CompactAppend(t) \/ \E r \in Spelling : CompactRead(t, r)
      <4>1. SaveStore \/ Restart => seen' = seen
        BY DEF SaveStore, Restart, requestVars
      <4>2. ASSUME NEW k \in Key, DeleteSession(k) \/ Reset(k) \/ Patch(k)
            PROVE  seen' = seen
        BY <4>2 DEF DeleteSession, Reset, Patch, requestVars
      <4>3. ASSUME NEW u \in Requester,
                   \/ ListSessions(u) \/ SetTitle(u) \/ GetHistory(u) \/ CompactReset(u)
                   \/ AppendUser(u) \/ AppendReply(u) \/ AgentReturns(u)
                   \/ \E r \in Spelling : Request(u, r)
            PROVE  seen' = seen
        BY <4>3 DEF ListSessions, SetTitle, GetHistory, CompactReset, Request, AppendUser,
                    AppendReply, AgentReturns
      <4>4. ASSUME NEW u \in Requester, u # t,
                   CompactAppend(u) \/ \E r \in Spelling : CompactRead(u, r)
            PROVE  seen'[t] = seen[t]
        BY <4>4, <1>0 DEF CompactAppend, CompactRead
      <4> QED
        BY <4>1, <4>2, <4>3, <4>4 DEF SessionsNext
    <3> QED
      BY <3>1, <3>2, <3>3, <3>4, <3>5
  <2> QED
    BY <2>4, <2>5
<1> QED
  BY <1>2, <1>3, <1>4 DEF Numbered

(* What SaveStore, a restart, a crash between two writes and the steps that *)
(* write no message leave alone.                                           *)
Quiet ==
  /\ file' = file /\ archived' = archived
  /\ hist'.appended = hist.appended /\ hist'.deleted = hist.deleted
  /\ hist'.cuts = hist.cuts /\ hist.loose \subseteq hist'.loose
  /\ \A m \in Msg : replyTo'[m] = replyTo[m] \/ (m = sent + 1 /\ sent' = sent + 1)

(* A step that is not quiet writes a message, removes a transcript or cuts *)
(* a line off.                                                             *)
LEMMA DiskStep ==
  ASSUME SessionsInv, SessionsNext
  PROVE  \/ Quiet
         \/ \E t \in Requester : CrashInAppend(t)
         \/ Calm /\ \/ \E k \in Key, m \in Msg : Adds(k, m)
                    \/ \E k \in Key : Drops(k)
<1>1. CASE SaveStore
  BY <1>1 DEF SaveStore, Quiet
<1>2. CASE Restart
  <2>1. file' = file /\ archived' = archived /\ replyTo' = replyTo
    BY <1>2 DEF Restart, LoadStore, diskVars
  <2>2. /\ hist'.appended = hist.appended /\ hist'.deleted = hist.deleted
        /\ hist'.cuts = hist.cuts /\ hist'.loose = hist.loose
    BY <1>2 DEF Restart, SessionsInv, SessionsTypeOK, Happenings
  <2> QED
    BY <2>1, <2>2 DEF Quiet
<1>3. CASE Crash
  <2>1. /\ archived' = archived /\ hist'.appended = hist.appended
        /\ hist'.deleted = hist.deleted /\ hist.loose \subseteq hist'.loose
        /\ replyTo' = replyTo
    BY <1>3, DownIs
  <2>2. file' = file
    BY <1>3 DEF Crash
  <2>3. hist'.cuts = hist.cuts
    BY <1>3 DEF Crash, GoDown, SessionsInv, SessionsTypeOK, Happenings
  <2> QED
    BY <2>1, <2>2, <2>3 DEF Quiet
<1>4. CASE Calm /\ Still
  BY <1>4 DEF Calm, CalmData, Still, Quiet
<1> QED
  BY <1>1, <1>2, <1>3, <1>4, Kinds

(* A message is in a line of a transcript only if it was sent.             *)
LEMMA LineSent ==
  ASSUME SessionsInv, NEW s \in Sid, NEW i \in 1 .. Len(file[s].lines),
         NEW m \in file[s].lines[i]
  PROVE  m <= sent /\ m # sent + 1 /\ file[s].lines[i] \in FileLine
<1>1. file[s] \in Transcript /\ sent \in Nat
  BY Looked DEF SessionsInv
<1>2. file[s].lines[i] \in FileLine
  BY <1>1, InFileIs
<1>3. CASE m = Part
  BY <1>1, <1>2, <1>3 DEF Part
<1>4. CASE m # Part
  <2>1. m \in InFile(file[s])
    BY <1>1, <1>4, InFileIs
  <2>2. m <= sent
    BY <2>1 DEF SessionsInv, Numbered
  <2>3. m \in Nat
    BY <1>2, <1>4, SessionsAssumption DEF FileLine, Msg
  <2> QED
    BY <1>1, <1>2, <2>2, <2>3
<1> QED
  BY <1>3, <1>4

(* A crash in a write changes nothing in what the transcripts owe.         *)
LEMMA OwedKept ==
  ASSUME SessionsInv, NEW t \in Requester, CrashInAppend(t)
  PROVE  Owed' = Owed
<1>1. /\ archived' = archived /\ hist'.appended = hist.appended
      /\ hist'.deleted = hist.deleted
  BY DownIs
<1> QED
  BY <1>1 DEF Owed

(* The line that a crash cut off holds nothing that is owed, not even       *)
(* after a further message of another session.                             *)
LEMMA CutHolds ==
  ASSUME SessionsInv, NEW s \in Sid, file[s].cut,
         Owed' \subseteq Owed \cup {sent + 1}
  PROVE  /\ file[s].lines # <<>>
         /\ Len(file[s].lines) \in 1 .. Len(file[s].lines)
         /\ Last(file[s].lines) = file[s].lines[Len(file[s].lines)]
         /\ Last(file[s].lines) \cap Owed' = {}
<1>1. /\ file[s] \in Transcript /\ file[s].lines # <<>>
      /\ Last(file[s].lines) \cap Owed = {}
  BY Looked DEF SessionsInv, CutLines, CutFiles
<1>2. /\ Len(file[s].lines) \in 1 .. Len(file[s].lines)
      /\ Last(file[s].lines) = file[s].lines[Len(file[s].lines)]
  <2>1. Len(file[s].lines) \in Nat /\ Len(file[s].lines) # 0
    BY <1>1, InFileIs, EmptySeq
  <2> QED
    BY <2>1 DEF Last
<1>3. sent + 1 \notin Last(file[s].lines)
  <2>1. ASSUME sent + 1 \in file[s].lines[Len(file[s].lines)] PROVE FALSE
    BY <1>2, <2>1, LineSent
  <2> QED
    BY <1>2, <2>1
<1> QED
  BY <1>1, <1>2, <1>3

(* A line that holds a part of a message keeps to the file that was cut,   *)
(* and to the messages that are not owed.                                  *)
LEMMA CutLinesStep ==
  ASSUME SessionsInv, SessionsNext
  PROVE  CutLines'
<1>0. CutLines /\ Part \notin Owed /\ sent + 1 \notin Owed /\ Owed \subseteq Msg
  <2>1. hist.appended \subseteq Msg /\ sent \in Nat /\ \A m \in hist.appended : m <= sent
    BY SessionsAssumption DEF SessionsInv, SessionsTypeOK, Happenings, Numbered
  <2>2. Part \notin Msg
    BY DEF Part, Msg
  <2> QED
    BY <2>1, <2>2 DEF SessionsInv, Owed
<1>1. CASE Quiet
  BY <1>0, <1>1 DEF Quiet, CutLines, CutFiles, Owed
<1>2. ASSUME NEW t \in Requester, CrashInAppend(t) PROVE CutLines'
  <2>1. Owed' = Owed
    BY <1>2, OwedKept
  <2>2. PICK k \in Key, p \in Msg \cup {Part} :
          /\ FileOf(k) = file[store[k].id]
          /\ Wrote(FileOf(k), file'[store[k].id], p)
          /\ \A z \in Sid : z # store[k].id => file'[z] = file[z]
          /\ store[k].id \in Sid /\ CutPiece(p)
    BY <1>2, CutIs
  <2>3. PICK f, g :
          f = file[store[k].id] /\ g = file'[store[k].id] /\ Wrote(f, g, p)
    BY <2>2
  <2>4. /\ g.lines # <<>>
        /\ f.cut => Last(g.lines) = Last(f.lines) \cup {p}
        /\ ~f.cut => Last(g.lines) = {p}
    BY <2>2, <2>3 DEF Wrote
  <2>5. f.cut \in BOOLEAN /\ (f.cut => Last(f.lines) \cap Owed = {})
    BY <2>2, <2>3 DEF SessionsInv, CutLines, CutFiles, Wrote
  <2>7. p \notin Owed
    BY <1>0, <2>2 DEF CutPiece, Gone, Owed
  <2>6. Last(g.lines) \cap Owed = {}
    BY <2>4, <2>5, <2>7
  <2> QED
    BY <1>0, <2>1, <2>2, <2>3, <2>4, <2>6 DEF CutLines, CutFiles
<1>3. ASSUME NEW k \in Key, NEW m \in Msg, Adds(k, m) PROVE CutLines'
  <2>1. /\ Wrote(FileOf(k), file'[store[k].id], m) /\ FileOf(k) = file[store[k].id]
        /\ ~file'[store[k].id].cut
        /\ \A z \in Sid : z # store[k].id => file'[z] = file[z]
    BY <1>3, AddsIs
  <2>2. PICK f, g, p :
          f = file[store[k].id] /\ g = file'[store[k].id] /\ p = m /\ Wrote(f, g, p)
    BY <2>1
  <2>3. ~g.cut
    BY <2>1, <2>2
  <2>4. ~file'[store[k].id].cut
    BY <2>1, <2>2, <2>3
  <2>5. Owed' \subseteq Owed \cup {sent + 1}
    BY <1>3 DEF Adds, Owed
  <2>6. \A s \in Sid : file[s].cut => file[s].lines # <<>>
                                      /\ Last(file[s].lines) \cap Owed' = {}
    BY <2>5, CutHolds
  <2> QED
    BY <2>1, <2>4, <2>6 DEF CutLines, CutFiles
<1>4. ASSUME NEW k \in Key, Drops(k) PROVE CutLines'
  <2>1. /\ file'[store[k].id] = NoFile
        /\ \A z \in Sid : z # store[k].id => file'[z] = file[z]
    BY <1>4, DropsIs
  <2>2. Owed' \subseteq Owed /\ ~NoFile.cut
    BY <1>4 DEF Drops, NoFile, Owed
  <2> QED
    BY <1>0, <2>1, <2>2 DEF CutLines, CutFiles
<1> QED
  BY <1>1, <1>2, <1>3, <1>4, DiskStep

(* The unreadable messages are the garbled ones that are owed, and         *)
(* there are finitely many.                                                *)
LEMMA UnreadableIs ==
  ASSUME SessionsTypeOK
  PROVE  /\ Unreadable = {m \in Owed : \E s \in Sid : m \in Garbled(file[s])}
         /\ IsFiniteSet(Unreadable) /\ Cardinality(Unreadable) \in Nat
<1>1. Owed \subseteq Msg
  BY DEF SessionsTypeOK, Happenings, Owed
<1>2. Unreadable = {m \in Owed : \E s \in Sid : m \in Garbled(file[s])}
  BY <1>1 DEF Unreadable, Garbled
<1>3. IsFiniteSet(Msg)
  BY FS_Interval, SessionsAssumption DEF Msg
<1>4. Unreadable \in SUBSET Msg
  BY <1>1 DEF Unreadable
<1>5. IsFiniteSet(Unreadable)
  BY <1>3, <1>4, FS_Subset
<1> QED
  BY <1>2, <1>5, FS_CardinalityType

(* Sums of cardinalities: nothing more, or one element less in C for one   *)
(* more in U; and one more in C.                                           *)
LEMMA Sums ==
  ASSUME NEW U, NEW C, NEW V, NEW D, NEW x, NEW y, IsFiniteSet(U), IsFiniteSet(C)
  PROVE  /\ V \subseteq U /\ D \subseteq C =>
              IsFiniteSet(D) /\ Cardinality(V) + Cardinality(D) <= Cardinality(U) + Cardinality(C)
         /\ V \subseteq U \cup {x} /\ y \in C /\ D \subseteq C \ {y} =>
              IsFiniteSet(D) /\ Cardinality(V) + Cardinality(D) <= Cardinality(U) + Cardinality(C)
         /\ V \subseteq U /\ D \subseteq C \cup {y} =>
              IsFiniteSet(D) /\ Cardinality(V) + Cardinality(D) <= Cardinality(U) + Cardinality(C) + 1
<1>1. Cardinality(U) \in Nat /\ Cardinality(C) \in Nat
  BY FS_CardinalityType
<1>2. ASSUME NEW A, NEW B, IsFiniteSet(A), IsFiniteSet(B), V \subseteq A, D \subseteq B
      PROVE  /\ IsFiniteSet(D)
             /\ Cardinality(V) + Cardinality(D) <= Cardinality(A) + Cardinality(B)
  <2>1. V \in SUBSET A /\ D \in SUBSET B
    BY <1>2
  <2>2. /\ IsFiniteSet(V) /\ IsFiniteSet(D)
        /\ Cardinality(V) <= Cardinality(A) /\ Cardinality(D) <= Cardinality(B)
    BY <1>2, <2>1, FS_Subset
  <2>3. /\ Cardinality(V) \in Nat /\ Cardinality(D) \in Nat
        /\ Cardinality(A) \in Nat /\ Cardinality(B) \in Nat
    BY <1>2, <2>2, FS_CardinalityType
  <2> QED
    BY <2>2, <2>3
<1>3. /\ IsFiniteSet(U \cup {x}) /\ IsFiniteSet(C \cup {y}) /\ IsFiniteSet(C \ {y})
      /\ Cardinality(U \cup {x}) <= Cardinality(U) + 1
      /\ Cardinality(C \cup {y}) <= Cardinality(C) + 1
      /\ y \in C => Cardinality(C \ {y}) = Cardinality(C) - 1
  <2>1. IsFiniteSet(U \cup {x}) /\ Cardinality(U \cup {x}) <= Cardinality(U) + 1
    BY <1>1, FS_AddElement
  <2>2. IsFiniteSet(C \cup {y}) /\ Cardinality(C \cup {y}) <= Cardinality(C) + 1
    <3>1. /\ IsFiniteSet(C \cup {y})
          /\ Cardinality(C \cup {y}) = IF y \in C THEN Cardinality(C) ELSE Cardinality(C) + 1
      BY FS_AddElement
    <3> QED
      BY <1>1, <3>1
  <2>3. IsFiniteSet(C \ {y}) /\ (y \in C => Cardinality(C \ {y}) = Cardinality(C) - 1)
    BY FS_RemoveElement
  <2> QED
    BY <2>1, <2>2, <2>3
<1>4. ASSUME V \subseteq U, D \subseteq C
      PROVE  /\ IsFiniteSet(D)
             /\ Cardinality(V) + Cardinality(D) <= Cardinality(U) + Cardinality(C)
  BY <1>2, <1>4
<1>5. ASSUME V \subseteq U \cup {x}, y \in C, D \subseteq C \ {y}
      PROVE  /\ IsFiniteSet(D)
             /\ Cardinality(V) + Cardinality(D) <= Cardinality(U) + Cardinality(C)
  <2>1. /\ IsFiniteSet(D) /\ IsFiniteSet(V)
        /\ Cardinality(V) + Cardinality(D) <= Cardinality(U \cup {x}) + Cardinality(C \ {y})
    BY <1>2, <1>3, <1>5, FS_Subset
  <2>2. /\ Cardinality(V) \in Nat /\ Cardinality(D) \in Nat /\ Cardinality(U \cup {x}) \in Nat
        /\ Cardinality(C \ {y}) \in Nat
    BY <1>3, <2>1, FS_CardinalityType
  <2> QED
    BY <1>1, <1>3, <1>5, <2>1, <2>2
<1>6. ASSUME V \subseteq U, D \subseteq C \cup {y}
      PROVE  /\ IsFiniteSet(D)
             /\ Cardinality(V) + Cardinality(D) <= Cardinality(U) + Cardinality(C) + 1
  <2>1. /\ IsFiniteSet(D) /\ IsFiniteSet(V)
        /\ Cardinality(V) + Cardinality(D) <= Cardinality(U) + Cardinality(C \cup {y})
    BY <1>2, <1>3, <1>6, FS_Subset
  <2>2. /\ Cardinality(V) \in Nat /\ Cardinality(D) \in Nat /\ Cardinality(C \cup {y}) \in Nat
    BY <1>3, <2>1, FS_CardinalityType
  <2> QED
    BY <1>1, <1>3, <2>1, <2>2
<1> QED
  BY <1>4, <1>5, <1>6

(* Every cut is counted, and makes at most one message unreadable.         *)
LEMMA CutsCountedStep ==
  ASSUME SessionsInv, SessionsNext
  PROVE  CutsCounted'
<1> DEFINE U == Unreadable
           C == CutFiles
           Fits == /\ IsFiniteSet(CutFiles')
                   /\ Cardinality(Unreadable') + Cardinality(CutFiles') <= hist'.cuts
<1>0. /\ IsFiniteSet(U) /\ IsFiniteSet(C) /\ Cardinality(U) \in Nat /\ Cardinality(C) \in Nat
      /\ Cardinality(U) + Cardinality(C) <= hist.cuts /\ hist.cuts \in Nat
      /\ Owed \in SUBSET Msg /\ Owed' \in SUBSET Msg
      /\ \A m \in Msg : m \in Unreadable <=>
           m \in Owed /\ \E s \in Sid : m \in Garbled(file[s])
      /\ \A m \in Msg : m \in Unreadable' <=>
           m \in Owed' /\ \E s \in Sid : m \in Garbled(file'[s])
      /\ Unreadable' \in SUBSET Msg
  <2>1. SessionsTypeOK /\ SessionsTypeOK'
    BY Typing DEF SessionsInv
  <2>2. hist.cuts \in Nat /\ Owed \in SUBSET Msg /\ Owed' \in SUBSET Msg
    BY <2>1 DEF SessionsTypeOK, Happenings, Owed
  <2>3. /\ IsFiniteSet(U) /\ Cardinality(U) \in Nat
        /\ Unreadable = {m \in Owed : \E s \in Sid : m \in Garbled(file[s])}
    BY <2>1, UnreadableIs
  <2>4. Unreadable' = {m \in Owed' : \E s \in Sid : m \in Garbled(file'[s])}
    <3>1. Owed' \subseteq Msg
      BY <2>2
    <3> QED
      BY <3>1 DEF Unreadable, Garbled
  <2>5. /\ IsFiniteSet(C) /\ Cardinality(U) + Cardinality(C) <= hist.cuts
    BY DEF SessionsInv, CutsCounted
  <2>6. Cardinality(C) \in Nat
    BY <2>5, FS_CardinalityType
  <2> QED
    BY <2>2, <2>3, <2>4, <2>5, <2>6
<1> HIDE DEF U, C
<1>1. CASE Quiet
  <2>1. Unreadable' = U /\ CutFiles' = C /\ hist'.cuts = hist.cuts
    BY <1>1 DEF Quiet, Owed, Unreadable, CutFiles, U, C
  <2> QED
    BY <1>0, <2>1 DEF CutsCounted
<1>R. PICK V, D : V = Unreadable' /\ D = CutFiles'
  OBVIOUS
<1>2. ASSUME NEW t \in Requester, CrashInAppend(t) PROVE Fits
  <2>1. Owed' = Owed
    BY <1>2, OwedKept
  <2>2. PICK k \in Key, p \in Msg \cup {Part} :
          /\ FileOf(k) = file[store[k].id]
          /\ Wrote(FileOf(k), file'[store[k].id], p)
          /\ \A z \in Sid : z # store[k].id => file'[z] = file[z]
          /\ store[k].id \in Sid /\ hist'.cuts = hist.cuts + 1 /\ CutPiece(p)
    BY <1>2, CutIs
  <2>3. PICK f, g :
          f = file[store[k].id] /\ g = file'[store[k].id] /\ Wrote(f, g, p)
    BY <2>2
  <2>4. \A m \in Garbled(g) : \/ m \in Garbled(f) \/ m = p
                              \/ f.cut /\ m \in Last(f.lines)
    BY <2>2, <2>3 DEF Wrote
  <2>5. f.cut => Last(f.lines) \cap Owed = {}
    BY <2>2, <2>3 DEF SessionsInv, CutLines, CutFiles
  <2>6. p \notin Owed
    <3>1. sent \in Nat /\ \A m \in Owed : m \in Nat \ {0} /\ m <= sent
      BY <1>0, Looked, SessionsAssumption DEF SessionsInv, Numbered, Msg, Owed
    <3> QED
      BY <2>2, <3>1 DEF Part, CutPiece, Gone, Owed
  <2>7. Unreadable' \subseteq U
    <3> SUFFICES ASSUME NEW m \in Unreadable' PROVE m \in U
      OBVIOUS
    <3>1. m \in Msg /\ m \in Owed
      BY <1>0, <2>1
    <3>2. PICK s \in Sid : m \in Garbled(file'[s])
      BY <1>0, <3>1
    <3>3. CASE s = store[k].id
      <4>1. m \in Garbled(g)
        BY <2>2, <2>3, <3>2, <3>3
      <4>2. m \in Garbled(file[s])
        BY <2>2, <2>3, <2>4, <2>5, <2>6, <3>1, <3>3, <4>1
      <4> QED
        BY <1>0, <3>1, <4>2 DEF U
    <3>4. CASE s # store[k].id
      BY <1>0, <2>2, <3>1, <3>2, <3>4 DEF U
    <3> QED
      BY <3>3, <3>4
  <2>8. CutFiles' \subseteq C \cup {store[k].id}
    BY <2>2 DEF CutFiles, C
  <2>9. /\ IsFiniteSet(D)
        /\ Cardinality(V) + Cardinality(D) <= Cardinality(U) + Cardinality(C) + 1
    <3>1. PICK y : y = store[k].id
      OBVIOUS
    <3>2. V \subseteq U /\ D \subseteq C \cup {y}
      BY <1>R, <2>7, <2>8, <3>1
    <3>3. V \subseteq U /\ D \subseteq C \cup {y} =>
            /\ IsFiniteSet(D)
            /\ Cardinality(V) + Cardinality(D) <= Cardinality(U) + Cardinality(C) + 1
      BY <1>0, Sums
    <3> QED
      BY <3>2, <3>3
  <2>10. V \in SUBSET U
    BY <1>R, <2>7
  <2>11. IsFiniteSet(V) /\ Cardinality(V) \in Nat /\ Cardinality(D) \in Nat
    BY <1>0, <2>9, <2>10, FS_Subset, FS_CardinalityType
  <2> QED
    BY <1>0, <1>R, <2>2, <2>9, <2>11
<1>3. ASSUME NEW k \in Key, NEW m \in Msg, Calm, Adds(k, m) PROVE Fits
  <2>1. /\ Wrote(FileOf(k), file'[store[k].id], m) /\ FileOf(k) = file[store[k].id]
        /\ ~file'[store[k].id].cut
        /\ \A z \in Sid : z # store[k].id => file'[z] = file[z]
        /\ store[k].id \in Sid /\ FileOf(k) = file[store[k].id]
    BY <1>3, AddsIs
  <2>2. PICK f, g, p :
          f = file[store[k].id] /\ g = file'[store[k].id] /\ p = m /\ Wrote(f, g, p)
    BY <2>1
  <2>3. ~g.cut
    BY <2>1, <2>2
  <2>4. CutFiles' \subseteq C \ {store[k].id}
    <3>1. ~file'[store[k].id].cut
      BY <2>1, <2>2, <2>3
    <3> QED
      BY <2>1, <3>1 DEF CutFiles, C
  <2>5. \A n \in Garbled(g) :
          \/ n \in Garbled(f)
          \/ f.cut /\ (n = p \/ n \in Last(f.lines))
          \/ ~f.cut /\ n = p /\ ~Parses({p})
    BY <2>2 DEF Wrote
  <2>6. Parses({p})
    BY <2>2, SingleLine
  <2>7. Owed' \subseteq Owed \cup {sent + 1} /\ hist'.cuts = hist.cuts
    BY <1>3 DEF Adds, Calm, CalmData, Owed
  <2>8. f.cut => Last(f.lines) \cap Owed' = {}
    BY <2>1, <2>2, <2>7, CutHolds
  <2>9. \A s \in Sid : \A n \in Garbled(file[s]) : n # sent + 1
    BY LineSent DEF Garbled
  <2>10. ASSUME NEW n \in Unreadable' PROVE n \in U \/ (f.cut /\ n = m)
    <3>1. n \in Msg /\ n \in Owed'
      BY <1>0
    <3>2. PICK s \in Sid : n \in Garbled(file'[s])
      BY <1>0, <3>1
    <3>3. ASSUME n \in Garbled(file[s]) PROVE n \in U
      <4>1. n \in Owed
        BY <2>7, <2>9, <3>1, <3>3
      <4> QED
        BY <1>0, <3>1, <3>3, <4>1 DEF U
    <3>4. CASE s = store[k].id
      <4>1. n \in Garbled(g)
        BY <2>1, <2>2, <3>2, <3>4
      <4>2. n \in Garbled(file[s]) \/ (f.cut /\ n = m)
        BY <2>1, <2>2, <2>5, <2>6, <2>8, <3>1, <3>4, <4>1
      <4> QED
        BY <3>3, <4>2
    <3>5. CASE s # store[k].id
      BY <2>1, <3>2, <3>3, <3>5
    <3> QED
      BY <3>4, <3>5
  <2>11. store[k].id \in C <=> f.cut
    BY <2>1, <2>2 DEF C, CutFiles
  <2>12. \/ V \subseteq U /\ D \subseteq C
         \/ V \subseteq U \cup {m} /\ store[k].id \in C /\ D \subseteq C \ {store[k].id}
    BY <1>R, <2>4, <2>10, <2>11
  <2>13. PICK y : y = store[k].id
    OBVIOUS
  <2>14. /\ IsFiniteSet(D)
         /\ Cardinality(V) + Cardinality(D) <= Cardinality(U) + Cardinality(C)
    BY <1>0, <2>12, <2>13, Sums
  <2>15. IsFiniteSet(V)
    <3>1. V \in SUBSET (U \cup {m}) /\ IsFiniteSet(U \cup {m})
      BY <1>0, <2>12, FS_AddElement
    <3> QED
      BY <3>1, FS_Subset
  <2>16. Cardinality(V) \in Nat /\ Cardinality(D) \in Nat
    BY <2>14, <2>15, FS_CardinalityType
  <2> QED
    BY <1>0, <1>R, <2>7, <2>14, <2>16
<1>4. ASSUME NEW k \in Key, Calm, Drops(k) PROVE Fits
  <2>1. /\ file'[store[k].id] = NoFile
        /\ \A z \in Sid : z # store[k].id => file'[z] = file[z]
        /\ store[k].id \in Sid
    BY <1>4, DropsIs
  <2>2. Owed' \subseteq Owed /\ hist'.cuts = hist.cuts
    BY <1>4 DEF Drops, Calm, CalmData, Owed
  <2>3. Garbled(NoFile) = {} /\ ~NoFile.cut
    BY DEF Garbled, NoFile
  <2>4. Unreadable' \subseteq U
    <3> SUFFICES ASSUME NEW m \in Unreadable' PROVE m \in U
      OBVIOUS
    <3>1. m \in Msg /\ m \in Owed /\ \E s \in Sid : m \in Garbled(file'[s])
      BY <1>0, <2>2
    <3>2. \E s \in Sid : m \in Garbled(file[s])
      BY <2>1, <2>3, <3>1
    <3> QED
      BY <1>0, <3>1, <3>2 DEF U
  <2>5. CutFiles' \subseteq C
    BY <2>1, <2>3 DEF CutFiles, C
  <2>6. /\ IsFiniteSet(D)
        /\ Cardinality(V) + Cardinality(D) <= Cardinality(U) + Cardinality(C)
    <3>1. V \subseteq U /\ D \subseteq C
      BY <1>R, <2>4, <2>5
    <3>2. V \subseteq U /\ D \subseteq C =>
            /\ IsFiniteSet(D)
            /\ Cardinality(V) + Cardinality(D) <= Cardinality(U) + Cardinality(C)
      BY <1>0, Sums
    <3> QED
      BY <3>1, <3>2
  <2>7. V \in SUBSET U
    BY <1>R, <2>4
  <2>8. IsFiniteSet(V) /\ Cardinality(V) \in Nat /\ Cardinality(D) \in Nat
    BY <1>0, <2>6, <2>7, FS_Subset, FS_CardinalityType
  <2> QED
    BY <1>0, <1>R, <2>2, <2>6, <2>8
<1> QED
  BY <1>1, <1>2, <1>3, <1>4, DiskStep DEF CutsCounted

-----------------------------------------------------------------------------
(* Questions and their answers *)

(* A thread between its question and the last answer has just put the      *)
(* question, or goes on with it.                                           *)
LEMMA Waiting ==
  ASSUME SessionsInv, SessionsNext, NEW t \in Requester,
         pc'[t] \in {"history", "agent", "reply"}, since'[t] # "moved"
  PROVE  \/ AppendUser(t)
         \/ /\ pc[t] \in {"history", "agent", "reply"} /\ raw'[t] = raw[t] /\ ask'[t] = ask[t]
            /\ since[t] # "moved" /\ since'[t] \in {since[t], "shared"}
            /\ pc'[t] = "history" => pc[t] = "history"
<1> DEFINE Goes ==
      /\ pc[t] \in {"history", "agent", "reply"} /\ raw'[t] = raw[t] /\ ask'[t] = ask[t]
      /\ since[t] # "moved" /\ since'[t] \in {since[t], "shared"}
      /\ pc'[t] = "history" => pc[t] = "history"
<1>0. /\ pc \in [Requester -> Pc] /\ raw \in [Requester -> Spelling \cup {NoKey}]
      /\ ask \in [Requester -> 0 .. MaxMsgs]
      /\ since \in [Requester -> {"alone", "shared", "moved"}]
      /\ \A u \in Requester : (~up => pc[u] = "idle")
  BY DEF SessionsInv, SessionsTypeOK, ThreadsOK
<1>1. CASE Crash \/ \E u \in Requester : CrashInAppend(u)
  BY <1>1, DownIs
<1>2. CASE SaveStore \/ Restart
  BY <1>2, <1>0 DEF SaveStore, Restart, requestVars
<1>3. ASSUME NEW k, since' = Moved(k) PROVE since'[t] = since[t]
  BY <1>3, <1>0 DEF Moved
<1>4. ASSUME NEW k, NEW u \in Requester, since' = Shared(k, u)
      PROVE  since[t] # "moved" /\ since'[t] \in {since[t], "shared"}
  BY <1>4, <1>0 DEF Shared
<1>5. ASSUME NEW k \in Key, DeleteSession(k) \/ Reset(k) \/ Patch(k) PROVE Goes
  <2>1. pc' = pc /\ raw' = raw /\ ask' = ask /\ (since' = Moved(k) \/ since' = since)
    BY <1>5 DEF DeleteSession, Reset, Patch, requestVars
  <2> QED
    BY <1>3, <2>1
<1>6. ASSUME NEW u \in Requester, ListSessions(u) \/ SetTitle(u) \/ GetHistory(u) PROVE Goes
  <2>1. raw' = raw /\ ask' = ask /\ since' = since
    BY <1>6 DEF ListSessions, SetTitle, GetHistory
  <2>2. pc'[t] = pc[t] \/ (pc'[t] = "agent" /\ pc[t] = "history")
    BY <1>6, <1>0 DEF ListSessions, SetTitle, GetHistory, GoOn
  <2> QED
    BY <2>1, <2>2
<1>7. ASSUME NEW u \in Requester, CompactReset(u) PROVE Goes
  <2>1. raw' = raw /\ ask' = ask /\ since' = Moved(Normal[raw[u]]) /\ pc'[t] = pc[t]
    BY <1>7, <1>0 DEF CompactReset, GoOn
  <2> QED
    BY <1>3, <2>1
<1>8. ASSUME NEW u \in Requester, NEW r \in Spelling, Request(u, r) \/ CompactRead(u, r)
      PROVE  Goes
  <2>1. u # t /\ pc'[t] = pc[t] /\ ask' = ask /\ since' = since
    BY <1>8, <1>0 DEF Request, CompactRead, GoOn
  <2>2. raw'[t] = raw[t]
    BY <1>8, <1>0, <2>1 DEF Request, CompactRead
  <2> QED
    BY <2>1, <2>2
<1>9. ASSUME NEW u \in Requester, u # t, AppendUser(u) PROVE Goes
  <2>1. pc'[t] = pc[t] /\ raw' = raw /\ ask'[t] = ask[t]
      /\ since'[t] = Shared(Normal[raw[u]], u)[t]
    BY <1>9, <1>0 DEF AppendUser, GoOn, Shared
  <2> QED
    BY <2>1, <1>0 DEF Shared
<1>10. ASSUME NEW u \in Requester, NEW last \in BOOLEAN, NEW where, NEW s,
              where # "history", Leave(u, last, where, s),
              s \in [Requester -> {"alone", "shared", "moved"}], u = t => pc[t] \in {"agent", "reply"},
              s[t] # "moved" => since[t] # "moved" /\ s[t] \in {since[t], "shared"}
       PROVE  Goes
  <2>1. CASE u = t
    BY <1>10, <1>0, <2>1 DEF Leave
  <2>2. CASE u # t
    BY <1>10, <1>0, <2>2 DEF Leave
  <2> QED
    BY <2>1, <2>2
<1>11. ASSUME NEW u \in Requester, AgentReturns(u) PROVE Goes
  <2>1. PICK n \in 0 .. MaxReplies : Leave(u, n = 0, "reply", since)
    BY <1>11 DEF AgentReturns
  <2>2. pc[u] = "agent"
    BY <1>11 DEF AgentReturns
  <2>3. PICK last \in BOOLEAN : last = (n = 0)
    OBVIOUS
  <2> QED
    BY <1>0, <1>10, <2>1, <2>2, <2>3
<1>12. ASSUME NEW u \in Requester, AppendReply(u) PROVE Goes
  <2>1. pc[u] = "reply" /\ Leave(u, todo[u] = 1, "reply", Shared(KeyOf(u), u))
    BY <1>12 DEF AppendReply, KeyOf
  <2>2. PICK last \in BOOLEAN : last = (todo[u] = 1)
    OBVIOUS
  <2>3. PICK s : s = Shared(KeyOf(u), u)
    OBVIOUS
  <2>4. s \in [Requester -> {"alone", "shared", "moved"}]
    BY <2>3, SinceTyped DEF SessionsInv
  <2>5. s[t] # "moved" => since[t] # "moved" /\ s[t] \in {since[t], "shared"}
    BY <2>3, <1>0 DEF Shared
  <2> QED
    BY <1>10, <2>1, <2>2, <2>3, <2>4, <2>5
<1>13. ASSUME NEW u \in Requester, CompactAppend(u) PROVE Goes
  <2>1. pc[u] = "compact_append"
      /\ Leave(u, Len(seen[u]) = 1, "compact_append", Shared(KeyOf(u), u))
    BY <1>13 DEF CompactAppend, KeyOf
  <2>2. u # t
    BY <1>0, <2>1 DEF Leave
  <2>3. /\ pc'[t] = pc[t] /\ raw'[t] = raw[t] /\ ask'[t] = ask[t]
        /\ since'[t] = Shared(KeyOf(u), u)[t]
    BY <1>0, <2>1, <2>2 DEF Leave, Shared
  <2> QED
    BY <1>0, <2>3 DEF Shared
<1> QED
  BY <1>1, <1>2, <1>5, <1>6, <1>7, <1>8, <1>9, <1>11, <1>12, <1>13 DEF SessionsNext

(* The write of the user's message.                                        *)
LEMMA AsksIs ==
  ASSUME SessionsInv, NEW t \in Requester, AppendUser(t), since'[t] # "moved"
  PROVE  LET k == KeyOf(t)
         IN  /\ k \in Key /\ store[k] # Absent /\ KeyOf(t)' = k /\ store' = store
             /\ ask'[t] = sent + 1 /\ sent + 1 \in Msg
             /\ store[k].id \in Sid /\ FileOf(k) \in Transcript
             /\ FileOf(k).cut => FileOf(k).lines # <<>>
             /\ file'[store[k].id] = Written(FileOf(k), sent + 1, TRUE)
             /\ Wrote(FileOf(k), file'[store[k].id], sent + 1) /\ ~file'[store[k].id].cut
             /\ sent + 1 \notin InFile(FileOf(k))
<1>1. PICK k : k = KeyOf(t)
  OBVIOUS
<1>2. /\ SessionsTypeOK /\ CutLines /\ k \in Key /\ sent + 1 \in Msg
      /\ raw' = raw /\ store' = store /\ AppendMessage(k, sent + 1)
      /\ since'[t] = IF store[k] = Absent THEN "moved" ELSE "alone"
      /\ ask'[t] = sent + 1
  BY <1>1, Looked DEF SessionsInv, SessionsTypeOK, AppendUser, KeyOf, Shared
<1>3. store[k] # Absent
  BY <1>2
<1>4. PICK p \in Msg \cup {Part}, w \in BOOLEAN :
        /\ w = TRUE /\ p = sent + 1
        /\ file' = [file EXCEPT ![store[k].id] = Written(@, p, w)]
  BY <1>2, <1>3 DEF AppendMessage
<1>5. /\ store[k].id \in Sid /\ FileOf(k) \in Transcript
      /\ FileOf(k).cut => FileOf(k).lines # <<>>
      /\ file'[store[k].id] = Written(FileOf(k), p, w) /\ FileOf(k) = file[store[k].id]
      /\ Wrote(FileOf(k), file'[store[k].id], p) /\ (w => ~file'[store[k].id].cut)
  BY <1>2, <1>3, <1>4, AppendIs
<1>6. sent + 1 \notin InFile(FileOf(k))
  <2>1. \A m \in InFile(file[store[k].id]) : m <= sent
    BY <1>5 DEF SessionsInv, Numbered
  <2>2. sent \in Nat
    BY Looked DEF SessionsInv
  <2> QED
    BY <1>5, <2>1, <2>2
<1> QED
  BY <1>1, <1>2, <1>3, <1>4, <1>5, <1>6 DEF KeyOf

(* No step takes a question that waits for its answers out of the          *)
(* conversation, without the thread being told.                            *)
LEMMA QuestionKeptStep ==
  ASSUME SessionsInv, SessionsNext
  PROVE  QuestionKept'
<1> SUFFICES ASSUME NEW t \in Requester,
                    pc'[t] \in {"history", "agent", "reply"}, since'[t] # "moved"
             PROVE  /\ store'[KeyOf(t)'] # Absent /\ ~FileOf(KeyOf(t))'.cut
                    /\ ask'[t] \in Msg /\ ask'[t] \in InFile(FileOf(KeyOf(t))')
  BY DEF QuestionKept
<1>1. CASE AppendUser(t)
  <2>1. PICK k \in Key :
          /\ k = KeyOf(t) /\ store[k] # Absent /\ KeyOf(t)' = k /\ store' = store
          /\ ask'[t] = sent + 1 /\ sent + 1 \in Msg
          /\ Wrote(FileOf(k), file'[store[k].id], sent + 1) /\ ~file'[store[k].id].cut
    BY <1>1, AsksIs
  <2>2. PICK f, p, g :
          f = FileOf(k) /\ p = sent + 1 /\ g = file'[store[k].id] /\ Wrote(f, g, p)
    BY <2>1
  <2>3. InFile(g) = InFile(f) \cup ({p} \ {Part})
    BY <2>2 DEF Wrote
  <2>4. p # Part
    BY <2>1, <2>2, SingleLine
  <2> QED
    BY <2>1, <2>2, <2>3, <2>4 DEF FileOf
<1>2. CASE /\ pc[t] \in {"history", "agent", "reply"} /\ raw'[t] = raw[t] /\ ask'[t] = ask[t]
           /\ since[t] # "moved"
  <2>1. PICK q \in Key :
          /\ q = KeyOf(t) /\ q = KeyOf(t)' /\ store[q] # Absent /\ ~FileOf(q).cut
          /\ ask'[t] \in Msg /\ ask'[t] \in InFile(FileOf(q)) /\ raw[t] # NoKey /\ up
    BY <1>2, Looked DEF SessionsInv, QuestionKept, KeyOf
  <2>2. store[q].id \in Sid /\ FileOf(q) = file[store[q].id]
    BY <2>1, Looked DEF SessionsInv, FileOf
  <2>3. ASSUME store'[q] # Absent, store'[q].id = store[q].id,
               file'[store[q].id] = file[store[q].id]
        PROVE  /\ store'[KeyOf(t)'] # Absent /\ ~FileOf(KeyOf(t))'.cut
               /\ ask'[t] \in Msg /\ ask'[t] \in InFile(FileOf(KeyOf(t))')
    BY <2>1, <2>2, <2>3 DEF FileOf
  <2>4. CASE SaveStore
    <3>1. store' = store /\ file' = file
      BY <2>4 DEF SaveStore
    <3> QED
      BY <2>1, <2>3, <3>1
  <2>5. ~Restart
    BY <2>1 DEF Restart
  <2>6. ~ (Crash \/ \E u \in Requester : CrashInAppend(u))
    <3>1. ASSUME Crash \/ \E u \in Requester : CrashInAppend(u) PROVE FALSE
      BY <3>1, DownIs
    <3> QED
      BY <3>1
  <2>7. CASE Still
    BY <2>1, <2>3, <2>7 DEF Still
  <2>8. ASSUME NEW k \in Key, NEW m \in Msg, Adds(k, m)
        PROVE  /\ store'[KeyOf(t)'] # Absent /\ ~FileOf(KeyOf(t))'.cut
               /\ ask'[t] \in Msg /\ ask'[t] \in InFile(FileOf(KeyOf(t))')
    <3>1. /\ Wrote(FileOf(k), file'[store[k].id], m) /\ FileOf(k) = file[store[k].id]
          /\ ~file'[store[k].id].cut
          /\ FileOf(k) = file[store[k].id]
          /\ \A z \in Sid : z # store[k].id => file'[z] = file[z]
      BY <2>8, AddsIs
    <3>2. store' = store
      BY <2>8 DEF Adds
    <3>3. CASE store[q].id # store[k].id
      BY <2>1, <2>2, <2>3, <3>1, <3>2, <3>3
    <3>4. CASE store[q].id = store[k].id
      <4>1. PICK f, g, p :
              f = file[store[k].id] /\ g = file'[store[k].id] /\ p = m /\ Wrote(f, g, p)
        BY <3>1
      <4>2. InFile(g) = InFile(f) \cup ({p} \ {Part})
        BY <4>1 DEF Wrote
      <4> QED
        BY <2>1, <2>2, <3>1, <3>2, <3>4, <4>1, <4>2 DEF FileOf
    <3> QED
      BY <3>3, <3>4
  <2>9. ASSUME NEW k \in Key, Drops(k)
        PROVE  store'[q] # Absent /\ store'[q].id = store[q].id
               /\ file'[store[q].id] = file[store[q].id]
    <3>1. /\ \A z \in Sid : z # store[k].id => file'[z] = file[z]
          /\ \A l \in Key : l # k => store'[l] = store[l]
          /\ since' = Moved(k) /\ store[k] # Absent
      BY <2>9, DropsIs DEF Drops
    <3>2. q # k
      BY <2>1, <3>1 DEF Moved, Serves, KeyOf
    <3>3. store[q].id # store[k].id
      BY <2>1, <3>1, <3>2 DEF SessionsInv, SessionsTypeOK
    <3> QED
      BY <2>1, <2>2, <3>1, <3>2, <3>3
  <2> QED
    BY <2>3, <2>4, <2>5, <2>6, <2>7, <2>8, <2>9, Kinds
<1> QED
  BY <1>1, <1>2, Waiting

(* While a thread is alone with its question, nobody writes into that      *)
(* transcript.                                                             *)
LEMMA AloneKeepsFile ==
  ASSUME SessionsInv, SessionsNext, NEW t \in Requester,
         pc[t] = "history", pc'[t] = "history", since'[t] = "alone",
         NEW q \in Key, q = KeyOf(t), store[q] # Absent
  PROVE  file'[store[q].id] = file[store[q].id]
<1>0. /\ SessionsTypeOK /\ raw[t] # NoKey /\ since \in [Requester -> {"alone", "shared", "moved"}]
      /\ \A k \in Key : store[k] # Absent => store[k].id \in Sid
      /\ \A k, l \in Key :
           store[k] # Absent /\ store[l] # Absent /\ store[k].id = store[l].id => k = l
      /\ file \in [Sid -> Transcript] /\ pc \in [Requester -> Pc]
  BY Looked DEF SessionsInv, SessionsTypeOK
<1>1. ~ (Crash \/ \E u \in Requester : CrashInAppend(u))
  <2>1. ASSUME Crash \/ \E u \in Requester : CrashInAppend(u) PROVE FALSE
    BY <2>1, DownIs
  <2> QED
    BY <2>1
<1>2. SaveStore \/ Restart => file' = file
  BY DEF SaveStore, Restart, LoadStore, diskVars
<1>3. ASSUME NEW k \in Key, since' = Moved(k), store[k] # Absent,
             file' = [file EXCEPT ![store[k].id] = NoFile]
      PROVE  file'[store[q].id] = file[store[q].id]
  <2>1. q # k
    BY <1>0, <1>3 DEF Moved, Serves, KeyOf
  <2>2. store[q].id # store[k].id
    BY <1>0, <1>3, <2>1
  <2> QED
    BY <1>0, <1>3, <2>2
<1>4. ASSUME NEW k \in Key, DeleteSession(k) \/ Reset(k) \/ Patch(k)
      PROVE  file'[store[q].id] = file[store[q].id]
  <2>1. CASE DeleteSession(k)
    BY <1>3, <2>1 DEF DeleteSession
  <2>2. CASE Reset(k)
    BY <1>3, <2>2 DEF Reset, ResetSession, Archive
  <2>3. CASE Patch(k)
    BY <2>3 DEF Patch, diskVars
  <2> QED
    BY <1>4, <2>1, <2>2, <2>3
<1>5. ASSUME NEW u \in Requester, CompactReset(u)
      PROVE  file'[store[q].id] = file[store[q].id]
  <2>1. PICK k \in Key : k = KeyOf(u)
    BY <1>5, Looked DEF SessionsInv, CompactReset
  <2>2. since' = Moved(k) /\ ResetSession(k)
    BY <1>5, <2>1 DEF CompactReset, KeyOf
  <2>3. CASE store[k] = Absent
    BY <2>2, <2>3 DEF ResetSession
  <2>4. CASE store[k] # Absent
    BY <1>3, <2>2, <2>4 DEF ResetSession, Archive
  <2> QED
    BY <2>3, <2>4
<1>6. ASSUME NEW u \in Requester, u # t, pc[u] # "idle", NEW m, AppendMessage(KeyOf(u), m),
             since'[t] = Shared(KeyOf(u), u)[t]
      PROVE  file'[store[q].id] = file[store[q].id]
  <2>1. PICK k \in Key : k = KeyOf(u)
    BY <1>6, Looked DEF SessionsInv
  <2>2. k # q
    BY <1>0, <1>6, <2>1 DEF Shared, Serves, KeyOf
  <2>3. CASE store[k] = Absent
    BY <1>6, <2>1, <2>3 DEF AppendMessage
  <2>4. CASE store[k] # Absent
    <3>1. file' = [file EXCEPT ![store[k].id] = Written(@, m, TRUE)]
      BY <1>6, <2>1, <2>4 DEF AppendMessage
    <3>2. store[k].id # store[q].id /\ store[q].id \in Sid
      BY <1>0, <2>2, <2>4
    <3> QED
      BY <1>0, <3>1, <3>2
  <2> QED
    BY <2>3, <2>4
<1>7. ASSUME NEW u \in Requester, AppendUser(u)
      PROVE  file'[store[q].id] = file[store[q].id]
  <2>1. u # t /\ pc[u] # "idle" /\ AppendMessage(KeyOf(u), sent + 1)
    BY <1>7 DEF AppendUser, KeyOf
  <2>2. since'[t] = Shared(KeyOf(u), u)[t]
    BY <1>7, <2>1, SinceTyped, <1>0 DEF AppendUser, KeyOf
  <2> QED
    BY <1>6, <2>1, <2>2
<1>8. ASSUME NEW u \in Requester, NEW last, NEW where, NEW k, u # t,
             Leave(u, last, where, Shared(k, u))
      PROVE  since'[t] = Shared(k, u)[t]
  BY <1>8, SinceTyped, <1>0 DEF Leave
<1>9. ASSUME NEW u \in Requester, AppendReply(u)
      PROVE  file'[store[q].id] = file[store[q].id]
  <2>1. u # t /\ pc[u] # "idle" /\ AppendMessage(KeyOf(u), sent + 1)
        /\ Leave(u, todo[u] = 1, "reply", Shared(KeyOf(u), u))
    BY <1>9 DEF AppendReply, KeyOf
  <2>2. since'[t] = Shared(KeyOf(u), u)[t]
    BY <1>8, <2>1
  <2> QED
    BY <1>6, <2>1, <2>2
<1>10. ASSUME NEW u \in Requester, CompactAppend(u)
       PROVE  file'[store[q].id] = file[store[q].id]
  <2>1. u # t /\ pc[u] # "idle" /\ AppendMessage(KeyOf(u), Head(seen[u]))
        /\ Leave(u, Len(seen[u]) = 1, "compact_append", Shared(KeyOf(u), u))
    BY <1>10 DEF CompactAppend, KeyOf
  <2>2. since'[t] = Shared(KeyOf(u), u)[t]
    BY <1>8, <2>1
  <2> QED
    BY <1>6, <2>1, <2>2
<1>11. ASSUME NEW u \in Requester,
              \/ ListSessions(u) \/ SetTitle(u) \/ GetHistory(u) \/ AgentReturns(u)
              \/ \E r \in Spelling : Request(u, r) \/ CompactRead(u, r)
       PROVE  file' = file
  BY <1>11 DEF ListSessions, SetTitle, GetHistory, AgentReturns, Request, CompactRead, diskVars
<1> QED
  BY <1>1, <1>2, <1>4, <1>5, <1>7, <1>9, <1>10, <1>11 DEF SessionsNext

(* A question is the last message of the history until somebody writes     *)
(* after it.                                                               *)
LEMMA QuestionLastStep ==
  ASSUME SessionsInv, SessionsNext
  PROVE  QuestionLast'
<1> SUFFICES ASSUME NEW t \in Requester, pc'[t] = "history", since'[t] = "alone",
                    Contains(History(KeyOf(t))', ask'[t])
             PROVE  Last(History(KeyOf(t))') = ask'[t]
  BY DEF QuestionLast
<1>1. CASE AppendUser(t)
  <2>1. PICK k \in Key :
          /\ k = KeyOf(t) /\ store[k] # Absent /\ KeyOf(t)' = k /\ store' = store
          /\ ask'[t] = sent + 1 /\ sent + 1 \in Msg
          /\ store[k].id \in Sid /\ FileOf(k) \in Transcript
          /\ FileOf(k).cut => FileOf(k).lines # <<>>
          /\ file'[store[k].id] = Written(FileOf(k), sent + 1, TRUE)
          /\ sent + 1 \notin InFile(FileOf(k))
    BY <1>1, AsksIs
  <2>2. History(KeyOf(t))' = Messages(Written(FileOf(k), sent + 1, TRUE))
    BY <2>1 DEF History
  <2> QED
    BY <2>1, <2>2, NewIsLast
<1>2. CASE /\ pc[t] = "history" /\ raw'[t] = raw[t] /\ ask'[t] = ask[t] /\ since[t] = "alone"
  <2>1. PICK q \in Key :
          q = KeyOf(t) /\ q = KeyOf(t)' /\ store[q] # Absent /\ raw[t] # NoKey /\ up
    BY <1>2, Looked DEF SessionsInv, QuestionKept, KeyOf
  <2>2. file'[store[q].id] = file[store[q].id]
    BY <1>2, <2>1, AloneKeepsFile
  <2>3. store'[q] # Absent /\ store'[q].id = store[q].id
    <3>1. SaveStore => store' = store
      BY DEF SaveStore
    <3>2. ~Restart
      BY <2>1 DEF Restart
    <3>3. ~ (Crash \/ \E u \in Requester : CrashInAppend(u))
      <4>1. ASSUME Crash \/ \E u \in Requester : CrashInAppend(u) PROVE FALSE
        BY <4>1, DownIs
      <4> QED
        BY <4>1
    <3>4. ASSUME NEW k \in Key, Drops(k) PROVE q # k /\ store'[q] = store[q]
      BY <2>1, <3>4 DEF Drops, Moved, Serves, KeyOf
    <3> QED
      BY <2>1, <3>1, <3>2, <3>3, <3>4, Kinds DEF Still, Adds
  <2>4. History(KeyOf(t))' = History(KeyOf(t))
    BY <2>1, <2>2, <2>3 DEF History
  <2> QED
    BY <1>2, <2>4 DEF SessionsInv, QuestionLast
<1> QED
  BY <1>1, <1>2, Waiting

(* What was appended stays in a transcript or an archive, or was deleted.  *)
LEMMA NothingErasedStep ==
  ASSUME SessionsInv, SessionsNext
  PROVE  NothingErased'
<1> DEFINE Kept(m) == m \in archived \/ \E s \in Sid : m \in InFile(file[s])
<1>0. \A m \in hist.appended \ hist.deleted : Kept(m)
  BY DEF SessionsInv, NothingErased
<1> SUFFICES ASSUME NEW m \in hist'.appended, m \notin hist'.deleted PROVE Kept(m)'
  BY DEF NothingErased
<1>1. CASE Quiet
  BY <1>0, <1>1 DEF Quiet
<1>2. ASSUME NEW t \in Requester, CrashInAppend(t) PROVE Kept(m)'
  <2>1. /\ hist'.appended = hist.appended /\ hist'.deleted = hist.deleted
        /\ archived' = archived
    BY <1>2, DownIs
  <2>2. PICK k \in Key, p \in Msg \cup {Part} :
          /\ FileOf(k) = file[store[k].id]
          /\ Wrote(FileOf(k), file'[store[k].id], p)
          /\ \A z \in Sid : z # store[k].id => file'[z] = file[z]
          /\ store[k].id \in Sid
    BY <1>2, CutIs
  <2>3. PICK f, g :
          f = file[store[k].id] /\ g = file'[store[k].id] /\ Wrote(f, g, p)
    BY <2>2
  <2>4. InFile(g) = InFile(f) \cup ({p} \ {Part})
    BY <2>2, <2>3 DEF Wrote
  <2>5. \A s \in Sid : InFile(file[s]) \subseteq InFile(file'[s])
    BY <2>2, <2>3, <2>4
  <2> QED
    BY <1>0, <2>1, <2>5
<1>3. ASSUME NEW k \in Key, NEW a \in Msg, Adds(k, a) PROVE Kept(m)'
  <2>1. /\ Wrote(FileOf(k), file'[store[k].id], a) /\ FileOf(k) = file[store[k].id]
        /\ ~file'[store[k].id].cut
        /\ \A z \in Sid : z # store[k].id => file'[z] = file[z]
        /\ store[k].id \in Sid
    BY <1>3, AddsIs
  <2>2. PICK f, g, p :
          f = file[store[k].id] /\ g = file'[store[k].id] /\ p = a /\ Wrote(f, g, p)
    BY <2>1
  <2>3. InFile(g) = InFile(f) \cup ({p} \ {Part}) /\ p # Part
    <3>1. InFile(g) = InFile(f) \cup ({p} \ {Part})
      BY <2>2 DEF Wrote
    <3> QED
      BY <2>2, <3>1, SingleLine
  <2>4. /\ \A s \in Sid : InFile(file[s]) \subseteq InFile(file'[s])
        /\ a \in InFile(file'[store[k].id])
    BY <2>1, <2>2, <2>3
  <2>5. /\ hist'.appended \subseteq hist.appended \cup {a} /\ hist'.deleted = hist.deleted
        /\ archived' = archived
    BY <1>3 DEF Adds
  <2> QED
    BY <1>0, <2>1, <2>4, <2>5
<1>4. ASSUME NEW k \in Key, Drops(k) PROVE Kept(m)'
  <2>1. /\ \A z \in Sid : z # store[k].id => file'[z] = file[z]
        /\ FileOf(k) = file[store[k].id]
    BY <1>4, DropsIs
  <2>2. /\ hist'.appended = hist.appended
        /\ archived \subseteq archived' /\ hist.deleted \subseteq hist'.deleted
        /\ InFile(FileOf(k)) \subseteq archived' \cup hist'.deleted
    BY <1>4 DEF Drops
  <2> QED
    BY <1>0, <2>1, <2>2
<1> QED
  BY <1>1, <1>2, <1>3, <1>4, DiskStep

(* What was archived or deleted stays so.                                  *)
LEMMA GoneStays ==
  ASSUME SessionsInv, SessionsNext
  PROVE  Gone \subseteq Gone'
<1>1. CASE Quiet
  BY <1>1 DEF Quiet, Gone
<1>2. ASSUME NEW t \in Requester, CrashInAppend(t) PROVE Gone' = Gone
  <2>1. archived' = archived /\ hist'.deleted = hist.deleted
    BY <1>2, DownIs
  <2> QED
    BY <2>1 DEF Gone
<1>3. ASSUME NEW k \in Key, NEW m \in Msg, Adds(k, m) PROVE Gone' = Gone
  BY <1>3 DEF Adds, Gone
<1>4. ASSUME NEW k \in Key, Drops(k) PROVE Gone \subseteq Gone'
  BY <1>4 DEF Drops, Gone
<1> QED
  BY <1>1, <1>2, <1>3, <1>4, DiskStep

(* A thread that compacts has just read the history, or goes on.           *)
LEMMA Compacting ==
  ASSUME SessionsInv, SessionsNext, NEW t \in Requester,
         pc'[t] \in {"compact_reset", "compact_append"}
  PROVE  \/ \E r \in Spelling : CompactRead(t, r)
         \/ CompactReset(t) \/ CompactAppend(t)
         \/ pc'[t] = pc[t] /\ raw'[t] = raw[t] /\ seen'[t] = seen[t]
<1> DEFINE Goes == pc'[t] = pc[t] /\ raw'[t] = raw[t] /\ seen'[t] = seen[t]
<1>0. /\ pc \in [Requester -> Pc] /\ raw \in [Requester -> Spelling \cup {NoKey}]
      /\ seen \in [Requester -> Seq(Msg)] /\ todo \in [Requester -> 0 .. MaxReplies]
  BY DEF SessionsInv, SessionsTypeOK
<1>1. ~ (Crash \/ \E u \in Requester : CrashInAppend(u))
  <2>1. ASSUME Crash \/ \E u \in Requester : CrashInAppend(u) PROVE FALSE
    BY <2>1, DownIs
  <2> QED
    BY <2>1
<1>2. SaveStore \/ Restart => Goes
  BY DEF SaveStore, Restart, requestVars
<1>3. ASSUME NEW k \in Key, DeleteSession(k) \/ Reset(k) \/ Patch(k) PROVE Goes
  BY <1>3 DEF DeleteSession, Reset, Patch, requestVars
<1>4. ASSUME NEW u \in Requester, ListSessions(u) \/ SetTitle(u) \/ AppendUser(u) \/ GetHistory(u)
      PROVE  Goes
  BY <1>4, <1>0 DEF ListSessions, SetTitle, AppendUser, GetHistory, GoOn
<1>5. ASSUME NEW u \in Requester, NEW r \in Spelling, Request(u, r) PROVE Goes
  BY <1>5, <1>0 DEF Request, GoOn
<1>6. ASSUME NEW u \in Requester, AgentReturns(u) PROVE Goes
  <2>1. PICK n \in 0 .. MaxReplies : Leave(u, n = 0, "reply", since) /\ seen' = seen
    BY <1>6 DEF AgentReturns
  <2> QED
    BY <1>0, <2>1 DEF Leave
<1>7. ASSUME NEW u \in Requester, AppendReply(u) PROVE Goes
  <2>1. Leave(u, todo[u] = 1, "reply", Shared(KeyOf(u), u)) /\ seen' = seen
    BY <1>7 DEF AppendReply, KeyOf
  <2> QED
    BY <1>0, <2>1 DEF Leave
<1>8. ASSUME NEW u \in Requester, u # t, CompactReset(u) \/ CompactAppend(u) PROVE Goes
  <2>1. CASE CompactReset(u)
    BY <1>0, <1>8, <2>1 DEF CompactReset, GoOn
  <2>2. CASE CompactAppend(u)
    <3>1. /\ Leave(u, Len(seen[u]) = 1, "compact_append", Shared(KeyOf(u), u))
          /\ seen' = [seen EXCEPT ![u] = Tail(@)]
      BY <2>2 DEF CompactAppend, KeyOf
    <3> QED
      BY <1>0, <1>8, <3>1 DEF Leave
  <2> QED
    BY <1>8, <2>1, <2>2
<1>9. ASSUME NEW u \in Requester, u # t, NEW r \in Spelling, CompactRead(u, r) PROVE Goes
  BY <1>9, <1>0 DEF CompactRead, GoOn
<1> QED
  BY <1>1, <1>2, <1>3, <1>4, <1>5, <1>6, <1>7, <1>8, <1>9 DEF SessionsNext

(* What a compaction appends again is in an archive, or was deleted.       *)
LEMMA CopiedStep ==
  ASSUME SessionsInv, SessionsNext
  PROVE  Copied'
<1> SUFFICES ASSUME NEW t \in Requester, pc'[t] \in {"compact_reset", "compact_append"},
                    NEW i \in 1 .. Len(seen'[t])
             PROVE  \/ seen'[t][i] \in Gone'
                    \/ /\ pc'[t] = "compact_reset" /\ store'[KeyOf(t)'] # Absent
                       /\ seen'[t][i] \in InFile(FileOf(KeyOf(t))')
  BY DEF Copied
<1>0. /\ seen \in [Requester -> Seq(Msg)] /\ pc \in [Requester -> Pc]
      /\ raw \in [Requester -> Spelling \cup {NoKey}] /\ Gone \subseteq Gone'
  BY GoneStays DEF SessionsInv, SessionsTypeOK
<1>1. ASSUME NEW r \in Spelling, CompactRead(t, r)
      PROVE  store'[KeyOf(t)'] # Absent /\ seen'[t][i] \in InFile(FileOf(KeyOf(t))')
             /\ pc'[t] = "compact_reset"
  <2>1. PICK k \in Key : k = Normal[r]
    BY Looked DEF SessionsInv
  <2>2. PICK h \in Seq(Msg), n \in Nat \ {0} : h = History(k) /\ n = CompactKeep
    BY HistoryIs, SessionsAssumption DEF SessionsInv
  <2>3. /\ seen'[t] = LastN(h, n) /\ KeyOf(t)' = k /\ pc'[t] = "compact_reset"
        /\ store' = store /\ file' = file
    BY <1>0, <1>1, <2>1, <2>2 DEF CompactRead, KeyOf, GoOn, diskVars
  <2>4. PICK j \in 1 .. Len(h) : LastN(h, n)[i] = h[j]
    <3>1. \A o \in 1 .. Len(LastN(h, n)) :
            /\ Len(h) - Len(LastN(h, n)) + o \in 1 .. Len(h)
            /\ LastN(h, n)[o] = h[Len(h) - Len(LastN(h, n)) + o]
      BY LastNIs
    <3>2. i \in 1 .. Len(LastN(h, n))
      BY <2>3
    <3>3. PICK j \in 1 .. Len(h) : j = Len(h) - Len(LastN(h, n)) + i
      BY <3>1, <3>2
    <3> QED
      BY <3>1, <3>2, <3>3
  <2>5. store[k] # Absent /\ h[j] \in InFile(FileOf(k))
    BY <2>2, HistoryIs DEF SessionsInv
  <2> QED
    BY <2>3, <2>4, <2>5 DEF FileOf
<1>2. ASSUME CompactReset(t) PROVE seen'[t][i] \in Gone'
  <2>1. PICK k \in Key : k = KeyOf(t)
    BY <1>2, Looked DEF SessionsInv, CompactReset
  <2>2. /\ seen' = seen /\ pc[t] = "compact_reset" /\ ResetSession(k)
    BY <1>2, <2>1 DEF CompactReset, KeyOf
  <2>3. seen[t][i] \in Gone \/ (store[k] # Absent /\ seen[t][i] \in InFile(FileOf(k)))
    BY <2>1, <2>2 DEF SessionsInv, Copied
  <2>4. store[k] # Absent => archived' = archived \cup InFile(FileOf(k))
    BY <2>2, ResetIs DEF SessionsInv
  <2> QED
    BY <1>0, <2>2, <2>3, <2>4 DEF Gone
<1>3. ASSUME CompactAppend(t) PROVE seen'[t][i] \in Gone'
  <2>1. /\ seen[t] # <<>> /\ seen[t] \in Seq(Msg) /\ seen'[t] = Tail(seen[t])
        /\ pc[t] = "compact_append"
    BY <1>3, <1>0 DEF CompactAppend, SessionsInv, ThreadsOK
  <2>2. /\ Len(seen[t]) \in Nat /\ Len(Tail(seen[t])) = Len(seen[t]) - 1
        /\ \A j \in 1 .. Len(Tail(seen[t])) : Tail(seen[t])[j] = seen[t][j + 1]
    BY <2>1, HeadTailProperties
  <2>3. i + 1 \in 1 .. Len(seen[t]) /\ seen'[t][i] = seen[t][i + 1]
    BY <2>1, <2>2
  <2>4. seen[t][i + 1] \in Gone
    BY <2>1, <2>3 DEF SessionsInv, Copied
  <2> QED
    BY <1>0, <2>3, <2>4
<1>4. ASSUME pc'[t] = pc[t], raw'[t] = raw[t], seen'[t] = seen[t]
      PROVE  \/ seen'[t][i] \in Gone'
             \/ /\ pc'[t] = "compact_reset" /\ store'[KeyOf(t)'] # Absent
                /\ seen'[t][i] \in InFile(FileOf(KeyOf(t))')
  <2>1. PICK k \in Key, m \in {seen[t][i]} : k = KeyOf(t) /\ m = seen[t][i] /\ up
    BY <1>4, Looked DEF SessionsInv
  <2>2. KeyOf(t)' = k /\ seen'[t][i] = m
    BY <1>4, <2>1 DEF KeyOf
  <2>3. CASE m \in Gone
    BY <1>0, <2>2, <2>3
  <2>4. CASE pc[t] = "compact_reset" /\ store[k] # Absent /\ m \in InFile(FileOf(k))
    <3>1. store[k].id \in Sid /\ FileOf(k) = file[store[k].id]
      BY <2>4, Looked DEF SessionsInv, FileOf
    <3>2. ASSUME store'[k] # Absent, store'[k].id = store[k].id,
                 m \in InFile(file'[store[k].id])
          PROVE  /\ pc'[t] = "compact_reset" /\ store'[KeyOf(t)'] # Absent
                 /\ seen'[t][i] \in InFile(FileOf(KeyOf(t))')
      BY <1>4, <2>2, <2>4, <3>2 DEF FileOf
    <3>3. CASE SaveStore
      BY <2>4, <3>1, <3>2, <3>3 DEF SaveStore
    <3>4. ~Restart
      BY <2>1 DEF Restart
    <3>5. ~ (Crash \/ \E u \in Requester : CrashInAppend(u))
      <4>1. ASSUME Crash \/ \E u \in Requester : CrashInAppend(u) PROVE FALSE
        BY <4>1, DownIs
      <4> QED
        BY <4>1
    <3>6. CASE Still
      BY <2>4, <3>1, <3>2, <3>6 DEF Still
    <3>7. ASSUME NEW q \in Key, NEW a \in Msg, Adds(q, a)
          PROVE  m \in InFile(file'[store[k].id]) /\ store' = store
      <4>1. /\ Wrote(FileOf(q), file'[store[q].id], a) /\ FileOf(q) = file[store[q].id]
            /\ \A z \in Sid : z # store[q].id => file'[z] = file[z]
        BY <3>7, AddsIs
      <4>2. PICK f, g, p :
              f = file[store[q].id] /\ g = file'[store[q].id] /\ p = a /\ Wrote(f, g, p)
        BY <4>1
      <4>3. InFile(g) = InFile(f) \cup ({p} \ {Part})
        BY <4>2 DEF Wrote
      <4>4. store' = store
        BY <3>7 DEF Adds
      <4> QED
        BY <2>4, <3>1, <4>1, <4>2, <4>3, <4>4
    <3>8. ASSUME NEW q \in Key, Drops(q)
          PROVE  \/ m \in Gone'
                 \/ store'[k] = store[k] /\ file'[store[k].id] = file[store[k].id]
      <4>1. /\ \A z \in Sid : z # store[q].id => file'[z] = file[z]
            /\ \A l \in Key : l # q => store'[l] = store[l]
            /\ store[q] # Absent /\ InFile(FileOf(q)) \subseteq Gone'
        BY <3>8, DropsIs DEF Drops, Gone
      <4>2. CASE q = k
        BY <2>4, <4>1, <4>2
      <4>3. CASE q # k
        <5>1. store[q].id # store[k].id
          BY <2>4, <4>1, <4>3 DEF SessionsInv, SessionsTypeOK
        <5> QED
          BY <3>1, <4>1, <4>3, <5>1
      <4> QED
        BY <4>2, <4>3
    <3> QED
      BY <2>2, <2>4, <3>1, <3>2, <3>3, <3>4, <3>5, <3>6, <3>7, <3>8, Kinds
  <2> QED
    BY <1>4, <2>1, <2>3, <2>4 DEF SessionsInv, Copied
<1> QED
  BY <1>1, <1>2, <1>3, <1>4, Compacting

(* A new reply that is not loose goes to the transcript of its question.   *)
LEMMA NewReply ==
  ASSUME SessionsInv, SessionsNext, sent + 1 \in Msg, sent' = sent + 1,
         replyTo'[sent + 1] # 0, sent + 1 \notin hist'.loose,
         NEW k \in Key, Adds(k, sent + 1)
  PROVE  ~FileOf(k).cut /\ replyTo'[sent + 1] \in InFile(FileOf(k))
<1>0. /\ replyTo \in [Msg -> 0 .. MaxMsgs] /\ sent \in Nat /\ sent + 1 # sent
      /\ hist \in Happenings /\ ~saving /\ store[k] # Absent /\ store' = store
  BY Looked DEF SessionsInv, SessionsTypeOK, Adds
<1>1. replyTo[sent + 1] = 0
  BY <1>0 DEF SessionsInv, Numbered
<1>2. replyTo' # replyTo
  BY <1>1
<1>3. PICK t \in Requester : AppendReply(t)
  <2>1. ~ (Crash \/ \E u \in Requester : CrashInAppend(u))
    <3>1. ASSUME Crash \/ \E u \in Requester : CrashInAppend(u) PROVE FALSE
      BY <3>1, <1>2, DownIs
    <3> QED
      BY <3>1
  <2>2. ~SaveStore /\ ~Restart
    BY <1>2 DEF SaveStore, Restart
  <2>3. \A l \in Key : ~ (DeleteSession(l) \/ Reset(l) \/ Patch(l))
    BY <1>2 DEF DeleteSession, Reset, Patch
  <2>4. \A u \in Requester :
          ~ (\/ ListSessions(u) \/ SetTitle(u) \/ GetHistory(u) \/ AgentReturns(u)
             \/ AppendUser(u) \/ CompactReset(u) \/ CompactAppend(u)
             \/ \E r \in Spelling : Request(u, r) \/ CompactRead(u, r))
    BY <1>2 DEF ListSessions, SetTitle, GetHistory, AgentReturns, AppendUser, CompactReset,
                CompactAppend, Request, CompactRead
  <2> QED
    BY <2>1, <2>2, <2>3, <2>4 DEF SessionsNext
<1>4. PICK q \in Key : q = KeyOf(t)
  BY <1>3, Looked DEF SessionsInv, AppendReply
<1>5. /\ pc[t] = "reply" /\ replyTo' = [replyTo EXCEPT ![sent + 1] = ask[t]]
      /\ AppendMessage(q, sent + 1)
      /\ hist' = [hist EXCEPT
           !.appended = NoteAppend(q, sent + 1),
           !.loose = IF since[t] = "moved" THEN @ \cup {sent + 1} ELSE @]
  BY <1>3, <1>4 DEF AppendReply, KeyOf
<1>6. since[t] # "moved"
  <2>1. hist'.loose = IF since[t] = "moved" THEN hist.loose \cup {sent + 1} ELSE hist.loose
    BY <1>0, <1>5 DEF Happenings
  <2> QED
    BY <2>1
<1>7. /\ store[q] # Absent /\ ~FileOf(q).cut /\ ask[t] \in InFile(FileOf(q))
  BY <1>4, <1>5, <1>6 DEF SessionsInv, QuestionKept
<1>8. replyTo'[sent + 1] = ask[t]
  BY <1>0, <1>5
<1>9. store[k].id = store[q].id
  <2>2. /\ store[q].id \in Sid /\ FileOf(q) = file[store[q].id]
    BY <1>7, Looked DEF SessionsInv, FileOf
  <2>3. PICK p \in Msg \cup {Part}, w \in BOOLEAN :
          /\ p = sent + 1 /\ w = TRUE /\ p # Part
          /\ file' = [file EXCEPT ![store[q].id] = Written(@, p, w)]
    BY <1>5, <1>7, SingleLine DEF AppendMessage
  <2>4. Wrote(FileOf(q), file'[store[q].id], p)
    BY <1>7, <2>3, AppendIs DEF SessionsInv
  <2>5. sent + 1 \in InFile(file'[store[q].id])
    BY <2>3, <2>4 DEF Wrote
  <2>6. sent + 1 \notin InFile(file[store[q].id])
    BY <1>0, <2>2 DEF SessionsInv, Numbered
  <2>7. \A z \in Sid : z # store[k].id => file'[z] = file[z]
    BY AddsIs
  <2> QED
    BY <2>2, <2>5, <2>6, <2>7
<1> QED
  BY <1>7, <1>8, <1>9 DEF FileOf

(* A reply stands below its question after every step.                     *)
LEMMA ReplyFollowsStep ==
  ASSUME SessionsInv, SessionsNext
  PROVE  ReplyFollowsQuestion'
<1> SUFFICES ASSUME NEW s \in Sid, NEW i \in 1 .. Len(file'[s].lines),
                    NEW m \in file'[s].lines[i], m # Part, m \notin hist'.loose,
                    replyTo'[m] # 0
             PROVE  \E j \in 1 .. i - 1 : replyTo'[m] \in file'[s].lines[j]
  BY DEF ReplyFollowsQuestion
<1>1. ASSUME i \in 1 .. Len(file[s].lines), m \in file[s].lines[i],
             hist.loose \subseteq hist'.loose,
             \A n \in Msg : replyTo'[n] = replyTo[n] \/ (n = sent + 1 /\ sent' = sent + 1)
      PROVE  \E j \in 1 .. i - 1 : replyTo'[m] \in file[s].lines[j]
  <2>1. m # sent + 1 /\ m \in Msg
    BY <1>1, LineSent DEF FileLine
  <2>2. replyTo'[m] = replyTo[m] /\ m \notin hist.loose
    BY <1>1, <2>1
  <2> QED
    BY <1>1, <2>2 DEF SessionsInv, ReplyFollowsQuestion
<1>2. CASE Quiet
  BY <1>1, <1>2 DEF Quiet
<1>3. ASSUME NEW t \in Requester, CrashInAppend(t)
      PROVE  \E j \in 1 .. i - 1 : replyTo'[m] \in file'[s].lines[j]
  <2>1. replyTo' = replyTo /\ hist.loose \subseteq hist'.loose
    BY <1>3, DownIs
  <2>2. PICK k \in Key, p \in Msg \cup {Part} :
          /\ FileOf(k) = file[store[k].id]
          /\ Wrote(FileOf(k), file'[store[k].id], p)
          /\ \A z \in Sid : z # store[k].id => file'[z] = file[z]
          /\ CutPiece(p)
    BY <1>3, CutIs
  <2>3. PICK f, g :
          f = file[store[k].id] /\ g = file'[store[k].id] /\ Wrote(f, g, p)
    BY <2>2
  <2>4. CASE s # store[k].id
    BY <1>1, <2>1, <2>2, <2>4
  <2>5. CASE s = store[k].id
    <3>1. file'[s] = g /\ f = file[s]
      BY <2>2, <2>3, <2>5
    <3>2. /\ \/ i \in 1 .. Len(f.lines) /\ m \in f.lines[i]
             \/ m = p /\ i = Len(g.lines)
          /\ \A j \in 1 .. i - 1 : j \in 1 .. Len(f.lines) /\ g.lines[j] = f.lines[j]
      <4>1. i \in 1 .. Len(g.lines) /\ m \in g.lines[i]
        BY <3>1
      <4> QED
        BY <2>2, <2>3, <4>1 DEF Wrote
    <3>3. m # p
      <4>1. sent \in Nat /\ (p = sent + 1 /\ p \in Msg => replyTo[p] = 0)
        BY Looked DEF SessionsInv, Numbered
      <4> QED
        BY <2>1, <2>2, <4>1 DEF CutPiece
    <3> QED
      BY <1>1, <2>1, <3>1, <3>2, <3>3
  <2> QED
    BY <2>4, <2>5
<1>4. ASSUME NEW k \in Key, NEW a \in Msg, Calm, Adds(k, a)
      PROVE  \E j \in 1 .. i - 1 : replyTo'[m] \in file'[s].lines[j]
  <2>0. /\ hist.loose \subseteq hist'.loose
        /\ \A n \in Msg : replyTo'[n] = replyTo[n] \/ (n = sent + 1 /\ sent' = sent + 1)
    BY <1>4 DEF Calm, CalmData
  <2>1. /\ Wrote(FileOf(k), file'[store[k].id], a) /\ FileOf(k) = file[store[k].id]
        /\ ~file'[store[k].id].cut
        /\ \A z \in Sid : z # store[k].id => file'[z] = file[z]
        /\ store[k].id \in Sid
    BY <1>4, AddsIs
  <2>2. PICK f, g, p :
          f = file[store[k].id] /\ g = file'[store[k].id] /\ p = a /\ Wrote(f, g, p)
    BY <2>1
  <2>3. CASE s # store[k].id
    BY <1>1, <2>0, <2>1, <2>3
  <2>4. CASE s = store[k].id
    <3>1. file'[s] = g /\ f = file[s]
      BY <2>1, <2>2, <2>4
    <3>2. /\ \/ i \in 1 .. Len(f.lines) /\ m \in f.lines[i]
             \/ m = p /\ i = Len(g.lines)
          /\ \A j \in 1 .. i - 1 : j \in 1 .. Len(f.lines) /\ g.lines[j] = f.lines[j]
          /\ ~f.cut => Len(g.lines) = Len(f.lines) + 1
          /\ Len(g.lines) \in Nat /\ Len(f.lines) \in Nat
      <4>1. i \in 1 .. Len(g.lines) /\ m \in g.lines[i]
        BY <3>1
      <4> QED
        BY <2>2, <4>1 DEF Wrote
    <3>3. CASE i \in 1 .. Len(f.lines) /\ m \in f.lines[i]
      BY <1>1, <2>0, <3>1, <3>2, <3>3
    <3>4. CASE m = a /\ i = Len(g.lines)
      <4>1. a = sent + 1 /\ sent' = sent + 1
        BY <1>4, <3>4 DEF Adds
      <4>2. ~f.cut /\ replyTo'[m] \in InFile(f)
        <5>1. Adds(k, sent + 1) /\ sent + 1 \in Msg
          BY <1>4, <4>1
        <5>2. replyTo'[sent + 1] # 0 /\ sent + 1 \notin hist'.loose
          BY <3>4, <4>1
        <5>3. ~FileOf(k).cut /\ replyTo'[sent + 1] \in InFile(FileOf(k))
          BY <4>1, <5>1, <5>2, NewReply
        <5> QED
          BY <2>1, <2>2, <3>4, <4>1, <5>3
      <4>3. PICK j \in 1 .. Len(f.lines) : replyTo'[m] \in f.lines[j]
        <5>1. f \in Transcript
          BY <2>2 DEF Wrote
        <5> QED
          BY <4>2, <5>1, InFileIs
      <4>4. j \in 1 .. i - 1
        BY <3>2, <3>4, <4>2
      <4> QED
        BY <3>1, <3>2, <4>3, <4>4
    <3> QED
      BY <2>2, <3>2, <3>3, <3>4
  <2> QED
    BY <2>3, <2>4
<1>5. ASSUME NEW k \in Key, Calm, Drops(k)
      PROVE  \E j \in 1 .. i - 1 : replyTo'[m] \in file'[s].lines[j]
  <2>1. /\ file'[store[k].id] = NoFile
        /\ \A z \in Sid : z # store[k].id => file'[z] = file[z]
    BY <1>5, DropsIs
  <2>2. NoFile.lines = <<>> /\ 1 .. Len(<<>>) = {}
    BY DEF NoFile
  <2>3. s # store[k].id
    BY <2>1, <2>2
  <2>4. /\ hist.loose \subseteq hist'.loose
        /\ \A n \in Msg : replyTo'[n] = replyTo[n] \/ (n = sent + 1 /\ sent' = sent + 1)
    BY <1>5 DEF Calm, CalmData
  <2> QED
    BY <1>1, <2>1, <2>3, <2>4
<1> QED
  BY <1>2, <1>3, <1>4, <1>5, DiskStep

-----------------------------------------------------------------------------
(* The theorems *)

(* The invariant holds before the first request.                           *)
LEMMA SessionsStart == SessionsInit => SessionsInv
<1> SUFFICES ASSUME SessionsInit PROVE SessionsInv
  OBVIOUS
<1>1. NoFile \in Transcript /\ NoFile.lines = <<>> /\ ~NoFile.cut /\ 1 .. Len(<<>>) = {}
  BY EmptySeq DEF NoFile, Transcript
<1>2. /\ store = [k \in Key |-> Absent] /\ storeFile = store
      /\ file = [s \in Sid |-> NoFile] /\ archived = {} /\ saving = FALSE /\ up = TRUE
      /\ pc = [t \in Requester |-> "idle"] /\ raw = [t \in Requester |-> NoKey]
      /\ ask = [t \in Requester |-> 0] /\ seen = [t \in Requester |-> <<>>]
      /\ todo = [t \in Requester |-> 0] /\ ids = {} /\ sent = 0
      /\ replyTo = [m \in Msg |-> 0] /\ since = [t \in Requester |-> "alone"]
      /\ hist.appended = {} /\ hist.cuts = 0 /\ hist \in Happenings
  BY DEF SessionsInit, Happenings
<1>3. SessionsTypeOK
  <2>1. /\ 0 \in 0 .. MaxMsgs /\ 0 \in 0 .. MaxReplies /\ <<>> \in Seq(Msg)
        /\ "idle" \in Pc
    BY SessionsAssumption, EmptySeq DEF Pc
  <2>2. /\ store \in [Key -> Entry \cup {Absent}]
        /\ storeFile \in [Key -> Entry \cup {Absent}] \cup {TornStore}
        /\ file \in [Sid -> Transcript] /\ archived \subseteq Msg
        /\ {saving, up} \subseteq BOOLEAN /\ (~up => ~saving)
        /\ ids \subseteq Sid /\ sent \in 0 .. MaxMsgs /\ hist \in Happenings
    BY <1>1, <1>2, <2>1
  <2>3. /\ pc \in [Requester -> Pc] /\ raw \in [Requester -> Spelling \cup {NoKey}]
        /\ ask \in [Requester -> 0 .. MaxMsgs] /\ seen \in [Requester -> Seq(Msg)]
        /\ todo \in [Requester -> 0 .. MaxReplies]
        /\ replyTo \in [Msg -> 0 .. MaxMsgs]
        /\ since \in [Requester -> {"alone", "shared", "moved"}]
    BY <1>2, <2>1
  <2>4. \A k \in Key : store[k] = Absent
    BY <1>2
  <2> QED
    BY <2>2, <2>3, <2>4 DEF SessionsTypeOK
<1>4. ThreadsOK /\ StoreOK /\ FilesNamed
  <2>1. ThreadsOK
    BY <1>2 DEF ThreadsOK
  <2>2. StoreOK
    BY <1>2 DEF StoreOK
  <2>3. FilesNamed
    <3>1. store # TornStore /\ \A s \in Sid : file[s] = NoFile
      BY <1>2, <1>3, SessionsAssumption DEF SessionsTypeOK
    <3> QED
      BY <1>2, <3>1 DEF FilesNamed
  <2> QED
    BY <2>1, <2>2, <2>3
<1>5. Numbered
  <2>1. InFile(NoFile) = {}
    BY <1>1 DEF InFile
  <2> QED
    BY <1>1, <1>2, <2>1 DEF Numbered
<1>6. CutLines /\ CutsCounted
  <2>1. CutFiles = {} /\ Unreadable = {}
    BY <1>1, <1>2 DEF CutFiles, Unreadable, Owed
  <2>2. IsFiniteSet({}) /\ Cardinality({}) = 0
    BY FS_EmptySet
  <2> QED
    BY <1>2, <2>1, <2>2 DEF CutLines, CutsCounted
<1>7. QuestionKept /\ QuestionLast
  BY <1>2 DEF QuestionKept, QuestionLast
<1>8. NothingErased /\ ReplyFollowsQuestion /\ Copied
  BY <1>1, <1>2 DEF NothingErased, ReplyFollowsQuestion, Copied
<1> QED
  BY <1>3, <1>4, <1>5, <1>6, <1>7, <1>8 DEF SessionsInv

(* Every step preserves the invariant.                                     *)
LEMMA SessionsStep == SessionsInv /\ [SessionsNext]_sessionVars => SessionsInv'
<1>1. ASSUME SessionsInv, SessionsNext PROVE SessionsInv'
  <2>1. SessionsTypeOK' /\ ThreadsOK' /\ StoreOK' /\ FilesNamed' /\ Numbered'
    BY <1>1, Typing, ThreadsStep, StoreStep, FilesStep, NumberedStep
  <2>2. CutLines' /\ CutsCounted' /\ QuestionKept' /\ QuestionLast'
    BY <1>1, CutLinesStep, CutsCountedStep, QuestionKeptStep, QuestionLastStep
  <2>3. NothingErased' /\ ReplyFollowsQuestion' /\ Copied'
    BY <1>1, NothingErasedStep, ReplyFollowsStep, CopiedStep
  <2> QED
    BY <2>1, <2>2, <2>3 DEF SessionsInv
<1>2. ASSUME SessionsInv, UNCHANGED sessionVars PROVE SessionsInv'
  <2>1. UNCHANGED <<store, storeFile, file, archived, saving, up, pc, raw, ask, seen, todo,
                    since, ids, sent, replyTo, hist>>
    BY <1>2 DEF sessionVars, diskVars, requestVars
  <2>2. SessionsTypeOK' /\ ThreadsOK' /\ StoreOK' /\ FilesNamed' /\ Numbered'
    BY <1>2, <2>1 DEF SessionsInv, SessionsTypeOK, ThreadsOK, StoreOK, FilesNamed, Names,
                      Numbered
  <2>3. CutLines' /\ CutsCounted' /\ NothingErased' /\ ReplyFollowsQuestion'
    BY <1>2, <2>1 DEF SessionsInv, CutLines, CutsCounted, CutFiles, Unreadable, Owed,
                      NothingErased, ReplyFollowsQuestion
  <2>4. QuestionKept' /\ QuestionLast'
    BY <1>2, <2>1 DEF SessionsInv, QuestionKept, QuestionLast, KeyOf, FileOf, History
  <2>5. Copied'
    BY <1>2, <2>1 DEF SessionsInv, Copied, Gone, KeyOf, FileOf
  <2> QED
    BY <2>2, <2>3, <2>4, <2>5 DEF SessionsInv
<1> QED
  BY <1>1, <1>2

(* The invariant of SessionManager and the handlers that use it.           *)
THEOREM SessionsInvariance == SessionsSpec => []SessionsInv
<1> QED
  BY SessionsStart, SessionsStep, PTL DEF SessionsSpec

(* No reset, compaction or crash erases a message that was appended        *)
(* (ResetSession renames the old transcript), every transcript belongs to  *)
(* a session that clients can name, and each crash in AppendMessage makes  *)
(* at most one message unreadable.                                         *)
THEOREM TranscriptsAreKept == SessionsSpec => []TranscriptsKept
<1>1. SessionsInv => TranscriptsKept
  <2> SUFFICES ASSUME SessionsInv PROVE TranscriptsKept
    OBVIOUS
  <2>1. NoOrphans
    BY DEF SessionsInv, FilesNamed, Names, NoOrphans
  <2>2. CutLosesOne
    <3>1. /\ Cardinality(Unreadable) \in Nat /\ Cardinality(CutFiles) \in Nat
          /\ hist.cuts \in Nat
          /\ Cardinality(Unreadable) + Cardinality(CutFiles) <= hist.cuts
      BY UnreadableIs, FS_CardinalityType
         DEF SessionsInv, CutsCounted, SessionsTypeOK, Happenings
    <3> QED
      BY <3>1 DEF CutLosesOne
  <2> QED
    BY <2>1, <2>2 DEF SessionsInv, TranscriptsKept
<1> QED
  BY <1>1, SessionsInvariance, PTL

(* The replies that an agent request appends stand below its question in   *)
(* the transcript, whatever other threads do to the session, unless it was *)
(* reset, deleted or compacted meanwhile.                                  *)
THEOREM RepliesFollow == SessionsSpec => []ReplyFollowsQuestion
<1>1. SessionsInv => ReplyFollowsQuestion
  BY DEF SessionsInv
<1> QED
  BY <1>1, SessionsInvariance, PTL

(* The context that a request hands to the agent loop (GetHistory without  *)
(* its last message) lacks the message of the request and nothing else, if *)
(* no other thread wrote into the session since.                           *)
THEOREM ContextIsExact == SessionsSpec => []ContextExact
<1>1. SessionsInv => ContextExact
  <2> SUFFICES ASSUME SessionsInv, NEW t \in Requester, pc[t] = "history",
                      since[t] = "alone", Contains(History(KeyOf(t)), ask[t])
               PROVE  Append(ContextOf(KeyOf(t)), ask[t])
                        = LastN(History(KeyOf(t)), HistoryLimit)
    BY DEF ContextExact, KeyOf
  <2>1. PICK h \in Seq(Msg), n \in Nat \ {0} :
          h = History(KeyOf(t)) /\ n = HistoryLimit
    <3>1. KeyOf(t) \in Key
      BY Looked DEF SessionsInv
    <3>2. History(KeyOf(t)) \in Seq(Msg)
      BY <3>1, HistoryIs DEF SessionsInv
    <3> QED
      BY <3>2, SessionsAssumption
  <2>2. Last(h) = ask[t]
    BY <2>1 DEF SessionsInv, QuestionLast
  <2>3. Len(h) \in Nat \ {0}
    BY <2>1, LenProperties DEF Contains
  <2>4. PICK r : r = LastN(h, n)
    OBVIOUS
  <2>5. /\ r \in Seq(Msg) /\ Len(r) = IF Len(h) > n THEN n ELSE Len(h)
        /\ \A i \in 1 .. Len(r) : r[i] = h[Len(h) - Len(r) + i]
    BY <2>4, LastNIs
  <2>6. Len(r) \in Nat \ {0} /\ r # <<>>
    BY <2>3, <2>5, EmptySeq
  <2>7. r[Len(r)] = h[Len(h)]
    <3>1. Len(r) \in 1 .. Len(r) /\ Len(h) - Len(r) + Len(r) = Len(h)
      BY <2>3, <2>6
    <3> QED
      BY <2>5, <3>1
  <2>8. Last(r) = ask[t]
    BY <2>2, <2>7 DEF Last
  <2>9. ContextOf(KeyOf(t)) = Front(r)
    BY <2>1, <2>4, <2>6 DEF ContextOf
  <2>10. Append(Front(r), Last(r)) = r
    <3>1. /\ Front(r) \in Seq(Msg) /\ Last(r) \in Msg
          /\ Front(r) \o <<Last(r)>> = r
      BY <2>5, <2>6, FrontLast
    <3>2. \A q \in Seq(Msg), e \in Msg : Append(q, e) = q \o <<e>>
      OBVIOUS
    <3> QED
      BY <3>1, <3>2
  <2> QED
    BY <2>1, <2>4, <2>8, <2>9, <2>10
<1> QED
  BY <1>1, SessionsInvariance, PTL

(* A request of the agent is given the right context and its replies stand *)
(* where they belong (rpc_handler_agent.cpp, ExecuteAgentRequest).          *)
THEOREM RequestsAlwaysSound == SessionsSpec => []RequestsSound
<1>1. ReplyFollowsQuestion /\ ContextExact => RequestsSound
  BY DEF RequestsSound
<1> QED
  BY <1>1, RepliesFollow, ContextIsExact, PTL

-----------------------------------------------------------------------------
(* Sub-agents *)

(* The sub-agent manager on its own.                                       *)
SubagentsSpec == SubagentsInit /\ [][SubagentsNext]_subagentVars

(* No run exists under an id that generate_run_id has not returned yet.    *)
FreshIds == \A r \in Run : r >= nextRun => state[r] = "none"

(* A parent without a list has never had a run.                            *)
UnlistedNew == \A p \in Parent : p \notin listed => Ever(p) = {}

SubagentsInv == RunsTracked /\ FreshIds /\ UnlistedNew

-----------------------------------------------------------------------------
(* Runs and the threads about to insert one are finite sets.               *)
LEMMA Finiteness ==
  ASSUME SubagentsTypeOK, NEW p \in Parent
  PROVE  /\ IsFiniteSet(Active(p)) /\ IsFiniteSet(Inserting(p))
         /\ Cardinality(Active(p)) \in Nat
         /\ Cardinality(Inserting(p)) \in 0 .. Cardinality(SpawnThread)
         /\ Cardinality(SpawnThread) \in Nat
         /\ IsFiniteSet(Ever(p)) /\ Cardinality(Ever(p)) \in Nat
         /\ max_children \in Int /\ FirstOrLimit \in Nat /\ FirstOrLimit >= 1
         /\ FirstOrLimit >= max_children
<1>1. IsFiniteSet(Run)
  BY FS_Interval, LimitsAssumption DEF Run
<1>2. IsFiniteSet(Active(p))
  <2>1. Active(p) \in SUBSET Run
    BY DEF Active, SubagentsTypeOK
  <2> QED
    BY <1>1, <2>1, FS_Subset
<1>3. Inserting(p) \in SUBSET SpawnThread
  BY DEF Inserting
<1>4. IsFiniteSet(Inserting(p)) /\ Cardinality(Inserting(p)) <= Cardinality(SpawnThread)
  BY <1>3, FS_Subset, ThreadAssumption
<1>5. /\ Cardinality(Active(p)) \in Nat /\ Cardinality(Inserting(p)) \in Nat
      /\ Cardinality(SpawnThread) \in Nat
  BY <1>2, <1>4, FS_CardinalityType, ThreadAssumption
<1>6. IsFiniteSet(Ever(p)) /\ Cardinality(Ever(p)) \in Nat
  <2>1. Ever(p) \in SUBSET Run
    BY DEF Ever
  <2> QED
    BY <1>1, <2>1, FS_Subset, FS_CardinalityType
<1>7. max_children \in Int
  BY LimitsAssumption DEF SubagentsTypeOK
<1>8. FirstOrLimit \in Nat /\ FirstOrLimit >= 1 /\ FirstOrLimit >= max_children
  BY <1>7 DEF FirstOrLimit
<1> QED
  BY <1>2, <1>4, <1>5, <1>6, <1>7, <1>8

(* A step that starts no run and lets no further thread pass the check     *)
(* cannot exceed the limit.                                                *)
LEMMA BoundShrinks ==
  ASSUME SubagentsTypeOK, ChildrenBound,
         UNCHANGED <<checked, parent, max_children>>,
         \A p \in Parent : Active(p)' \subseteq Active(p)
  PROVE  ChildrenBound'
<1>1. FirstOrLimit' = FirstOrLimit
  BY DEF FirstOrLimit
<1>2. ASSUME NEW p \in Parent
      PROVE  /\ Cardinality(Active(p)') + Cardinality(Inserting(p)')
                  <= FirstOrLimit + Cardinality(SpawnThread) - 1
             /\ max_children' <= 0 =>
                  Cardinality(Ever(p)') + Cardinality(Inserting(p)')
                    <= Cardinality(SpawnThread)
  <2>1. Inserting(p)' = Inserting(p) /\ Ever(p)' = Ever(p)
    BY DEF Inserting, Ever
  <2>2. /\ Cardinality(Active(p)') <= Cardinality(Active(p))
        /\ Cardinality(Active(p)') \in Nat
    <3>1. Active(p)' \in SUBSET Active(p)
      OBVIOUS
    <3>2. IsFiniteSet(Active(p))
      BY Finiteness
    <3> QED
      BY <3>1, <3>2, FS_Subset, FS_CardinalityType
  <2>3. /\ Cardinality(Active(p)) + Cardinality(Inserting(p))
             <= FirstOrLimit + Cardinality(SpawnThread) - 1
        /\ max_children <= 0 =>
             Cardinality(Ever(p)) + Cardinality(Inserting(p)) <= Cardinality(SpawnThread)
    BY DEF ChildrenBound
  <2> QED
    BY <2>1, <2>2, <2>3, Finiteness
<1> QED
  BY <1>1, <1>2 DEF ChildrenBound

(* Marking a run changes its state to s, and only if it is tracked: no     *)
(* run starts, none appears and none goes.                                 *)
LEMMA MarkRunSound ==
  ASSUME SubagentsInv, NEW r \in Run, NEW s \in States \ {"none", "running"},
         MarkRun(r, s) \/ UNCHANGED state,
         UNCHANGED <<parent, cleanup, children, listed, max_children, checked, nextRun>>,
         stack' \in [SpawnThread -> Seq(1 .. nextRun - 1)]
  PROVE  SubagentsInv'
<1> USE DEF SubagentsInv, RunsTracked
<1>1. \A q \in Run : /\ state'[q] \in States
                     /\ state'[q] = "none" <=> state[q] = "none"
                     /\ state'[q] = "running" => state[q] = "running"
  BY DEF MarkRun, SubagentsTypeOK, States
<1>2. state' \in [Run -> States]
  BY <1>1 DEF MarkRun, SubagentsTypeOK
<1>3. SubagentsTypeOK'
  BY <1>2 DEF SubagentsTypeOK
<1>4. ListsMatchRuns' /\ FreshIds' /\ UnlistedNew'
  BY <1>1 DEF ListsMatchRuns, FreshIds, UnlistedNew, Ever
<1>5. ChildrenBound'
  <2>1. \A p \in Parent : Active(p)' \subseteq Active(p)
    BY <1>1 DEF Active, SubagentsTypeOK
  <2> QED
    BY <2>1, BoundShrinks
<1> QED
  BY <1>3, <1>4, <1>5

-----------------------------------------------------------------------------
(* The manager as constructed tracks nothing.                              *)
LEMMA SubagentsInitInv == SubagentsInit => SubagentsInv
<1> SUFFICES ASSUME SubagentsInit PROVE SubagentsInv
  OBVIOUS
<1> USE LimitsAssumption, ThreadAssumption, ParentAssumption DEF SubagentsInit
<1>1. SubagentsTypeOK
  BY DEF SubagentsTypeOK, States, Run
<1>2. ListsMatchRuns /\ FreshIds /\ UnlistedNew
  BY DEF ListsMatchRuns, FreshIds, UnlistedNew, Ever
<1>3. ChildrenBound
  <2> SUFFICES ASSUME NEW p \in Parent
               PROVE  /\ Cardinality(Active(p)) + Cardinality(Inserting(p))
                           <= FirstOrLimit + Cardinality(SpawnThread) - 1
                      /\ Cardinality(Ever(p)) + Cardinality(Inserting(p))
                           <= Cardinality(SpawnThread)
    BY DEF ChildrenBound
  <2>1. Active(p) = {} /\ Inserting(p) = {} /\ Ever(p) = {}
    BY DEF Active, Inserting, Ever
  <2>2. Cardinality(SpawnThread) \in Nat /\ Cardinality({}) = 0
    BY FS_EmptySet, FS_CardinalityType
  <2>3. FirstOrLimit \in Nat /\ FirstOrLimit >= 1
    BY <1>1, Finiteness
  <2> QED
    BY <2>1, <2>2, <2>3
<1> QED
  BY <1>1, <1>2, <1>3 DEF SubagentsInv, RunsTracked

(* The check of Spawn: this thread adds one to a parent below its limit,   *)
(* and the other threads that passed the check add one each.               *)
LEMMA SpawnCheckInv ==
  ASSUME SubagentsInv, NEW t \in SpawnThread, NEW p \in Parent, NEW d \in Depth,
         SpawnCheck(t, p, d)
  PROVE  SubagentsInv'
<1> USE DEF SubagentsInv, RunsTracked, SpawnCheck
<1>1. SubagentsTypeOK'
  BY DEF SubagentsTypeOK
<1>2. ListsMatchRuns' /\ FreshIds' /\ UnlistedNew'
  BY DEF ListsMatchRuns, FreshIds, UnlistedNew, Ever
<1>3. ASSUME NEW q \in Parent
      PROVE  /\ Cardinality(Active(q)') + Cardinality(Inserting(q)')
                  <= FirstOrLimit + Cardinality(SpawnThread) - 1
             /\ max_children <= 0 =>
                  Cardinality(Ever(q)') + Cardinality(Inserting(q)')
                    <= Cardinality(SpawnThread)
  <2>1. Active(q)' = Active(q) /\ Ever(q)' = Ever(q)
    BY DEF Active, Ever
  <2>2. CASE q = p
    <3>1. Cardinality(Inserting(q)') <= Cardinality(SpawnThread)
      BY <1>1, FS_Subset, ThreadAssumption DEF Inserting
    <3>2. Cardinality(Inserting(q)') \in Nat
      BY FS_Subset, FS_CardinalityType, ThreadAssumption DEF Inserting
    <3>3. CASE p \in listed
      <4>1. Cardinality(Active(q)) < max_children
        BY <2>2, <3>3
      <4> QED
        BY <2>1, <3>1, <3>2, <4>1, Finiteness
    <3>4. CASE p \notin listed
      <4>1. Ever(q) = {}
        BY <2>2, <3>4 DEF UnlistedNew
      <4>2. Active(q) = {}
        BY <4>1 DEF Active, Ever, ListsMatchRuns
      <4> QED
        BY <2>1, <3>1, <3>2, <4>1, <4>2, Finiteness, FS_EmptySet
    <3> QED
      BY <3>3, <3>4
  <2>3. CASE q # p
    <3>1. Inserting(q)' = Inserting(q)
      BY <2>3, ParentAssumption DEF Inserting, SubagentsTypeOK
    <3> QED
      BY <2>1, <3>1 DEF ChildrenBound
  <2> QED
    BY <2>2, <2>3
<1>4. ChildrenBound'
  BY <1>3 DEF ChildrenBound, FirstOrLimit
<1> QED
  BY <1>1, <1>2, <1>4

(* The insertion of Spawn: the thread that passed the check becomes one    *)
(* active child, under an id no list holds yet.                            *)
LEMMA SpawnInsertInv ==
  ASSUME SubagentsInv, NEW t \in SpawnThread, NEW clean \in BOOLEAN,
         SpawnInsert(t, clean)
  PROVE  SubagentsInv'
<1> USE DEF SubagentsInv, RunsTracked, SpawnInsert
<1> DEFINE p == checked[t]
<1>1. p \in Parent /\ nextRun \in Run
  BY LimitsAssumption DEF SubagentsTypeOK, Run
<1>2. SubagentsTypeOK'
  <2>1. nextRun' \in 1 .. MaxRuns + 1 /\ nextRun \in 1 .. nextRun' - 1
    BY <1>1, LimitsAssumption DEF Run
  <2>2. stack' \in [SpawnThread -> Seq(1 .. nextRun' - 1)]
    <3>1. \A u \in SpawnThread : stack[u] \in Seq(1 .. nextRun' - 1)
      <4>1. 1 .. nextRun - 1 \subseteq 1 .. nextRun' - 1
        BY <1>1 DEF Run
      <4> QED
        BY <4>1 DEF SubagentsTypeOK
    <3> QED
      BY <2>1, <3>1 DEF SubagentsTypeOK
  <2>3. /\ state' \in [Run -> States] /\ parent' \in [Run -> Parent \cup {NoParent}]
        /\ cleanup' \in [Run -> BOOLEAN]
    BY <1>1 DEF SubagentsTypeOK, States
  <2>4. /\ children' \in [Parent -> SUBSET Run]
        /\ checked' \in [SpawnThread -> Parent \cup {NoParent}]
    BY <1>1 DEF SubagentsTypeOK
  <2>5. listed' \subseteq Parent /\ max_children' \in Limits
    BY <1>1 DEF SubagentsTypeOK
  <2> QED
    BY <2>1, <2>2, <2>3, <2>4, <2>5 DEF SubagentsTypeOK
<1>3. state[nextRun] = "none"
  BY <1>1 DEF FreshIds, Run
<1>4. FreshIds'
  BY <1>1 DEF FreshIds, SubagentsTypeOK, Run
<1>5. ListsMatchRuns'
  <2> SUFFICES ASSUME NEW q \in Parent
               PROVE  children'[q] = {r \in Run : state'[r] # "none" /\ parent'[r] = q}
    BY DEF ListsMatchRuns
  <2>1. children[q] = {r \in Run : state[r] # "none" /\ parent[r] = q}
    BY DEF ListsMatchRuns
  <2>2. CASE q = p
    BY <1>1, <2>1, <2>2 DEF SubagentsTypeOK
  <2>3. CASE q # p
    BY <1>1, <1>3, <2>1, <2>3 DEF SubagentsTypeOK
  <2> QED
    BY <2>2, <2>3
<1>6. ASSUME NEW q \in Parent
      PROVE  /\ Cardinality(Active(q)') + Cardinality(Inserting(q)')
                  <= FirstOrLimit + Cardinality(SpawnThread) - 1
             /\ max_children <= 0 =>
                  Cardinality(Ever(q)') + Cardinality(Inserting(q)')
                    <= Cardinality(SpawnThread)
  <2>0. /\ Cardinality(Active(q)) + Cardinality(Inserting(q))
             <= FirstOrLimit + Cardinality(SpawnThread) - 1
        /\ max_children <= 0 =>
             Cardinality(Ever(q)) + Cardinality(Inserting(q)) <= Cardinality(SpawnThread)
    BY DEF ChildrenBound
  <2>1. CASE q = p
    <3>1. Active(q)' = Active(q) \cup {nextRun}
      BY <1>1, <2>1 DEF Active, SubagentsTypeOK
    <3>2. Inserting(q)' = Inserting(q) \ {t} /\ t \in Inserting(q)
      BY <1>1, <2>1, ParentAssumption DEF Inserting, SubagentsTypeOK
    <3>3. Cardinality(Active(q)') \in {Cardinality(Active(q)), Cardinality(Active(q)) + 1}
      BY <3>1, Finiteness, FS_AddElement
    <3>4. Cardinality(Inserting(q)') = Cardinality(Inserting(q)) - 1
      BY <3>2, Finiteness, FS_RemoveElement
    <3>5. Ever(q)' = Ever(q) \cup {nextRun}
      BY <1>1, <2>1 DEF Ever, SubagentsTypeOK
    <3>6. Cardinality(Ever(q)') \in {Cardinality(Ever(q)), Cardinality(Ever(q)) + 1}
      BY <3>5, Finiteness, FS_AddElement
    <3> QED
      BY <2>0, <3>3, <3>4, <3>6, Finiteness
  <2>2. CASE q # p
    <3>1. Active(q)' = Active(q)
      BY <1>1, <1>3, <2>2 DEF Active, SubagentsTypeOK, ListsMatchRuns
    <3>2. Inserting(q)' = Inserting(q)
      BY <1>1, <2>2, ParentAssumption DEF Inserting, SubagentsTypeOK
    <3>3. Ever(q)' \subseteq Ever(q)
      BY <1>1, <2>2 DEF Ever, SubagentsTypeOK
    <3>4. Cardinality(Ever(q)') <= Cardinality(Ever(q)) /\ Cardinality(Ever(q)') \in Nat
      BY <3>3, Finiteness, FS_Subset, FS_CardinalityType
    <3> QED
      BY <2>0, <3>1, <3>2, <3>4, Finiteness
  <2> QED
    BY <2>1, <2>2
<1>7. ChildrenBound'
  BY <1>6 DEF ChildrenBound, FirstOrLimit
<1>8. UnlistedNew'
  BY <1>1 DEF UnlistedNew, Ever, SubagentsTypeOK
<1> QED
  BY <1>2, <1>4, <1>5, <1>7, <1>8

(* The agent loop on top of a thread's stack ends, with a text, without    *)
(* one or with an exception.                                               *)
LEMMA RunnerInv ==
  ASSUME SubagentsInv, NEW t \in SpawnThread, NEW empty \in BOOLEAN,
         RunnerReturns(t, empty) \/ RunnerThrows(t)
  PROVE  SubagentsInv'
<1> USE DEF SubagentsInv, RunsTracked, SubagentsTypeOK
<1>1. stack[t] \in Seq(1 .. nextRun - 1) /\ stack[t] # <<>>
  BY DEF RunnerReturns, RunnerThrows
<1>2. Top(t) \in Run
  <2>1. Top(t) \in 1 .. nextRun - 1
    BY <1>1 DEF Top
  <2> QED
    BY <2>1, LimitsAssumption DEF Run
<1>3. stack' \in [SpawnThread -> Seq(1 .. nextRun - 1)]
  <2>1. SubSeq(stack[t], 1, Len(stack[t]) - 1) \in Seq(1 .. nextRun - 1)
    BY <1>1
  <2> QED
    BY <2>1 DEF RunnerReturns, RunnerThrows, Pop
<1>4. \E s \in {"completed", "failed"} : MarkRun(Top(t), s) \/ UNCHANGED state
  BY DEF RunnerReturns, RunnerThrows
<1>5. UNCHANGED <<parent, cleanup, children, listed, max_children, checked, nextRun>>
  BY DEF RunnerReturns, RunnerThrows
<1>6. {"completed", "failed"} \subseteq States \ {"none", "running"}
  BY DEF States
<1> HIDE DEF SubagentsInv
<1> QED
  BY <1>2, <1>3, <1>4, <1>5, <1>6, MarkRunSound

(* The calls of the embedding program that end one run.                    *)
LEMMA EndRunInv ==
  ASSUME SubagentsInv, NEW r \in Run, CompleteRun(r) \/ FailRun(r) \/ CancelRun(r)
  PROVE  SubagentsInv'
<1>1. \E s \in {"completed", "failed", "cancelled"} : MarkRun(r, s)
  BY DEF CompleteRun, FailRun, CancelRun, MarkRun
<1>2. UNCHANGED <<parent, cleanup, children, listed, max_children, checked, stack,
                  nextRun>>
  BY DEF CompleteRun, FailRun, CancelRun
<1>3. stack' \in [SpawnThread -> Seq(1 .. nextRun - 1)]
  BY <1>2 DEF SubagentsInv, RunsTracked, SubagentsTypeOK
<1>4. {"completed", "failed", "cancelled"} \subseteq States \ {"none", "running"}
  BY DEF States
<1> QED
  BY <1>1, <1>2, <1>3, <1>4, MarkRunSound

(* CleanupCompleted erases the ephemeral runs that have ended, from the    *)
(* table and from the lists.                                               *)
LEMMA CleanupInv == SubagentsInv /\ CleanupCompleted => SubagentsInv'
<1> SUFFICES ASSUME SubagentsInv, CleanupCompleted PROVE SubagentsInv'
  OBVIOUS
<1> USE DEF SubagentsInv, RunsTracked, CleanupCompleted
<1>1. SubagentsTypeOK'
  BY DEF SubagentsTypeOK, States
<1>2. FreshIds' /\ UnlistedNew'
  BY DEF FreshIds, UnlistedNew, Ever
<1>3. ListsMatchRuns'
  BY DEF ListsMatchRuns, SubagentsTypeOK
<1>4. ChildrenBound'
  <2>1. \A p \in Parent : Active(p)' \subseteq Active(p)
    BY DEF Active, SubagentsTypeOK
  <2> QED
    BY <2>1, BoundShrinks
<1> QED
  BY <1>1, <1>2, <1>3, <1>4

(* What SubagentManager keeps of its runs is consistent at every moment:   *)
(* a run is listed with its parent exactly while it is tracked, and the    *)
(* gap between Spawn's two lock regions lets at most one run more than the *)
(* limit start for each other thread (subagent.cpp, Spawn).  A limit of     *)
(* zero or less, which the check looks at only when the parent has a list, *)
(* lets the first through and whoever races with it, and nobody later.     *)
THEOREM RunsTrackedAlways == SubagentsSpec => []RunsTracked
<1>1. SubagentsInit => SubagentsInv
  BY SubagentsInitInv
<1>2. SubagentsInv /\ [SubagentsNext]_subagentVars => SubagentsInv'
  <2> SUFFICES ASSUME SubagentsInv, [SubagentsNext]_subagentVars PROVE SubagentsInv'
    OBVIOUS
  <2>1. CASE SpawnStep
    BY <2>1, SpawnCheckInv, SpawnInsertInv DEF SpawnStep
  <2>2. CASE RunnerStep
    BY <2>2, RunnerInv DEF RunnerStep
  <2>3. CASE ApiStep
    BY <2>3, EndRunInv, CleanupInv DEF ApiStep
  <2>4. CASE UNCHANGED subagentVars
    <3>1. SubagentsTypeOK'
      BY <2>4 DEF subagentVars, SubagentsInv, RunsTracked, SubagentsTypeOK
    <3>2. ListsMatchRuns' /\ FreshIds' /\ UnlistedNew'
      BY <2>4 DEF subagentVars, SubagentsInv, RunsTracked, ListsMatchRuns, FreshIds,
                  UnlistedNew, Ever
    <3>3. ChildrenBound'
      <4>1. \A p \in Parent : Active(p)' \subseteq Active(p)
        BY <2>4 DEF subagentVars, Active
      <4> QED
        BY <2>4, <4>1, BoundShrinks DEF subagentVars, SubagentsInv, RunsTracked
    <3> QED
      BY <3>1, <3>2, <3>3 DEF SubagentsInv, RunsTracked
  <2> QED
    BY <2>1, <2>2, <2>3, <2>4 DEF SubagentsNext
<1>3. SubagentsInv => RunsTracked
  BY DEF SubagentsInv
<1> QED
  BY <1>1, <1>2, <1>3, PTL DEF SubagentsSpec

-----------------------------------------------------------------------------
(***************************************************************************)
(* Context.                                                                *)
(***************************************************************************)
(* f is defined by recursion over 0 .. n, with the steps of G.              *)
IsRun(f, X, b, G, n) ==
  f \in [0 .. n -> X] /\ f[0] = b /\ \A i \in 1 .. n : f[i] = G[i][f[i - 1]]

(* A function defined by recursion exists.                                 *)
LEMMA Recursion ==
  ASSUME NEW X, NEW b \in X, NEW G \in [Nat -> [X -> X]], NEW n \in Nat
  PROVE  \E f : IsRun(f, X, b, G, n)
<1> DEFINE Upto(f, k) == f[0] = b /\ \A i \in 1 .. k : f[i] = G[i][f[i - 1]]
           S == {k \in Nat : \E f \in [0 .. k -> X] : Upto(f, k)}
<1>1. 0 \in S
  <2>1. [i \in 0 .. 0 |-> b] \in [0 .. 0 -> X] /\ Upto([i \in 0 .. 0 |-> b], 0)
    OBVIOUS
  <2> QED
    BY <2>1
<1>2. ASSUME NEW k \in S PROVE k + 1 \in S
  <2>1. PICK f \in [0 .. k -> X] : Upto(f, k)
    OBVIOUS
  <2> DEFINE v == [i \in 0 .. k + 1 |-> IF i = k + 1 THEN G[k + 1][f[k]] ELSE f[i]]
  <2>2. G[k + 1][f[k]] \in X
    OBVIOUS
  <2>3. v \in [0 .. k + 1 -> X]
    BY <2>2
  <2>4. v[0] = b
    BY <2>1
  <2>5. ASSUME NEW i \in 1 .. k + 1 PROVE v[i] = G[i][v[i - 1]]
    <3>1. CASE i = k + 1
      <4>1. v[i - 1] = f[k]
        BY <3>1
      <4> QED
        BY <3>1, <4>1
    <3>2. CASE i \in 1 .. k
      <4>1. v[i - 1] = f[i - 1] /\ v[i] = f[i]
        BY <3>2
      <4> QED
        BY <2>1, <3>2, <4>1
    <3> QED
      BY <3>1, <3>2
  <2> HIDE DEF v
  <2>6. Upto(v, k + 1)
    BY <2>4, <2>5
  <2> HIDE DEF Upto
  <2>7. \E w \in [0 .. k + 1 -> X] : Upto(w, k + 1)
    BY <2>3, <2>6
  <2>8. k + 1 \in Nat
    OBVIOUS
  <2> QED
    BY <2>7, <2>8
<1> HIDE DEF S
<1>3. S = Nat
  <2>1. S \in SUBSET Nat
    BY DEF S
  <2> QED
    BY <1>1, <1>2, <2>1, Induction
<1> QED
  BY <1>3 DEF S, IsRun

-----------------------------------------------------------------------------

(* Numbered from 1 to its length.                                          *)
IsVector(s) == s \in Seq(Range(s))

(* A sequence is a vector.                                                 *)
LEMMA VectorIs ==
  ASSUME NEW T, NEW s \in Seq(T)
  PROVE  IsVector(s) /\ Range(s) \subseteq T
         /\ Len(s) \in Nat /\ DOMAIN s = 1 .. Len(s)
<1>1. Len(s) \in Nat /\ DOMAIN s = 1 .. Len(s) /\ s \in [1 .. Len(s) -> T]
  OBVIOUS
<1>2. Range(s) \subseteq T
  BY <1>1 DEF Range
<1>3. s \in [1 .. Len(s) -> Range(s)]
  BY <1>1 DEF Range
<1>4. s \in Seq(Range(s))
  BY <1>1, <1>3
<1> QED
  BY <1>1, <1>2, <1>4 DEF IsVector

(* A vector is numbered from 1 to its length.                              *)
LEMMA VectorLen ==
  ASSUME NEW s, IsVector(s)
  PROVE  Len(s) \in Nat /\ DOMAIN s = 1 .. Len(s)
BY DEF IsVector

(* A function on 1 .. n is a vector.                                       *)
LEMMA VectorFrom ==
  ASSUME NEW s, NEW n \in Nat, DOMAIN s = 1 .. n, s = [i \in 1 .. n |-> s[i]]
  PROVE  IsVector(s) /\ Len(s) = n
<1> DEFINE T == Range(s)
<1>1. \A i \in 1 .. n : s[i] \in T
  BY DEF Range
<1> HIDE DEF T
<1>2. s \in [1 .. n -> T]
  BY <1>1
<1>3. s \in Seq(T)
  BY <1>2
<1> QED
  BY <1>2, <1>3 DEF IsVector, T

(* Two vectors, one after the other.                                       *)
LEMMA Joined ==
  ASSUME NEW s, IsVector(s), NEW r, IsVector(r)
  PROVE  /\ IsVector(s \o r) /\ Len(s \o r) = Len(s) + Len(r)
         /\ \A i \in 1 .. Len(s) : (s \o r)[i] = s[i]
         /\ \A i \in 1 .. Len(r) : (s \o r)[Len(s) + i] = r[i]
<1>1. PICK T : T = Range(s) \cup Range(r)
  OBVIOUS
<1>2. s \in Seq(T) /\ r \in Seq(T)
  <2>1. PICK A, B : s \in Seq(A) /\ r \in Seq(B) /\ A = Range(s) /\ B = Range(r)
    BY DEF IsVector
  <2>2. A \subseteq T /\ B \subseteq T
    BY <1>1, <2>1
  <2> QED
    BY <2>1, <2>2
<1>3. PICK q : q = s \o r
  OBVIOUS
<1>4. Len(s) \in Nat /\ Len(r) \in Nat
  BY <1>2
<1>5. /\ q \in Seq(T) /\ Len(q) = Len(s) + Len(r)
      /\ \A i \in 1 .. Len(s) + Len(r) : q[i] = IF i <= Len(s) THEN s[i] ELSE r[i - Len(s)]
  BY <1>2, <1>3, ConcatProperties
<1>6. \A i \in 1 .. Len(s) : q[i] = s[i]
  BY <1>4, <1>5
<1>7. ASSUME NEW i \in 1 .. Len(r) PROVE q[Len(s) + i] = r[i]
  <2>1. /\ Len(s) + i \in 1 .. Len(s) + Len(r) /\ ~ (Len(s) + i <= Len(s))
        /\ (Len(s) + i) - Len(s) = i
    BY <1>4
  <2> QED
    BY <1>5, <2>1
<1> QED
  BY <1>3, <1>5, <1>6, <1>7, VectorIs

(* The last n of a vector, or all of it.                                   *)
LEMMA RecentIs ==
  ASSUME NEW s, IsVector(s), NEW n \in Nat
  PROVE  LET m == Lower(n, Len(s))
         IN  /\ m \in 0 .. Len(s)
             /\ IsVector(Recent(s, n)) /\ Len(Recent(s, n)) = m
             /\ \A i \in 1 .. m : Recent(s, n)[i] = s[Len(s) - m + i]
<1>1. PICK m, k, q, T : /\ m = Lower(n, Len(s)) /\ k = Len(s) - m + 1
                        /\ q = Recent(s, n) /\ T = Range(s)
  OBVIOUS
<1>2. Len(s) \in Nat /\ DOMAIN s = 1 .. Len(s) /\ s \in Seq(T)
  BY <1>1 DEF IsVector
<1>3. m \in Nat /\ m <= Len(s) /\ k \in Int /\ 1 <= k
  <2>1. m = IF n < Len(s) THEN n ELSE Len(s)
    BY <1>1 DEF Lower
  <2>2. m \in Nat /\ m <= Len(s)
    <3>1. Len(s) \in Nat
      BY <1>2
    <3>2. CASE n < Len(s)
      BY <2>1, <3>1, <3>2
    <3>3. CASE ~ (n < Len(s))
      BY <2>1, <3>1, <3>3
    <3> QED
      BY <3>2, <3>3
  <2> QED
    BY <1>1, <1>2, <2>2
<1>4. q = SubSeq(s, k, Len(s))
  BY <1>1 DEF Recent
<1>5. \A i \in k .. Len(s) : s[i] \in T
  BY <1>2, <1>3
<1>6. /\ q \in Seq(T)
      /\ Len(q) = IF k <= Len(s) THEN Len(s) - k + 1 ELSE 0
      /\ \A i \in 1 .. Len(s) - k + 1 : q[i] = s[k + i - 1]
  <2>1. k \in Int /\ Len(s) \in Int
    BY <1>2, <1>3
  <2> QED
    BY <1>4, <1>5, <2>1, SubSeqProperties
<1>7. Len(q) = m /\ Len(s) - k + 1 = m
  BY <1>1, <1>2, <1>3, <1>6
<1>8. ASSUME NEW i \in 1 .. m PROVE q[i] = s[Len(s) - m + i]
  <2>1. k + i - 1 = Len(s) - m + i
    BY <1>1, <1>2, <1>3
  <2> QED
    BY <1>6, <1>7, <2>1
<1> QED
  BY <1>1, <1>2, <1>3, <1>6, <1>7, <1>8, VectorIs

(* A vector with one element more.                                         *)
LEMMA Appended ==
  ASSUME NEW T, NEW s \in Seq(T), NEW e \in T
  PROVE  /\ Append(s, e) \in Seq(T) /\ IsVector(Append(s, e))
         /\ Len(Append(s, e)) = Len(s) + 1
         /\ DOMAIN Append(s, e) = 1 .. Len(s) + 1
         /\ \A i \in 1 .. Len(s) : Append(s, e)[i] = s[i]
         /\ Append(s, e)[Len(s) + 1] = e
<1>1. PICK q : q = Append(s, e)
  OBVIOUS
<1>2. /\ q \in Seq(T) /\ Len(q) = Len(s) + 1 /\ DOMAIN q = 1 .. Len(s) + 1
      /\ q[Len(s) + 1] = e /\ \A i \in 1 .. Len(s) : q[i] = s[i]
  BY <1>1, AppendProperties
<1> QED
  BY <1>1, <1>2, VectorIs

(* The shape of a message.                                                 *)
Message(m) ==
  /\ m = [role |-> m.role, id |-> m.id, results |-> m.results, of |-> m.of]
  /\ m.id \in Nat /\ IsVector(m.results)

(* A message weighs a number of tokens.                                    *)
LEMMA TokensType ==
  ASSUME NEW m, Message(m)
  PROVE  TokensOf(m) \in Nat
<1> DEFINE B == {i \in DOMAIN m.results : m.results[i] \in Big}
<1>1. PICK n : n \in Nat /\ DOMAIN m.results = 1 .. n
  BY VectorLen DEF Message
<1>2. IsFiniteSet(1 .. n)
  <2>1. 1 \in Int /\ n \in Int
    BY <1>1
  <2> QED
    BY <2>1, FS_Interval
<1>3. B \subseteq 1 .. n
  BY <1>1
<1> HIDE DEF B
<1>4. Cardinality(B) \in Nat
  BY <1>2, <1>3, FS_Subset, FS_CardinalityType
<1>5. TokensOf(m) = 1 + 2 * Cardinality(B)
  BY DEF TokensOf, B
<1> QED
  BY <1>4, <1>5

(* The sums that EstimateTokens makes, message by message.                 *)
IsSum(f, s) ==
  f = [i \in 0 .. Len(s) |-> IF i = 0 THEN 0 ELSE f[i - 1] + TokensOf(s[i])]

(* What the sums are...                                                    *)
LEMMA SumStep ==
  ASSUME NEW s, IsVector(s), NEW f, IsSum(f, s)
  PROVE  f[0] = 0 /\ \A i \in 1 .. Len(s) : f[i] = f[i - 1] + TokensOf(s[i])
<1> DEFINE H(i) == IF i = 0 THEN 0 ELSE f[i - 1] + TokensOf(s[i])
<1>1. Len(s) \in Nat
  BY VectorLen
<1>2. f = [i \in 0 .. Len(s) |-> H(i)]
  BY DEF IsSum
<1>3. \A i \in 0 .. Len(s) : f[i] = H(i)
  <2> HIDE DEF H
  <2> QED
    BY <1>2
<1> QED
  BY <1>1, <1>3

(* ... that they exist...                                                  *)
LEMMA SumIs ==
  ASSUME NEW s, IsVector(s), \A i \in DOMAIN s : Message(s[i])
  PROVE  \E f : IsSum(f, s) /\ EstimateTokens(s) = f[Len(s)]
<1> DEFINE n == Len(s)
           G == [i \in Nat |-> [x \in Nat |-> IF i \in 1 .. n THEN x + TokensOf(s[i]) ELSE x]]
<1>1. n \in Nat /\ DOMAIN s = 1 .. n
  BY VectorLen
<1> HIDE DEF n
<1>2. \A i \in 1 .. n : TokensOf(s[i]) \in Nat
  BY <1>1, TokensType
<1>3. G \in [Nat -> [Nat -> Nat]]
  <2>1. ASSUME NEW i \in Nat, NEW x \in Nat
        PROVE  (IF i \in 1 .. n THEN x + TokensOf(s[i]) ELSE x) \in Nat
    BY <1>2
  <2> QED
    BY <2>1
<1>4. PICK f : IsRun(f, Nat, 0, G, n)
  <2>1. PICK H, m : H = G /\ m = n
    OBVIOUS
  <2>2. H \in [Nat -> [Nat -> Nat]] /\ m \in Nat /\ 0 \in Nat
    BY <1>1, <1>3, <2>1
  <2>3. \E f : IsRun(f, Nat, 0, H, m)
    BY <2>2, Recursion
  <2> QED
    BY <2>1, <2>3
<1>5. /\ f \in [0 .. n -> Nat] /\ f[0] = 0
      /\ \A i \in 1 .. n : f[i] = G[i][f[i - 1]]
  <2> HIDE DEF G
  <2> QED
    BY <1>4 DEF IsRun
<1>6. ASSUME NEW i \in 0 .. n
      PROVE  f[i] = IF i = 0 THEN 0 ELSE f[i - 1] + TokensOf(s[i])
  <2>1. CASE i = 0
    BY <1>5, <2>1
  <2>2. CASE i \in 1 .. n
    <3>1. i \in Nat /\ i # 0 /\ i - 1 \in 0 .. n
      BY <1>1, <2>2
    <3>2. f[i - 1] \in Nat
      BY <1>5, <3>1
    <3>3. f[i] = G[i][f[i - 1]]
      <4> HIDE DEF G
      <4> QED
        BY <1>5, <2>2
    <3> QED
      BY <2>2, <3>1, <3>2, <3>3
  <2> QED
    BY <1>1, <2>1, <2>2
<1>7. IsSum(f, s)
  <2>1. f = [i \in 0 .. n |-> IF i = 0 THEN 0 ELSE f[i - 1] + TokensOf(s[i])]
    BY <1>5, <1>6
  <2> QED
    BY <2>1 DEF IsSum, n
<1>8. PICK v : IsSum(v, s) /\ v = CHOOSE u : IsSum(u, s)
  BY <1>7
<1>9. EstimateTokens(s) = v[Len(s)]
  BY <1>8 DEF EstimateTokens, IsSum
<1> QED
  BY <1>8, <1>9

(* ... and that the last message counts once.                              *)
LEMMA EstimateAdds ==
  ASSUME NEW T, NEW q \in Seq(T), NEW m \in T, \A x \in T : Message(x)
  PROVE  EstimateTokens(Append(q, m)) = EstimateTokens(q) + TokensOf(m)
<1>1. PICK r : r = Append(q, m)
  OBVIOUS
<1>2. /\ r \in Seq(T) /\ IsVector(r) /\ Len(r) = Len(q) + 1 /\ r[Len(q) + 1] = m
      /\ \A i \in 1 .. Len(q) : r[i] = q[i]
  BY <1>1, Appended
<1>3. IsVector(q) /\ Len(q) \in Nat /\ DOMAIN q = 1 .. Len(q) /\ DOMAIN r = 1 .. Len(r)
  BY <1>2, VectorIs
<1>4. (\A i \in DOMAIN q : Message(q[i])) /\ (\A i \in DOMAIN r : Message(r[i]))
  <2>1. (\A i \in DOMAIN q : q[i] \in T) /\ (\A i \in DOMAIN r : r[i] \in T)
    BY <1>2, <1>3
  <2> QED
    BY <2>1
<1>5. PICK f : IsSum(f, q) /\ EstimateTokens(q) = f[Len(q)]
  BY <1>3, <1>4, SumIs
<1>6. PICK g : IsSum(g, r) /\ EstimateTokens(r) = g[Len(r)]
  BY <1>2, <1>4, SumIs
<1>7. /\ f[0] = 0 /\ \A i \in 1 .. Len(q) : f[i] = f[i - 1] + TokensOf(q[i])
      /\ g[0] = 0 /\ \A i \in 1 .. Len(r) : g[i] = g[i - 1] + TokensOf(r[i])
  BY <1>2, <1>3, <1>5, <1>6, SumStep
<1> DEFINE n == Len(q)
           S == {i \in Nat : i <= n => f[i] = g[i]}
<1>8. S = Nat
  <2>1. 0 \in S
    BY <1>7
  <2>2. ASSUME NEW i \in S PROVE i + 1 \in S
    <3>1. SUFFICES ASSUME i + 1 <= n PROVE f[i + 1] = g[i + 1]
      OBVIOUS
    <3>2. /\ i + 1 \in 1 .. Len(q) /\ i + 1 \in 1 .. Len(r) /\ (i + 1) - 1 = i
          /\ f[i] = g[i]
      BY <1>2, <1>3, <3>1
    <3>3. f[i + 1] = f[i] + TokensOf(q[i + 1]) /\ g[i + 1] = g[i] + TokensOf(r[i + 1])
      BY <1>7, <3>2
    <3> QED
      BY <1>2, <3>2, <3>3
  <2>3. S \in SUBSET Nat
    OBVIOUS
  <2> HIDE DEF S
  <2> QED
    BY <2>1, <2>2, <2>3, Induction
<1>9. f[n] = g[n]
  BY <1>3, <1>8
<1>10. g[n + 1] = g[n] + TokensOf(r[n + 1])
  <2>1. n + 1 \in 1 .. Len(r) /\ (n + 1) - 1 = n
    BY <1>2, <1>3
  <2>2. g[n + 1] = g[(n + 1) - 1] + TokensOf(r[n + 1])
    BY <1>7, <2>1
  <2> QED
    BY <2>1, <2>2
<1> QED
  BY <1>1, <1>2, <1>5, <1>6, <1>9, <1>10

(* Everything that was said is in the order in which it was said.          *)
Rising(s) == \A i, j \in DOMAIN s : i < j => s[i].id < s[j].id

SpokenRising(s) ==
  \A i, j \in DOMAIN s :
    i < j /\ s[i].role # "system" /\ s[j].role # "system" => s[i].id < s[j].id

(* What was said, in its order.                                            *)
LEMMA SpokenIs ==
  ASSUME NEW s, IsVector(s)
  PROVE  /\ IsVector(Spoken(s))
         /\ \A i \in DOMAIN Spoken(s) :
              \E j \in DOMAIN s : Spoken(s)[i] = s[j] /\ s[j].role # "system"
         /\ SpokenRising(s) => Rising(Spoken(s))
<1> DEFINE T == Range(s)
           n == Len(s)
           Eq(f) == f = [i \in 0 .. n |->
                      IF i = 0 THEN <<>>
                      ELSE IF s[i].role # "system" THEN Append(f[i - 1], s[i]) ELSE f[i - 1]]
           G == [i \in Nat |-> [q \in Seq(T) |->
                   IF i \in 1 .. n /\ s[i].role # "system" THEN Append(q, s[i]) ELSE q]]
<1>1. s \in Seq(T) /\ n \in Nat /\ DOMAIN s = 1 .. n /\ \A i \in 1 .. n : s[i] \in T
  BY DEF IsVector
<1> HIDE DEF T, n
<1>2. G \in [Nat -> [Seq(T) -> Seq(T)]]
  <2>1. ASSUME NEW i \in Nat, NEW q \in Seq(T)
        PROVE  (IF i \in 1 .. n /\ s[i].role # "system" THEN Append(q, s[i]) ELSE q) \in Seq(T)
    BY <1>1
  <2> QED
    BY <2>1
<1>3. PICK v : Eq(v) /\ v = CHOOSE f : Eq(f)
  <2>1. PICK f \in [0 .. n -> Seq(T)] : f[0] = <<>> /\ \A i \in 1 .. n : f[i] = G[i][f[i - 1]]
    <3> DEFINE X == Seq(T)
    <3>1. <<>> \in X /\ G \in [Nat -> [X -> X]]
      BY <1>2
    <3> HIDE DEF G, X
    <3>2. PICK U, b, H, m : U = X /\ b = <<>> /\ H = G /\ m = n
      OBVIOUS
    <3>3. b \in U /\ H \in [Nat -> [U -> U]] /\ m \in Nat
      BY <1>1, <3>1, <3>2
    <3>4. \E f : IsRun(f, U, b, H, m)
      BY <3>3, Recursion
    <3> QED
      BY <3>2, <3>4 DEF X, IsRun
  <2>2. ASSUME NEW i \in 0 .. n
        PROVE  f[i] = IF i = 0 THEN <<>>
                      ELSE IF s[i].role # "system" THEN Append(f[i - 1], s[i]) ELSE f[i - 1]
    <3>1. CASE i = 0
      BY <2>1, <3>1
    <3>2. CASE i \in 1 .. n
      <4>1. i \in Nat /\ i # 0 /\ i - 1 \in 0 .. n
        BY <1>1, <3>2
      <4>2. f[i - 1] \in Seq(T)
        BY <2>1, <4>1
      <4>3. f[i] = G[i][f[i - 1]]
        <5> HIDE DEF G
        <5> QED
          BY <2>1, <3>2
      <4> QED
        BY <3>2, <4>1, <4>2, <4>3
    <3> QED
      BY <1>1, <3>1, <3>2
  <2>3. Eq(f)
    BY <2>2
  <2> QED
    BY <2>3
<1>4. Spoken(s) = v[n]
  BY <1>3 DEF Spoken, n
<1>5. /\ v[0] = <<>>
      /\ \A i \in 1 .. n :
           v[i] = IF s[i].role # "system" THEN Append(v[i - 1], s[i]) ELSE v[i - 1]
  <2> DEFINE H(i) == IF i = 0 THEN <<>>
                     ELSE IF s[i].role # "system" THEN Append(v[i - 1], s[i]) ELSE v[i - 1]
  <2>1. v = [i \in 0 .. n |-> H(i)]
    BY <1>3
  <2>2. \A i \in 0 .. n : v[i] = H(i)
    <3> HIDE DEF H
    <3> QED
      BY <2>1
  <2> QED
    BY <1>1, <2>2
<1> DEFINE P(i) == /\ v[i] \in Seq(T)
                   /\ \A k \in DOMAIN v[i] :
                        \E j \in 1 .. i : v[i][k] = s[j] /\ s[j].role # "system"
                   /\ SpokenRising(s) => Rising(v[i])
           S == {i \in Nat : i <= n => P(i)}
<1>6. 0 \in S
  <2>1. <<>> \in Seq(T) /\ DOMAIN <<>> = {} /\ Rising(<<>>)
    BY DEF Rising
  <2>2. P(0)
    BY <1>5, <2>1
  <2> QED
    BY <2>2
<1>7. ASSUME NEW i \in S PROVE i + 1 \in S
  <2> SUFFICES ASSUME i + 1 <= n PROVE P(i + 1)
    OBVIOUS
  <2>1. /\ i \in Nat /\ i + 1 \in 1 .. n /\ (i + 1) - 1 = i /\ i <= n
        /\ s[i + 1] \in T
    BY <1>1
  <2>2. PICK q : /\ q = v[i] /\ q \in Seq(T)
                 /\ \A k \in DOMAIN q : \E j \in 1 .. i : q[k] = s[j] /\ s[j].role # "system"
                 /\ SpokenRising(s) => Rising(q)
    BY <2>1
  <2>3. CASE s[i + 1].role # "system"
    <3>1. PICK r, e : r = v[i + 1] /\ e = s[i + 1]
      OBVIOUS
    <3>2. r = Append(q, e)
      BY <1>5, <2>1, <2>2, <2>3, <3>1
    <3>3. /\ r \in Seq(T) /\ Len(r) = Len(q) + 1 /\ DOMAIN r = 1 .. Len(q) + 1
          /\ r[Len(q) + 1] = e /\ \A k \in 1 .. Len(q) : r[k] = q[k]
      BY <2>1, <2>2, <3>1, <3>2, Appended
    <3>4. Len(q) \in Nat /\ DOMAIN q = 1 .. Len(q)
      BY <2>2
    <3>5. \A k \in DOMAIN r : (k \in DOMAIN q /\ r[k] = q[k]) \/ (k = Len(q) + 1 /\ r[k] = e)
      BY <3>3, <3>4
    <3>6. ASSUME NEW k \in DOMAIN r
          PROVE  \E j \in 1 .. i + 1 : r[k] = s[j] /\ s[j].role # "system"
      <4>1. CASE k \in DOMAIN q /\ r[k] = q[k]
        <5>1. PICK j \in 1 .. i : q[k] = s[j] /\ s[j].role # "system"
          BY <2>2, <4>1
        <5>2. j \in 1 .. i + 1
          BY <2>1
        <5> QED
          BY <4>1, <5>1, <5>2
      <4>2. CASE r[k] = e
        BY <2>1, <2>3, <3>1, <4>2
      <4> QED
        BY <3>5, <4>1, <4>2
    <3>7. ASSUME SpokenRising(s), NEW k \in DOMAIN r, NEW l \in DOMAIN r, k < l
          PROVE  r[k].id < r[l].id
      <4>1. k \in DOMAIN q /\ r[k] = q[k]
        BY <3>3, <3>4, <3>7
      <4>2. CASE l \in DOMAIN q /\ r[l] = q[l]
        BY <2>2, <3>7, <4>1, <4>2 DEF Rising
      <4>3. CASE r[l] = e
        <5>1. PICK j \in 1 .. i : q[k] = s[j] /\ s[j].role # "system"
          BY <2>2, <4>1
        <5>2. j \in DOMAIN s /\ i + 1 \in DOMAIN s /\ j < i + 1
          BY <1>1, <2>1
        <5>3. s[j].id < s[i + 1].id
          BY <2>3, <3>7, <5>1, <5>2 DEF SpokenRising
        <5> QED
          BY <3>1, <4>1, <4>3, <5>1, <5>3
      <4> QED
        BY <3>5, <4>2, <4>3
    <3> QED
      BY <3>1, <3>3, <3>6, <3>7 DEF Rising
  <2>4. CASE s[i + 1].role = "system"
    <3>1. v[i + 1] = q
      BY <1>5, <2>1, <2>2, <2>4
    <3>2. \A j \in 1 .. i : j \in 1 .. i + 1
      BY <2>1
    <3> QED
      BY <2>2, <3>1, <3>2
  <2> QED
    BY <2>3, <2>4
<1> HIDE DEF S
<1>8. S = Nat
  <2>1. S \in SUBSET Nat
    BY DEF S
  <2> QED
    BY <1>6, <1>7, <2>1, Induction
<1>9. P(n)
  <2> HIDE DEF P
  <2> QED
    BY <1>1, <1>8 DEF S
<1> QED
  BY <1>1, <1>4, <1>9, VectorIs

(* The chunks of the first i messages: in order, none empty, and none too   *)
(* large but for a single message.                                         *)
Chunks(c, s, i) ==
  /\ c \in Seq(Seq(Range(s)))
  /\ \A k \in DOMAIN c : \A x \in DOMAIN c[k] : \E j \in 1 .. i : c[k][x] = s[j]
  /\ \A k, l \in DOMAIN c : \A x \in DOMAIN c[k], y \in DOMAIN c[l] :
       k < l \/ (k = l /\ x < y) => c[k][x].id < c[l][y].id
  /\ \A k \in DOMAIN c : Len(c[k]) = 1 \/ EstimateTokens(c[k]) <= ChunkTokens

(* One message more goes to the last chunk or begins one.                  *)
LEMMA ChunkedOk ==
  ASSUME NEW s, IsVector(s), \A j \in DOMAIN s : Message(s[j]), Rising(s),
         NEW i \in Nat, i + 1 <= Len(s), NEW c, Chunks(c, s, i)
  PROVE  Chunks(Chunked(c, s[i + 1]), s, i + 1)
<1>1. PICK T, e, d : T = Range(s) /\ e = s[i + 1] /\ d = Chunked(c, s[i + 1])
  OBVIOUS
<1>2. /\ Len(s) \in Nat /\ DOMAIN s = 1 .. Len(s) /\ i + 1 \in DOMAIN s
  BY VectorLen
<1>3. e \in T /\ \A x \in T : Message(x)
  BY <1>1, <1>2 DEF Range
<1>4. /\ c \in Seq(Seq(T))
      /\ \A k \in DOMAIN c : \A x \in DOMAIN c[k] : \E j \in 1 .. i : c[k][x] = s[j]
      /\ \A k, l \in DOMAIN c : \A x \in DOMAIN c[k], y \in DOMAIN c[l] :
           k < l \/ (k = l /\ x < y) => c[k][x].id < c[l][y].id
      /\ \A k \in DOMAIN c : Len(c[k]) = 1 \/ EstimateTokens(c[k]) <= ChunkTokens
  BY <1>1 DEF Chunks
<1>5. Len(c) \in Nat /\ DOMAIN c = 1 .. Len(c)
  BY <1>4
<1>6. \A k \in DOMAIN c : \A x \in DOMAIN c[k] : c[k][x].id < e.id
  <2> TAKE k \in DOMAIN c
  <2> TAKE x \in DOMAIN c[k]
  <2>1. PICK j \in 1 .. i : c[k][x] = s[j]
    BY <1>4
  <2>2. j \in DOMAIN s /\ j < i + 1
    BY <1>2
  <2> QED
    BY <1>1, <1>2, <2>1, <2>2 DEF Rising
<1>7. CASE c # <<>> /\ EstimateTokens(Last(c)) + TokensOf(e) <= ChunkTokens
  <2>1. PICK f, q, n : f = Front(c) /\ q = Last(c) /\ n = Len(c)
    OBVIOUS
  <2>2. /\ f \in Seq(Seq(T)) /\ Len(f) = n - 1 /\ n \in Nat \ {0}
        /\ \A k \in 1 .. n - 1 : f[k] = c[k]
        /\ q = c[n] /\ q \in Seq(T)
    BY <1>4, <1>7, <2>1, FrontLast
  <2>3. PICK r : r = Append(q, e)
    OBVIOUS
  <2>4. /\ r \in Seq(T) /\ Len(r) = Len(q) + 1 /\ DOMAIN r = 1 .. Len(q) + 1
        /\ r[Len(q) + 1] = e /\ \A x \in 1 .. Len(q) : r[x] = q[x]
    BY <1>3, <2>2, <2>3, Appended
  <2>5. EstimateTokens(r) <= ChunkTokens
    <3>1. EstimateTokens(r) = EstimateTokens(q) + TokensOf(e)
      BY <1>3, <2>2, <2>3, EstimateAdds
    <3> QED
      BY <1>7, <2>1, <3>1
  <2>6. d = Append(f, r)
    BY <1>1, <1>7, <2>1, <2>3 DEF Chunked
  <2>7. /\ d \in Seq(Seq(T)) /\ DOMAIN d = 1 .. n /\ d[n] = r
        /\ \A k \in 1 .. n - 1 : d[k] = c[k]
    <3>1. PICK U : U = Seq(T)
      OBVIOUS
    <3>2. f \in Seq(U) /\ r \in U
      BY <2>2, <2>4, <3>1
    <3>3. /\ Append(f, r) \in Seq(U)
          /\ DOMAIN Append(f, r) = 1 .. Len(f) + 1
          /\ \A k \in 1 .. Len(f) : Append(f, r)[k] = f[k]
          /\ Append(f, r)[Len(f) + 1] = r
      BY <3>2, Appended
    <3>4. Len(f) + 1 = n
      BY <2>2
    <3> QED
      BY <2>2, <2>6, <3>1, <3>3, <3>4
  <2>8. Len(q) \in Nat /\ DOMAIN q = 1 .. Len(q) /\ n \in DOMAIN c /\ DOMAIN c = 1 .. n
    BY <1>5, <2>1, <2>2
  <2>9. \A k \in DOMAIN d : (k \in 1 .. n - 1 /\ k \in DOMAIN c /\ k # n) \/ k = n
    BY <2>2, <2>7, <2>8
  <2>10. \A x \in DOMAIN r : (x \in DOMAIN q /\ r[x] = c[n][x]) \/ (x = Len(q) + 1 /\ r[x] = e)
    BY <2>2, <2>4, <2>8
  <2>11. ASSUME NEW k \in DOMAIN d, NEW x \in DOMAIN d[k]
         PROVE  \/ k \in DOMAIN c /\ x \in DOMAIN c[k] /\ d[k][x] = c[k][x]
                \/ k = n /\ x = Len(q) + 1 /\ d[k][x] = e
    BY <2>2, <2>7, <2>8, <2>9, <2>10
  <2>12. ASSUME NEW k \in DOMAIN d, NEW x \in DOMAIN d[k]
         PROVE  \E j \in 1 .. i + 1 : d[k][x] = s[j]
    <3>1. \A j \in 1 .. i : j \in 1 .. i + 1
      OBVIOUS
    <3>2. i + 1 \in 1 .. i + 1
      OBVIOUS
    <3>3. CASE k \in DOMAIN c /\ x \in DOMAIN c[k] /\ d[k][x] = c[k][x]
      BY <1>4, <3>1, <3>3
    <3>4. CASE d[k][x] = e
      BY <1>1, <3>2, <3>4
    <3> QED
      BY <2>11, <3>3, <3>4
  <2>13. ASSUME NEW k \in DOMAIN d, NEW l \in DOMAIN d, NEW x \in DOMAIN d[k], NEW y \in DOMAIN d[l],
                k < l \/ (k = l /\ x < y)
         PROVE  d[k][x].id < d[l][y].id
    <3>1. k \in DOMAIN c /\ x \in DOMAIN c[k] /\ d[k][x] = c[k][x]
      <4>1. ~ (k = n /\ x = Len(q) + 1)
        <5>1. k = n => ~ (k < l)
          BY <2>2, <2>7
        <5>2. k = n /\ l = n /\ x = Len(q) + 1 => ~ (x < y)
          <6>1. y \in 1 .. Len(q) + 1 \/ l # n
            BY <2>4, <2>7
          <6> QED
            BY <2>8, <6>1
        <5> QED
          BY <2>13, <5>1, <5>2
      <4> QED
        BY <2>11, <4>1
    <3> QED
      BY <1>4, <1>6, <2>11, <2>13, <3>1
  <2>14. \A k \in DOMAIN d : Len(d[k]) = 1 \/ EstimateTokens(d[k]) <= ChunkTokens
    BY <1>4, <2>5, <2>7, <2>9
  <2> QED
    BY <1>1, <2>7, <2>12, <2>13, <2>14 DEF Chunks
<1>8. CASE ~ (c # <<>> /\ EstimateTokens(Last(c)) + TokensOf(e) <= ChunkTokens)
  <2>1. d = Append(c, <<e>>)
    BY <1>1, <1>8 DEF Chunked
  <2>2. PICK n : n = Len(c) + 1
    OBVIOUS
  <2>3. <<e>> \in Seq(T) /\ Len(<<e>>) = 1 /\ DOMAIN <<e>> = 1 .. 1 /\ <<e>>[1] = e
    BY <1>3
  <2>4. /\ d \in Seq(Seq(T)) /\ DOMAIN d = 1 .. n /\ d[n] = <<e>>
        /\ \A k \in 1 .. Len(c) : d[k] = c[k]
    <3>1. PICK U, r : U = Seq(T) /\ r = <<e>>
      OBVIOUS
    <3>2. c \in Seq(U) /\ r \in U
      BY <1>4, <2>3, <3>1
    <3>3. /\ Append(c, r) \in Seq(U)
          /\ DOMAIN Append(c, r) = 1 .. Len(c) + 1
          /\ \A k \in 1 .. Len(c) : Append(c, r)[k] = c[k]
          /\ Append(c, r)[Len(c) + 1] = r
      BY <3>2, Appended
    <3> QED
      BY <2>1, <2>2, <3>1, <3>3
  <2>5. \A k \in DOMAIN d : (k \in DOMAIN c /\ d[k] = c[k] /\ k < n) \/ k = n
    BY <1>5, <2>2, <2>4
  <2>6. ASSUME NEW k \in DOMAIN d, NEW x \in DOMAIN d[k]
        PROVE  \/ k \in DOMAIN c /\ x \in DOMAIN c[k] /\ d[k][x] = c[k][x] /\ k < n
               \/ k = n /\ x = 1 /\ d[k][x] = e
    <3>1. CASE k \in DOMAIN c /\ d[k] = c[k] /\ k < n
      BY <3>1
    <3>2. CASE k = n
      <4>1. x \in 1 .. 1
        BY <2>3, <2>4, <3>2
      <4> QED
        BY <2>3, <2>4, <3>2, <4>1
    <3> QED
      BY <2>5, <3>1, <3>2
  <2>7. ASSUME NEW k \in DOMAIN d, NEW x \in DOMAIN d[k]
        PROVE  \E j \in 1 .. i + 1 : d[k][x] = s[j]
    <3>1. \A j \in 1 .. i : j \in 1 .. i + 1
      OBVIOUS
    <3>2. i + 1 \in 1 .. i + 1
      OBVIOUS
    <3> QED
      BY <1>1, <1>4, <2>6, <3>1, <3>2
  <2>8. ASSUME NEW k \in DOMAIN d, NEW l \in DOMAIN d, NEW x \in DOMAIN d[k], NEW y \in DOMAIN d[l],
               k < l \/ (k = l /\ x < y)
        PROVE  d[k][x].id < d[l][y].id
    <3>1. k \in Int /\ l \in Int /\ n \in Int /\ l <= n
      BY <1>5, <2>2, <2>4
    <3>2. CASE k = n
      <4>1. l = n /\ x = 1 /\ y = 1
        BY <2>6, <2>8, <3>1, <3>2
      <4> QED
        BY <2>8, <3>2, <4>1
    <3>3. CASE k # n
      BY <1>4, <1>6, <2>6, <2>8, <3>3
    <3> QED
      BY <3>2, <3>3
  <2>9. \A k \in DOMAIN d : Len(d[k]) = 1 \/ EstimateTokens(d[k]) <= ChunkTokens
    BY <1>4, <2>3, <2>4, <2>5
  <2> QED
    BY <1>1, <2>4, <2>7, <2>8, <2>9 DEF Chunks
<1> QED
  BY <1>1, <1>7, <1>8

(* The chunks of all the messages.                                         *)
LEMMA ChunkByMaxTokensOk ==
  ASSUME NEW s, IsVector(s), \A j \in DOMAIN s : Message(s[j]), Rising(s)
  PROVE  Chunks(ChunkByMaxTokens(s), s, Len(s))
<1> DEFINE T == Range(s)
           n == Len(s)
           Eq(f) == f = [i \in 0 .. n |-> IF i = 0 THEN <<>> ELSE Chunked(f[i - 1], s[i])]
           G == [i \in Nat |-> [q \in Seq(Seq(T)) |-> IF i \in 1 .. n THEN Chunked(q, s[i]) ELSE q]]
<1>1. s \in Seq(T) /\ n \in Nat /\ DOMAIN s = 1 .. n /\ \A i \in 1 .. n : s[i] \in T
  BY DEF IsVector
<1> HIDE DEF T, n
<1>2. ASSUME NEW q \in Seq(Seq(T)), NEW e \in T PROVE Chunked(q, e) \in Seq(Seq(T))
  <2>1. PICK U : U = Seq(T)
    OBVIOUS
  <2>2. <<e>> \in U /\ q \in Seq(U)
    BY <2>1
  <2>3. CASE q # <<>>
    <3>1. Front(q) \in Seq(U) /\ Last(q) \in U
      BY <2>2, <2>3, FrontLast
    <3>2. Append(Last(q), e) \in U
      BY <2>1, <3>1
    <3>3. Append(Front(q), Append(Last(q), e)) \in Seq(U) /\ Append(q, <<e>>) \in Seq(U)
      BY <2>2, <3>1, <3>2
    <3> QED
      BY <2>1, <3>3 DEF Chunked
  <2>4. CASE q = <<>>
    BY <2>1, <2>2, <2>4 DEF Chunked
  <2> QED
    BY <2>3, <2>4
<1>3. G \in [Nat -> [Seq(Seq(T)) -> Seq(Seq(T))]]
  BY <1>1, <1>2
<1>4. PICK v : Eq(v) /\ v = CHOOSE f : Eq(f)
  <2>1. PICK f \in [0 .. n -> Seq(Seq(T))] :
          f[0] = <<>> /\ \A i \in 1 .. n : f[i] = G[i][f[i - 1]]
    <3> DEFINE X == Seq(Seq(T))
    <3>1. <<>> \in X /\ G \in [Nat -> [X -> X]]
      BY <1>3
    <3> HIDE DEF G, X
    <3>2. PICK U, b, H, m : U = X /\ b = <<>> /\ H = G /\ m = n
      OBVIOUS
    <3>3. b \in U /\ H \in [Nat -> [U -> U]] /\ m \in Nat
      BY <1>1, <3>1, <3>2
    <3>4. \E f : IsRun(f, U, b, H, m)
      BY <3>3, Recursion
    <3> QED
      BY <3>2, <3>4 DEF X, IsRun
  <2>2. ASSUME NEW i \in 0 .. n
        PROVE  f[i] = IF i = 0 THEN <<>> ELSE Chunked(f[i - 1], s[i])
    <3>1. CASE i = 0
      BY <2>1, <3>1
    <3>2. CASE i \in 1 .. n
      <4>1. i \in Nat /\ i # 0 /\ i - 1 \in 0 .. n
        BY <1>1, <3>2
      <4>2. f[i - 1] \in Seq(Seq(T))
        BY <2>1, <4>1
      <4>3. f[i] = G[i][f[i - 1]]
        <5> HIDE DEF G
        <5> QED
          BY <2>1, <3>2
      <4> QED
        BY <3>2, <4>1, <4>2, <4>3
    <3> QED
      BY <1>1, <3>1, <3>2
  <2>3. Eq(f)
    BY <2>2
  <2> QED
    BY <2>3
<1>5. ChunkByMaxTokens(s) = v[n]
  BY <1>4 DEF ChunkByMaxTokens, n
<1>6. v[0] = <<>> /\ \A i \in 1 .. n : v[i] = Chunked(v[i - 1], s[i])
  <2> DEFINE H(i) == IF i = 0 THEN <<>> ELSE Chunked(v[i - 1], s[i])
  <2>1. v = [i \in 0 .. n |-> H(i)]
    BY <1>4
  <2>2. \A i \in 0 .. n : v[i] = H(i)
    <3> HIDE DEF H
    <3> QED
      BY <2>1
  <2> QED
    BY <1>1, <2>2
<1> DEFINE S == {i \in Nat : i <= n => Chunks(v[i], s, i)}
<1>7. 0 \in S
  <2>1. <<>> \in Seq(Seq(Range(s))) /\ DOMAIN <<>> = {}
    OBVIOUS
  <2>2. Chunks(<<>>, s, 0)
    BY <2>1 DEF Chunks
  <2> QED
    BY <1>6, <2>2
<1>8. ASSUME NEW i \in S PROVE i + 1 \in S
  <2> SUFFICES ASSUME i + 1 <= n PROVE Chunks(v[i + 1], s, i + 1)
    OBVIOUS
  <2>1. i \in Nat /\ i + 1 \in 1 .. n /\ (i + 1) - 1 = i /\ i <= n /\ Chunks(v[i], s, i)
    BY <1>1
  <2>2. PICK c : c = v[i]
    OBVIOUS
  <2>3. v[i + 1] = Chunked(c, s[i + 1])
    BY <1>6, <2>1, <2>2
  <2>4. i + 1 <= Len(s)
    BY DEF n
  <2> HIDE DEF S
  <2>5. Chunks(Chunked(c, s[i + 1]), s, i + 1)
    BY <2>1, <2>2, <2>4, ChunkedOk
  <2> QED
    BY <2>3, <2>5
<1> HIDE DEF S
<1>9. S = Nat
  <2>1. S \in SUBSET Nat
    BY DEF S
  <2> QED
    BY <1>7, <1>8, <2>1, Induction
<1> QED
  BY <1>1, <1>5, <1>9 DEF S, n

(* The elements of S from i on.                                            *)
From(S, i) == {j \in S : j >= i}

(* In a finite set of numbers there is one with n elements from it on.     *)
LEMMA FromTheEnd ==
  ASSUME NEW m \in Nat, NEW S, S \subseteq 1 .. m, NEW n \in Nat \ {0}, Cardinality(S) > n
  PROVE  \E i \in S : Cardinality(From(S, i)) = n
<1> DEFINE I == {k \in Nat : k < Cardinality(S) => \E i \in S : Cardinality(From(S, i)) = k + 1}
<1>1. IsFiniteSet(S) /\ Cardinality(S) \in Nat /\ S \subseteq Nat
  <2>1. 1 \in Int /\ m \in Int
    OBVIOUS
  <2>2. IsFiniteSet(1 .. m)
    BY <2>1, FS_Interval
  <2>3. IsFiniteSet(S)
    BY <2>2, FS_Subset
  <2> QED
    BY <2>3, FS_CardinalityType
<1>2. ASSUME NEW A, A \subseteq S, A # {}
      PROVE  \E i \in A : \A j \in A : j <= i
  <2> DEFINE B == {m - x : x \in A}
  <2>1. B \in SUBSET Nat /\ B # {}
    <3>1. \A x \in A : m - x \in Nat
      <4>1. \A x \in A : x \in 1 .. m
        BY <1>2
      <4> QED
        BY <4>1
    <3> QED
      BY <1>2, <3>1
  <2>2. PICK b \in B : \A c \in B : b <= c
    BY <2>1, Least
  <2>3. PICK i \in A : b = m - i
    BY <2>2
  <2>4. ASSUME NEW j \in A PROVE j <= i
    <3>1. m - j \in B /\ j \in Nat /\ i \in Nat
      BY <1>1, <1>2
    <3>2. m - i <= m - j
      BY <2>2, <2>3, <3>1
    <3> QED
      BY <3>1, <3>2
  <2> QED
    BY <2>4
<1>3. 0 \in I
  <2>1. SUFFICES ASSUME 0 < Cardinality(S) PROVE \E i \in S : Cardinality(From(S, i)) = 1
    OBVIOUS
  <2>2. S # {}
    BY <2>1, FS_EmptySet
  <2>3. PICK i \in S : \A j \in S : j <= i
    BY <1>2, <2>2
  <2>4. From(S, i) = {i}
    <3>1. \A j \in S : j >= i <=> j = i
      BY <1>1, <2>3
    <3> QED
      BY <3>1 DEF From
  <2> QED
    BY <2>4, FS_Singleton
<1>4. ASSUME NEW k \in I PROVE k + 1 \in I
  <2>1. SUFFICES ASSUME k + 1 < Cardinality(S)
                 PROVE  \E i \in S : Cardinality(From(S, i)) = k + 1 + 1
    OBVIOUS
  <2>2. PICK i \in S : Cardinality(From(S, i)) = k + 1
    <3>1. k \in Nat /\ k < Cardinality(S)
      BY <1>1, <2>1
    <3> QED
      BY <3>1
  <2> DEFINE A == {j \in S : j < i}
  <2>3. A # {}
    <3>1. SUFFICES ASSUME A = {} PROVE FALSE
      OBVIOUS
    <3>2. \A j \in S : j >= i
      BY <1>1, <3>1
    <3>3. From(S, i) = S
      BY <3>2 DEF From
    <3> QED
      BY <1>1, <2>1, <2>2, <3>3
  <2>4. PICK x \in A : \A j \in A : j <= x
    BY <1>2, <2>3
  <2>5. x \in S /\ x < i /\ \A j \in S : j < i => j <= x
    BY <2>4
  <2>6. From(S, x) = From(S, i) \cup {x} /\ x \notin From(S, i)
    <3>1. \A j \in S : j >= x <=> j >= i \/ j = x
      BY <1>1, <2>5
    <3>2. ~ (x >= i)
      BY <1>1, <2>5
    <3> QED
      BY <2>5, <3>1, <3>2 DEF From
  <2>7. IsFiniteSet(From(S, i))
    BY <1>1, FS_Subset DEF From
  <2>8. PICK U : U = From(S, i)
    OBVIOUS
  <2>9. Cardinality(U \cup {x}) = Cardinality(U) + 1
    BY <2>6, <2>7, <2>8, FS_AddElement
  <2> QED
    BY <2>2, <2>5, <2>6, <2>8, <2>9
<1> HIDE DEF I
<1>5. I = Nat
  <2>1. I \in SUBSET Nat
    BY DEF I
  <2> QED
    BY <1>3, <1>4, <2>1, Induction
<1>6. n - 1 \in I /\ n - 1 < Cardinality(S) /\ (n - 1) + 1 = n
  BY <1>1, <1>5
<1> QED
  BY <1>6 DEF I

(* The assistant messages after i.                                         *)
After(s, i) == {j \in Assistants(s) : j > i}

(* A message before the threshold is followed by n assistant messages.     *)
LEMMA ThresholdIs ==
  ASSUME NEW s, IsVector(s), NEW n \in Nat \ {0}, NEW i \in DOMAIN s, i < Threshold(s, n)
  PROVE  IsFiniteSet(After(s, i)) /\ Cardinality(After(s, i)) >= n
<1> DEFINE A == Assistants(s)
<1>1. Len(s) \in Nat /\ DOMAIN s = 1 .. Len(s)
  BY VectorLen
<1>2. A \subseteq 1 .. Len(s)
  BY <1>1 DEF Assistants
<1>3. IsFiniteSet(A) /\ Cardinality(A) \in Nat
  <2>1. 1 \in Int /\ Len(s) \in Int
    BY <1>1
  <2>2. IsFiniteSet(1 .. Len(s))
    BY <2>1, FS_Interval
  <2> QED
    BY <1>2, <2>2, FS_Subset, FS_CardinalityType
<1>4. Cardinality(A) > n
  <2>1. SUFFICES ASSUME Cardinality(A) <= n PROVE FALSE
    BY <1>3
  <2>2. Threshold(s, n) = 0
    BY <2>1 DEF Threshold
  <2> QED
    BY <1>1, <2>2
<1>5. Threshold(s, n) = CHOOSE x \in A : Cardinality(From(A, x)) = n
  <2>1. ~ (Cardinality(Assistants(s)) <= n)
    BY <1>3, <1>4
  <2> QED
    BY <2>1 DEF Threshold, From
<1>6. \E x \in A : Cardinality(From(A, x)) = n
  <2>1. PICK B, m : B = A /\ m = Len(s)
    OBVIOUS
  <2>2. B \subseteq 1 .. m /\ m \in Nat /\ Cardinality(B) > n
    BY <1>1, <1>2, <1>4, <2>1
  <2>3. \E x \in B : Cardinality(From(B, x)) = n
    BY <2>2, FromTheEnd
  <2> QED
    BY <2>1, <2>3
<1>7. PICK x \in A : x = Threshold(s, n) /\ Cardinality(From(A, x)) = n
  BY <1>5, <1>6
<1>8. From(A, x) \subseteq After(s, i) /\ After(s, i) \subseteq A
  BY <1>1, <1>2, <1>7 DEF After, From
<1>9. IsFiniteSet(After(s, i))
  BY <1>3, <1>8, FS_Subset
<1>10. Cardinality(From(A, x)) <= Cardinality(After(s, i))
  BY <1>8, <1>9, FS_Subset
<1>11. Cardinality(After(s, i)) \in Nat
  BY <1>9, FS_CardinalityType
<1> QED
  BY <1>7, <1>9, <1>10, <1>11

(* A threshold is an index or 0.                                           *)
LEMMA ThresholdType ==
  ASSUME NEW s, IsVector(s), NEW n \in Nat \ {0}
  PROVE  Threshold(s, n) \in Nat
<1> DEFINE A == Assistants(s)
<1>1. Len(s) \in Nat /\ A \subseteq 1 .. Len(s)
  BY VectorLen DEF Assistants
<1>2. Cardinality(A) \in Nat
  <2>1. 1 \in Int /\ Len(s) \in Int
    BY <1>1
  <2>2. IsFiniteSet(1 .. Len(s))
    BY <2>1, FS_Interval
  <2>3. IsFiniteSet(A)
    BY <1>1, <2>2, FS_Subset
  <2> QED
    BY <2>3, FS_CardinalityType
<1>3. CASE Cardinality(A) <= n
  BY <1>3 DEF Threshold
<1>4. CASE ~ (Cardinality(A) <= n)
  <2>1. Threshold(s, n) = CHOOSE x \in A : Cardinality(From(A, x)) = n
    BY <1>4 DEF Threshold, From
  <2>2. PICK B, m : B = A /\ m = Len(s)
    OBVIOUS
  <2>3. B \subseteq 1 .. m /\ m \in Nat /\ Cardinality(B) > n
    BY <1>1, <1>2, <1>4, <2>2
  <2>4. \E x \in B : Cardinality(From(B, x)) = n
    BY <2>3, FromTheEnd
  <2>5. Threshold(s, n) \in A
    BY <2>1, <2>2, <2>4
  <2> QED
    BY <1>1, <2>5
<1> QED
  BY <1>3, <1>4

(* A list that is part of another one, moved by d places.                  *)
Shifted(s, h, d) ==
  \A j \in DOMAIN s : s[j].role = "system" \/ (j + d \in DOMAIN h /\ s[j] = h[j + d])

(* No assistant message is lost by the move.                               *)
LEMMA AfterMoved ==
  ASSUME NEW s, IsVector(s), NEW h, IsVector(h), NEW d \in Int, Shifted(s, h, d),
         NEW i \in DOMAIN s
  PROVE  /\ Cardinality(After(s, i)) <= Cardinality(After(h, i + d))
         /\ Cardinality(After(h, i + d)) \in Nat /\ Cardinality(After(s, i)) \in Nat
<1>1. /\ Len(s) \in Nat /\ DOMAIN s = 1 .. Len(s)
      /\ Len(h) \in Nat /\ DOMAIN h = 1 .. Len(h)
  BY VectorLen
<1>2. PICK A, B : A = After(s, i) /\ B = After(h, i + d)
  OBVIOUS
<1>3. IsFiniteSet(B)
  <2>1. B \subseteq 1 .. Len(h)
    BY <1>1, <1>2 DEF After, Assistants
  <2>2. 1 \in Int /\ Len(h) \in Int
    BY <1>1
  <2>3. IsFiniteSet(1 .. Len(h))
    BY <2>2, FS_Interval
  <2> QED
    BY <2>1, <2>3, FS_Subset
<1> DEFINE f == [j \in A |-> j + d]
<1>4. A \subseteq Int /\ \A j \in A : j + d \in B
  BY <1>1, <1>2 DEF After, Assistants, Shifted
<1>5. f \in Injection(A, B)
  BY <1>4 DEF Injection, IsInjective
<1>6. IsFiniteSet(A) /\ Cardinality(A) <= Cardinality(B)
  BY <1>3, <1>5, FS_Injection
<1> QED
  BY <1>2, <1>3, <1>6, FS_CardinalityType

(* What tool results say.                                                  *)
Texts == {"short", "long", "dense", "stale"}

(* The i-th message of a conversation.                                     *)
IsMessage(m, i) ==
  /\ Message(m) /\ m.id = i /\ m.role \in {"user", "assistant"} /\ m.of = <<>>
  /\ \A k \in DOMAIN m.results : m.results[k] \in Texts

Conversation(h) == IsVector(h) /\ \A i \in DOMAIN h : IsMessage(h[i], i)

(* A message of the request is the one of the history, pruned by its age.  *)
Respects(h, m) ==
  m.id \in DOMAIN h =>
    /\ m.role = h[m.id].role
    /\ \A k \in DOMAIN h[m.id].results :
         /\ m.results[k] \in {"cut", "omitted"} => Cardinality(After(h, m.id)) >= ProtectRecent
         /\ m.results[k] = "omitted" => Cardinality(After(h, m.id)) >= HardPruneAfter
         /\ m.results[k] = "retry" <=> h[m.id].results[k] = "stale"
         /\ m.results[k] \in {h[m.id].results[k], "cut", "omitted", "retry"}

(* Pruning changes the results of a message and nothing else.              *)
LEMMA PrunedShape ==
  ASSUME NEW s, NEW i, Message(s[i])
  PROVE  LET p == PruneMessage(s, i)
         IN  /\ Message(p) /\ p.role = s[i].role /\ p.id = s[i].id /\ p.of = s[i].of
             /\ DOMAIN p.results = DOMAIN s[i].results
<1>1. PICK m, p : m = s[i] /\ p = PruneMessage(s, i)
  OBVIOUS
<1> DEFINE stale == \E k \in DOMAIN m.results : m.results[k] = "stale"
           kept == \/ ProtectThreshold(s) = 0 \/ i >= ProtectThreshold(s)
                   \/ i <= BootstrapEnd(s)
           text(k) == IF stale THEN IF m.results[k] = "stale" THEN "retry" ELSE m.results[k]
                      ELSE IF kept THEN m.results[k]
                      ELSE PruneResult(m.results[k], i < HardThreshold(s))
<1>10. PICK t : t = [k \in DOMAIN m.results |-> text(k)]
  OBVIOUS
<1>11. p = [m EXCEPT !.results = t]
  BY <1>1, <1>10 DEF PruneMessage
<1>12. DOMAIN t = DOMAIN m.results /\ t = [k \in DOMAIN m.results |-> t[k]]
  <2> HIDE DEF text
  <2> QED
    BY <1>10
<1>2. /\ m = [role |-> m.role, id |-> m.id, results |-> m.results, of |-> m.of]
      /\ m.id \in Nat /\ IsVector(m.results)
  BY <1>1 DEF Message
<1>3. p = [role |-> m.role, id |-> m.id, results |-> t, of |-> m.of]
  BY <1>2, <1>11
<1>4. p.role = m.role /\ p.id = m.id /\ p.results = t /\ p.of = m.of
  BY <1>3
<1>5. IsVector(t)
  <2>1. PICK n : n \in Nat /\ DOMAIN m.results = 1 .. n
    BY <1>2, VectorLen
  <2>2. DOMAIN t = 1 .. n /\ t = [k \in 1 .. n |-> t[k]]
    BY <1>12, <2>1
  <2> QED
    BY <2>1, <2>2, VectorFrom
<1> QED
  BY <1>1, <1>2, <1>3, <1>4, <1>5, <1>12 DEF Message

(* Pruning a part of a conversation respects the ages in all of it.        *)
LEMMA PrunedRespects ==
  ASSUME NEW h, Conversation(h), NEW s, IsVector(s), NEW d \in Int, Shifted(s, h, d),
         NEW i \in DOMAIN s, s[i].role # "system"
  PROVE  Respects(h, PruneMessage(s, i))
<1>1. PICK m, p, a : m = s[i] /\ p = PruneMessage(s, i) /\ a = Cardinality(After(h, i + d))
  OBVIOUS
<1>2. i + d \in DOMAIN h /\ m = h[i + d]
  BY <1>1 DEF Shifted
<1>3. /\ Message(m) /\ m.id = i + d /\ m.role \in {"user", "assistant"}
      /\ \A k \in DOMAIN m.results : m.results[k] \in Texts
  BY <1>2 DEF Conversation, IsMessage
<1>4. p.role = m.role /\ p.id = i + d /\ DOMAIN p.results = DOMAIN m.results
  BY <1>1, <1>3, PrunedShape
<1>5. /\ ProtectRecent \in Nat \ {0} /\ HardPruneAfter \in Nat \ {0}
      /\ Len(s) \in Nat /\ DOMAIN s = 1 .. Len(s)
  BY ContextAssumption, VectorLen
<1>6. IsVector(h)
  BY DEF Conversation
<1>7. Cardinality(After(s, i)) <= a /\ a \in Nat /\ Cardinality(After(s, i)) \in Nat
  BY <1>1, <1>6, AfterMoved
<1>8. i < ProtectThreshold(s) => a >= ProtectRecent
  <2>1. i < Threshold(s, ProtectRecent) => Cardinality(After(s, i)) >= ProtectRecent
    BY <1>5, ThresholdIs
  <2> QED
    BY <1>5, <1>7, <2>1 DEF ProtectThreshold
<1>9. i < HardThreshold(s) => a >= HardPruneAfter
  <2>1. i < Threshold(s, HardPruneAfter) => Cardinality(After(s, i)) >= HardPruneAfter
    BY <1>5, ThresholdIs
  <2> QED
    BY <1>5, <1>7, <2>1 DEF HardThreshold
<1> DEFINE stale == \E k \in DOMAIN m.results : m.results[k] = "stale"
           kept == \/ ProtectThreshold(s) = 0 \/ i >= ProtectThreshold(s)
                   \/ i <= BootstrapEnd(s)
           text(k) == IF stale THEN IF m.results[k] = "stale" THEN "retry" ELSE m.results[k]
                      ELSE IF kept THEN m.results[k]
                      ELSE PruneResult(m.results[k], i < HardThreshold(s))
<1>10. p = [m EXCEPT !.results = [k \in DOMAIN m.results |-> text(k)]]
  BY <1>1 DEF PruneMessage
<1>11. \A k \in DOMAIN m.results : p.results[k] = text(k)
  <2>1. PICK t : t = [k \in DOMAIN m.results |-> text(k)]
    OBVIOUS
  <2>2. p = [m EXCEPT !.results = t]
    BY <1>10, <2>1
  <2> HIDE DEF text
  <2>3. p.results = t
    BY <1>3, <2>2 DEF Message
  <2> QED
    BY <2>1, <2>3
<1>12. ~ kept => i < ProtectThreshold(s)
  <2>1. ProtectThreshold(s) \in Nat
    <3>1. Threshold(s, ProtectRecent) \in Nat
      BY <1>5, ThresholdType
    <3> QED
      BY <3>1 DEF ProtectThreshold
  <2> QED
    BY <1>5, <2>1
<1> HIDE DEF kept, stale
<1>13. ASSUME NEW k \in DOMAIN m.results
       PROVE  /\ p.results[k] \in {"cut", "omitted"} => a >= ProtectRecent
              /\ p.results[k] = "omitted" => a >= HardPruneAfter
              /\ p.results[k] = "retry" <=> m.results[k] = "stale"
              /\ p.results[k] \in {m.results[k], "cut", "omitted", "retry"}
  <2>1. m.results[k] \in Texts /\ p.results[k] = text(k)
    BY <1>3, <1>11
  <2>2. CASE stale
    BY <2>1, <2>2 DEF Texts
  <2>3. CASE ~ stale /\ kept
    <3>1. m.results[k] # "stale" /\ p.results[k] = m.results[k]
      BY <2>1, <2>3 DEF stale
    <3> QED
      BY <2>1, <3>1 DEF Texts
  <2>4. CASE ~ stale /\ ~ kept
    <3>1. /\ m.results[k] # "stale"
          /\ p.results[k] = PruneResult(m.results[k], i < HardThreshold(s))
      BY <2>1, <2>4 DEF stale
    <3>2. a >= ProtectRecent
      BY <1>8, <1>12, <2>4
    <3>3. CASE i < HardThreshold(s)
      <4>1. p.results[k] = "omitted"
        BY <3>1, <3>3 DEF PruneResult
      <4> QED
        BY <1>9, <3>1, <3>2, <3>3, <4>1
    <3>4. CASE ~ (i < HardThreshold(s))
      <4>1. p.results[k] \in {m.results[k], "cut"}
        BY <3>1, <3>4 DEF PruneResult, soft_prune
      <4> QED
        BY <2>1, <3>1, <3>2, <4>1 DEF Texts
    <3> QED
      BY <3>3, <3>4
  <2> QED
    BY <2>2, <2>3, <2>4
<1> QED
  BY <1>1, <1>2, <1>3, <1>4, <1>13 DEF Respects

(* What a summary was made of: pieces in order, none too large unless it is *)
(* a single message, or all there is of a short list.                      *)
OfOk(of) ==
  /\ \A c, d \in DOMAIN of : \A i \in DOMAIN of[c], j \in DOMAIN of[d] :
       c < d \/ (c = d /\ i < j) => of[c][i].id < of[d][j].id
  /\ \A c \in DOMAIN of :
       \/ Len(of[c]) = 1 \/ EstimateTokens(of[c]) <= ChunkTokens
       \/ Len(of) = 1 /\ Len(of[c]) < min_messages_for_multistage

(* A message of a request for a history h, when top messages were said.     *)
Piece(m, h, top) ==
  /\ Message(m) /\ Respects(h, m) /\ OfOk(m.of)
  /\ \/ m.role = "system" /\ m.id = 0
     \/ m.role # "system" /\ m.id \in 1 .. top

Pieces(r, h, top) ==
  IsVector(r) /\ SpokenRising(r) /\ \A i \in DOMAIN r : Piece(r[i], h, top)

IsRequest(r, h, top) ==
  /\ Pieces(r, h, top) /\ Len(r) >= 2 /\ r[1] = Prompt
  /\ r[Len(r)].role # "system" /\ r[Len(r)].id = top

(* What is no summary is made of no piece.                                 *)
LEMMA NoPiece == OfOk(<<>>)
BY DEF OfOk

(* What the engine adds is part of any request.                            *)
LEMMA Added ==
  ASSUME NEW h, Conversation(h), NEW top \in Nat, NEW of, OfOk(of), NEW text
  PROVE  LET m == [role |-> "system", id |-> 0, results |-> <<text>>, of |-> of]
         IN  Piece(m, h, top) /\ Message(m) /\ m.role = "system"
<1>1. PICK m : m = [role |-> "system", id |-> 0, results |-> <<text>>, of |-> of]
  OBVIOUS
<1>2. m.role = "system" /\ m.id = 0 /\ m.results = <<text>> /\ m.of = of
  BY <1>1
<1>3. IsVector(<<text>>)
  <2>1. <<text>> \in Seq({text})
    OBVIOUS
  <2> QED
    BY <2>1, VectorIs
<1>4. Message(m)
  BY <1>1, <1>2, <1>3 DEF Message
<1>5. 0 \notin DOMAIN h
  BY VectorLen DEF Conversation
<1>6. Respects(h, m)
  BY <1>2, <1>5 DEF Respects
<1> QED
  BY <1>1, <1>2, <1>4, <1>6 DEF Piece

(* What is said after the history is part of a request.                    *)
LEMMA SaidPiece ==
  ASSUME NEW h, Conversation(h), NEW top \in Nat, NEW id \in 1 .. top, id > Len(h),
         NEW role \in {"user", "assistant"}, NEW texts, IsVector(texts),
         \A k \in DOMAIN texts : texts[k] \in Texts
  PROVE  Piece(Said(role, id, texts), h, top) /\ IsMessage(Said(role, id, texts), id)
<1>1. PICK m : m = Said(role, id, texts)
  OBVIOUS
<1>2. m = [role |-> role, id |-> id, results |-> texts, of |-> <<>>]
  BY <1>1 DEF Said
<1>3. m.role = role /\ m.id = id /\ m.results = texts /\ m.of = <<>> /\ id \in Nat
  BY <1>2
<1>4. Message(m)
  BY <1>2, <1>3 DEF Message
<1>5. id \notin DOMAIN h
  BY VectorLen DEF Conversation
<1>6. Respects(h, m)
  BY <1>3, <1>5 DEF Respects
<1> QED
  BY <1>1, <1>3, <1>4, <1>6, NoPiece DEF Piece, IsMessage

(* Pieces with more parts behind them that were said later.                 *)
LEMMA PiecesJoined ==
  ASSUME NEW h, NEW a \in Nat, NEW b \in Nat, a <= b,
         NEW r, Pieces(r, h, a), NEW e, Pieces(e, h, b),
         \A i \in DOMAIN r, j \in DOMAIN e :
           r[i].role # "system" /\ e[j].role # "system" => r[i].id < e[j].id
  PROVE  Pieces(r \o e, h, b)
<1>1. PICK q, n, k : q = r \o e /\ n = Len(r) /\ k = Len(e)
  OBVIOUS
<1>2. IsVector(r) /\ IsVector(e)
  BY DEF Pieces
<1>3. /\ IsVector(q) /\ n \in Nat /\ k \in Nat /\ DOMAIN r = 1 .. n /\ DOMAIN e = 1 .. k
      /\ Len(q) = n + k /\ DOMAIN q = 1 .. n + k
      /\ \A i \in 1 .. n : q[i] = r[i]
      /\ \A i \in 1 .. k : q[n + i] = e[i]
  BY <1>1, <1>2, Joined, VectorLen
<1>4. \A i \in DOMAIN q : \/ i \in 1 .. n /\ q[i] = r[i]
                          \/ i - n \in 1 .. k /\ q[i] = e[i - n]
  <2>1. SUFFICES ASSUME NEW i \in DOMAIN q, ~ (i \in 1 .. n)
                 PROVE  i - n \in 1 .. k /\ q[i] = e[i - n]
    BY <1>3
  <2>2. i - n \in 1 .. k /\ n + (i - n) = i
    BY <1>3, <2>1
  <2> QED
    BY <1>3, <2>2
<1>5. ASSUME NEW i \in DOMAIN q PROVE Piece(q[i], h, b)
  <2>1. CASE i \in 1 .. n /\ q[i] = r[i]
    <3>1. Piece(q[i], h, a)
      BY <1>3, <2>1 DEF Pieces
    <3> QED
      BY <3>1 DEF Piece
  <2>2. CASE i - n \in 1 .. k /\ q[i] = e[i - n]
    BY <1>3, <2>2 DEF Pieces
  <2> QED
    BY <1>4, <2>1, <2>2
<1>6. ASSUME NEW i \in DOMAIN q, NEW j \in DOMAIN q, i < j,
             q[i].role # "system", q[j].role # "system"
      PROVE  q[i].id < q[j].id
  <2>1. CASE j \in 1 .. n
    <3>1. i \in 1 .. n /\ q[i] = r[i] /\ q[j] = r[j]
      BY <1>3, <1>6, <2>1
    <3> QED
      BY <1>3, <1>6, <2>1, <3>1 DEF Pieces, SpokenRising
  <2>2. CASE ~ (j \in 1 .. n) /\ i \in 1 .. n
    BY <1>3, <1>4, <1>6, <2>2
  <2>3. CASE ~ (j \in 1 .. n) /\ ~ (i \in 1 .. n)
    <3>1. /\ i - n \in 1 .. k /\ q[i] = e[i - n]
          /\ j - n \in 1 .. k /\ q[j] = e[j - n]
      BY <1>4, <2>3
    <3>2. i - n < j - n
      BY <1>3, <1>6
    <3>3. PICK x, y : x = i - n /\ y = j - n
      OBVIOUS
    <3>4. x \in DOMAIN e /\ y \in DOMAIN e /\ x < y /\ q[i] = e[x] /\ q[j] = e[y]
      BY <1>3, <3>1, <3>2, <3>3
    <3>5. SpokenRising(e)
      BY DEF Pieces
    <3> QED
      BY <1>6, <3>4, <3>5 DEF SpokenRising
  <2> QED
    BY <2>1, <2>2, <2>3
<1> QED
  BY <1>1, <1>3, <1>5, <1>6 DEF Pieces, SpokenRising

(* One element is a vector.                                                *)
LEMMA Single ==
  ASSUME NEW m
  PROVE  IsVector(<<m>>) /\ Len(<<m>>) = 1 /\ <<m>>[1] = m /\ DOMAIN <<m>> = {1}
<1>1. <<m>> \in Seq({m}) /\ Len(<<m>>) = 1 /\ <<m>>[1] = m /\ DOMAIN <<m>> = {1}
  OBVIOUS
<1>2. IsVector(<<m>>)
  BY <1>1, VectorIs
<1> QED
  BY <1>1, <1>2

(* The last n parts.                                                       *)
LEMMA PiecesRecent ==
  ASSUME NEW h, NEW top \in Nat, NEW r, Pieces(r, h, top), NEW n \in Nat
  PROVE  Pieces(Recent(r, n), h, top)
<1>1. PICK m, q : m = Lower(n, Len(r)) /\ q = Recent(r, n)
  OBVIOUS
<1>2. IsVector(r) /\ Len(r) \in Nat /\ DOMAIN r = 1 .. Len(r)
  BY VectorLen DEF Pieces
<1>3. /\ m \in 0 .. Len(r) /\ IsVector(q) /\ Len(q) = m
      /\ \A i \in 1 .. m : q[i] = r[Len(r) - m + i]
  BY <1>1, <1>2, RecentIs
<1>4. DOMAIN q = 1 .. m
  BY <1>3, VectorLen
<1>5. \A i \in 1 .. m : Len(r) - m + i \in DOMAIN r
  BY <1>2, <1>3
<1>6. \A i \in DOMAIN q : Piece(q[i], h, top)
  BY <1>3, <1>4, <1>5 DEF Pieces
<1>7. SpokenRising(q)
  <2>1. SUFFICES ASSUME NEW i \in DOMAIN q, NEW j \in DOMAIN q, i < j,
                        q[i].role # "system", q[j].role # "system"
                 PROVE  q[i].id < q[j].id
    BY DEF SpokenRising
  <2>2. PICK x, y : x = Len(r) - m + i /\ y = Len(r) - m + j
    OBVIOUS
  <2>3. x < y
    BY <1>2, <1>3, <1>4, <2>1, <2>2
  <2>4. x \in DOMAIN r /\ y \in DOMAIN r /\ q[i] = r[x] /\ q[j] = r[y]
    BY <1>3, <1>4, <1>5, <2>2
  <2>5. SpokenRising(r)
    BY DEF Pieces
  <2> QED
    BY <2>1, <2>3, <2>4, <2>5 DEF SpokenRising
<1> QED
  BY <1>1, <1>3, <1>6, <1>7 DEF Pieces

(* Whatever notes are put before the last messages of a request, it remains *)
(* one.                                                                    *)
LEMMA Compacted ==
  ASSUME NEW h, NEW top \in Nat, NEW r, IsRequest(r, h, top), NEW n \in Nat \ {0},
         NEW e, Pieces(e, h, top), Len(e) >= 1, e[1] = Prompt,
         \A i \in DOMAIN e : e[i].role = "system"
  PROVE  IsRequest(e \o Recent(r, n), h, top)
<1>1. PICK m, q, v : m = Lower(n, Len(r)) /\ q = Recent(r, n) /\ v = e \o q
  OBVIOUS
<1>2. IsVector(r) /\ Len(r) \in Nat /\ DOMAIN r = 1 .. Len(r) /\ Len(r) >= 2
  BY VectorLen DEF IsRequest, Pieces
<1>3. /\ m \in 0 .. Len(r) /\ IsVector(q) /\ Len(q) = m
      /\ \A i \in 1 .. m : q[i] = r[Len(r) - m + i]
  BY <1>1, <1>2, RecentIs
<1>4. m >= 1
  <2>1. n >= 1 /\ Len(r) >= 1
    BY <1>2
  <2>2. m = n \/ m = Len(r)
    BY <1>1 DEF Lower
  <2> QED
    BY <2>1, <2>2
<1>5. Pieces(q, h, top)
  BY <1>1, PiecesRecent DEF IsRequest
<1>6. Pieces(v, h, top)
  BY <1>1, <1>5, PiecesJoined
<1>7. /\ IsVector(e) /\ Len(e) \in Nat /\ Len(v) = Len(e) + m
      /\ \A i \in 1 .. Len(e) : v[i] = e[i]
      /\ \A i \in 1 .. m : v[Len(e) + i] = q[i]
  <2>1. IsVector(e) /\ Len(e) \in Nat
    BY VectorLen DEF Pieces
  <2>2. /\ Len(v) = Len(e) + Len(q)
        /\ \A i \in 1 .. Len(e) : v[i] = e[i]
        /\ \A i \in 1 .. Len(q) : v[Len(e) + i] = q[i]
    <3>1. PICK a, b : a = e /\ b = q
      OBVIOUS
    <3>2. /\ Len(a \o b) = Len(a) + Len(b)
          /\ \A i \in 1 .. Len(a) : (a \o b)[i] = a[i]
          /\ \A i \in 1 .. Len(b) : (a \o b)[Len(a) + i] = b[i]
      BY <1>3, <2>1, <3>1, Joined
    <3> QED
      BY <1>1, <3>1, <3>2
  <2> QED
    BY <1>3, <2>1, <2>2
<1>8. v[1] = Prompt /\ Len(v) >= 2
  BY <1>3, <1>4, <1>7
<1>9. v[Len(v)] = r[Len(r)]
  <2>1. m \in 1 .. m /\ Len(r) - m + m = Len(r)
    BY <1>2, <1>3, <1>4
  <2> QED
    BY <1>3, <1>7, <2>1
<1> QED
  BY <1>1, <1>6, <1>8, <1>9 DEF IsRequest

(* The two notes that compaction begins with.                              *)
LEMMA Notes ==
  ASSUME NEW h, Conversation(h), NEW top \in Nat
  PROVE  /\ Pieces(<<Prompt>>, h, top) /\ Prompt.role = "system" /\ Removed.role = "system"
         /\ Pieces(<<Prompt, Removed>>, h, top) /\ Len(<<Prompt, Removed>>) = 2
         /\ <<Prompt, Removed>>[1] = Prompt /\ <<Prompt, Removed>>[2] = Removed
         /\ DOMAIN <<Prompt, Removed>> = {1, 2}
<1>1. PICK p, x : p = Prompt /\ x = Removed
  OBVIOUS
<1>2. /\ p = [role |-> "system", id |-> 0, results |-> <<"prompt">>, of |-> <<>>]
      /\ x = [role |-> "system", id |-> 0, results |-> <<"removed">>, of |-> <<>>]
  BY <1>1 DEF Prompt, Removed, Said
<1>3. Piece(p, h, top) /\ p.role = "system"
  BY <1>2, NoPiece, Added
<1>4. Piece(x, h, top) /\ x.role = "system"
  BY <1>2, NoPiece, Added
<1>5. Pieces(<<p>>, h, top)
  BY <1>3, Single DEF Pieces, SpokenRising
<1>6. Len(<<p, x>>) = 2 /\ <<p, x>>[1] = p /\ <<p, x>>[2] = x /\ DOMAIN <<p, x>> = {1, 2}
  OBVIOUS
<1>7. IsVector(<<p, x>>)
  <2>1. <<p, x>> \in Seq({p, x})
    OBVIOUS
  <2> QED
    BY <2>1, VectorIs
<1>8. Pieces(<<p, x>>, h, top)
  BY <1>3, <1>4, <1>6, <1>7 DEF Pieces, SpokenRising
<1> QED
  BY <1>1, <1>3, <1>4, <1>5, <1>6, <1>8

(* What is left of a conversation is its end, after a note.                *)
LEMMA AutoCompactIs ==
  ASSUME NEW h, Conversation(h)
  PROVE  \E d \in Int :
           /\ IsVector(AutoCompact(h))
           /\ \A j \in DOMAIN AutoCompact(h) :
                \/ AutoCompact(h)[j] = Removed
                \/ j + d \in DOMAIN h /\ AutoCompact(h)[j] = h[j + d]
<1>1. IsVector(h) /\ Len(h) \in Nat /\ DOMAIN h = 1 .. Len(h)
  BY VectorLen DEF Conversation
<1>2. CASE AutoCompact(h) = h
  <2>1. PICK d \in Int : d = 0
    OBVIOUS
  <2>2. \A j \in DOMAIN h : j + d \in DOMAIN h /\ h[j] = h[j + d]
    BY <1>1, <2>1
  <2>3. PICK v : v = AutoCompact(h)
    OBVIOUS
  <2>4. IsVector(v) /\ \A j \in DOMAIN v : v[j] = Removed \/ (j + d \in DOMAIN h /\ v[j] = h[j + d])
    BY <1>1, <1>2, <2>2, <2>3
  <2> QED
    BY <2>3, <2>4
<1>3. CASE AutoCompact(h) = <<Removed>> \o Recent(h, KeepRecent)
  <2>1. PICK m, q, v, e : /\ m = Lower(KeepRecent, Len(h)) /\ q = Recent(h, KeepRecent)
                          /\ e = <<Removed>> /\ v = e \o q
    OBVIOUS
  <2>2. /\ m \in 0 .. Len(h) /\ IsVector(q) /\ Len(q) = m
        /\ \A i \in 1 .. m : q[i] = h[Len(h) - m + i]
    BY <1>1, <2>1, ContextAssumption, RecentIs
  <2>3. IsVector(e) /\ Len(e) = 1 /\ e[1] = Removed
    BY <2>1, Single
  <2>4. /\ IsVector(v) /\ Len(v) = 1 + m /\ v[1] = Removed
        /\ \A i \in 1 .. m : v[1 + i] = q[i]
    <3>1. /\ IsVector(e \o q) /\ Len(e \o q) = Len(e) + Len(q)
          /\ \A i \in 1 .. Len(e) : (e \o q)[i] = e[i]
          /\ \A i \in 1 .. Len(q) : (e \o q)[Len(e) + i] = q[i]
      <4>1. IsVector(e) /\ IsVector(q)
        BY <2>2, <2>3
      <4> QED
        BY ONLY <4>1, Joined
    <3>2. /\ IsVector(v) /\ Len(v) = Len(e) + Len(q) /\ \A i \in 1 .. Len(e) : v[i] = e[i]
          /\ \A i \in 1 .. Len(q) : v[Len(e) + i] = q[i]
      BY <2>1, <3>1
    <3> QED
      BY <2>2, <2>3, <3>2
  <2>5. PICK d \in Int : d = Len(h) - m - 1
    <3>1. Len(h) - m - 1 \in Int
      BY <1>1, <2>2
    <3> QED
      BY <3>1
  <2>6. ASSUME NEW j \in DOMAIN v PROVE v[j] = Removed \/ (j + d \in DOMAIN h /\ v[j] = h[j + d])
    <3>1. j \in 1 .. 1 + m
      BY <2>2, <2>4, VectorLen
    <3>2. CASE j = 1
      BY <2>4, <3>2
    <3>3. CASE j # 1
      <4>1. j - 1 \in 1 .. m /\ 1 + (j - 1) = j /\ Len(h) - m + (j - 1) = j + d
        BY <1>1, <2>2, <2>5, <3>1, <3>3
      <4>2. j + d \in DOMAIN h
        BY <1>1, <2>2, <4>1
      <4>3. v[1 + (j - 1)] = q[j - 1] /\ q[j - 1] = h[Len(h) - m + (j - 1)]
        BY <2>2, <2>4, <4>1
      <4> QED
        BY <4>1, <4>2, <4>3
    <3> QED
      BY <3>2, <3>3
  <2>7. v = AutoCompact(h)
    BY <1>3, <2>1
  <2> QED
    BY <2>4, <2>6, <2>7
<1> QED
  BY <1>2, <1>3 DEF AutoCompact

(* What pruning makes of it are parts of a request.                        *)
LEMMA PrunedPieces ==
  ASSUME NEW h, Conversation(h)
  PROVE  Pieces(Prune(AutoCompact(h)), h, Len(h))
<1>1. PICK d \in Int : /\ IsVector(AutoCompact(h))
                       /\ \A j \in DOMAIN AutoCompact(h) :
                            \/ AutoCompact(h)[j] = Removed
                            \/ j + d \in DOMAIN h /\ AutoCompact(h)[j] = h[j + d]
  BY AutoCompactIs
<1>2. PICK s, p : s = AutoCompact(h) /\ p = Prune(AutoCompact(h))
  OBVIOUS
<1>3. /\ IsVector(s) /\ Len(s) \in Nat /\ DOMAIN s = 1 .. Len(s)
      /\ Len(h) \in Nat /\ DOMAIN h = 1 .. Len(h)
      /\ \A j \in DOMAIN s : s[j] = Removed \/ (j + d \in DOMAIN h /\ s[j] = h[j + d])
  BY <1>1, <1>2, VectorLen DEF Conversation
<1>4. p = [i \in 1 .. Len(s) |-> PruneMessage(s, i)]
  BY <1>2, <1>3 DEF Prune
<1>5. /\ IsVector(p) /\ DOMAIN p = 1 .. Len(s)
      /\ \A i \in 1 .. Len(s) : p[i] = PruneMessage(s, i)
  <2>1. DOMAIN p = 1 .. Len(s) /\ \A i \in 1 .. Len(s) : p[i] = PruneMessage(s, i)
    BY <1>4
  <2>2. p = [i \in 1 .. Len(s) |-> p[i]]
    BY <1>4
  <2> QED
    BY <1>3, <2>1, <2>2, VectorFrom
<1>6. Removed.role = "system" /\ Removed.id = 0 /\ Message(Removed) /\ Removed.of = <<>>
  <2>1. Removed = [role |-> "system", id |-> 0, results |-> <<"removed">>, of |-> <<>>]
    BY DEF Removed, Said
  <2>2. Message(Removed)
    BY <1>3, <2>1, NoPiece, Added
  <2> QED
    BY <2>1, <2>2
<1>7. Shifted(s, h, d)
  BY <1>3, <1>6 DEF Shifted
<1>8. ASSUME NEW i \in DOMAIN p
      PROVE  Piece(p[i], h, Len(h)) /\ (p[i].role # "system" => p[i].id = i + d)
  <2>1. i \in DOMAIN s /\ p[i] = PruneMessage(s, i)
    BY <1>3, <1>5
  <2>2. CASE s[i] = Removed
    <3>1. Message(p[i]) /\ p[i].role = "system" /\ p[i].id = 0 /\ p[i].of = <<>>
      BY <1>6, <2>1, <2>2, PrunedShape
    <3>2. Respects(h, p[i])
      BY <1>3, <3>1 DEF Respects
    <3> QED
      BY <3>1, <3>2, NoPiece DEF Piece
  <2>3. CASE i + d \in DOMAIN h /\ s[i] = h[i + d]
    <3>1. IsMessage(s[i], i + d)
      BY <2>3 DEF Conversation
    <3>2. /\ Message(s[i]) /\ s[i].id = i + d /\ s[i].of = <<>>
          /\ s[i].role \in {"user", "assistant"}
      BY <3>1 DEF IsMessage
    <3>3. /\ Message(p[i]) /\ p[i].role = s[i].role /\ p[i].id = i + d /\ p[i].of = <<>>
      BY <2>1, <3>2, PrunedShape
    <3>4. Respects(h, p[i])
      BY <1>3, <1>7, <2>1, <3>2, PrunedRespects
    <3> QED
      BY <1>3, <2>3, <3>2, <3>3, <3>4, NoPiece DEF Piece
  <2> QED
    BY <1>3, <2>1, <2>2, <2>3
<1>9. SpokenRising(p)
  <2>1. SUFFICES ASSUME NEW i \in DOMAIN p, NEW j \in DOMAIN p, i < j,
                        p[i].role # "system", p[j].role # "system"
                 PROVE  p[i].id < p[j].id
    BY DEF SpokenRising
  <2>2. p[i].id = i + d /\ p[j].id = j + d /\ i \in Int /\ j \in Int
    BY <1>5, <1>8, <2>1
  <2> QED
    BY <2>1, <2>2
<1>10. \A i \in DOMAIN p : Piece(p[i], h, Len(h))
  BY <1>8
<1>11. Pieces(p, h, Len(h))
  BY <1>5, <1>9, <1>10 DEF Pieces
<1> QED
  BY <1>2, <1>11

(* What Assemble makes is a request that ends with the question.           *)
LEMMA Assembled ==
  ASSUME NEW h, Conversation(h)
  PROVE  IsRequest(Assemble(h, Said("user", Len(h) + 1, <<>>)), h, Len(h) + 1)
<1>1. PICK p, x, q, r : /\ p = Prune(AutoCompact(h)) /\ x = Said("user", Len(h) + 1, <<>>)
                        /\ q = <<Prompt>> \o p /\ r = q \o <<x>>
  OBVIOUS
<1>2. Len(h) \in Nat /\ DOMAIN h = 1 .. Len(h) /\ IsVector(h)
  BY VectorLen DEF Conversation
<1>3. PICK top : top = Len(h) + 1 /\ top \in Nat
  BY <1>2
<1>4. Pieces(p, h, Len(h)) /\ Pieces(<<Prompt>>, h, Len(h)) /\ Prompt.role = "system"
  BY <1>1, <1>2, PrunedPieces, Notes
<1>5. Pieces(q, h, Len(h))
  <2>1. \A i \in DOMAIN <<Prompt>> : <<Prompt>>[i].role = "system"
    BY <1>4, Single
  <2>2. PICK e : e = <<Prompt>>
    OBVIOUS
  <2> QED
    BY <1>1, <1>2, <1>4, <2>1, <2>2, PiecesJoined
<1>6. IsVector(q) /\ Len(q) \in Nat /\ Len(q) >= 1 /\ q[1] = Prompt /\ DOMAIN q = 1 .. Len(q)
  <2>1. PICK e : e = <<Prompt>>
    OBVIOUS
  <2>2. IsVector(e) /\ Len(e) = 1 /\ e[1] = Prompt /\ IsVector(p) /\ Len(p) \in Nat
    BY <1>4, <2>1, Single, VectorLen DEF Pieces
  <2>3. /\ IsVector(e \o p) /\ Len(e \o p) = Len(e) + Len(p)
        /\ \A i \in 1 .. Len(e) : (e \o p)[i] = e[i]
    BY <2>2, Joined
  <2> QED
    BY <1>1, <2>1, <2>2, <2>3, VectorLen
<1>7. Piece(x, h, top) /\ x.id = top /\ x.role = "user"
  <2>1. IsVector(<<>>) /\ DOMAIN <<>> = {}
    <3>1. <<>> \in Seq({}) /\ DOMAIN <<>> = {}
      OBVIOUS
    <3> QED
      BY <3>1, VectorIs
  <2>2. top \in 1 .. top /\ top > Len(h)
    BY <1>2, <1>3
  <2>3. Piece(Said("user", top, <<>>), h, top)
    BY <1>3, <2>1, <2>2, SaidPiece
  <2>4. x = [role |-> "user", id |-> top, results |-> <<>>, of |-> <<>>]
    BY <1>1, <1>3 DEF Said
  <2> QED
    BY <1>1, <1>3, <2>3, <2>4
<1>8. Pieces(<<x>>, h, top)
  BY <1>7, Single DEF Pieces, SpokenRising
<1>9. Pieces(r, h, top)
  <2>1. PICK e : e = <<x>> /\ DOMAIN e = {1} /\ e[1] = x
    BY Single
  <2>2. \A i \in DOMAIN q : q[i].role # "system" => q[i].id \in 1 .. Len(h)
    BY <1>5 DEF Pieces, Piece
  <2>3. \A i \in DOMAIN q, j \in DOMAIN e :
          q[i].role # "system" /\ e[j].role # "system" => q[i].id < e[j].id
    BY <1>2, <1>3, <1>7, <2>1, <2>2
  <2>4. Len(h) <= top
    BY <1>2, <1>3
  <2> QED
    BY <1>1, <1>2, <1>3, <1>5, <1>8, <2>1, <2>3, <2>4, PiecesJoined
<1>10. IsRequest(r, h, top)
  <2>1. PICK e : e = <<x>> /\ IsVector(e) /\ Len(e) = 1 /\ e[1] = x
    BY Single
  <2>2. /\ Len(q \o e) = Len(q) + Len(e)
        /\ \A i \in 1 .. Len(q) : (q \o e)[i] = q[i]
        /\ \A i \in 1 .. Len(e) : (q \o e)[Len(q) + i] = e[i]
    BY <1>6, <2>1, Joined
  <2>3. r = q \o e
    BY <1>1, <2>1
  <2>4. Len(r) = Len(q) + 1 /\ r[1] = Prompt /\ r[Len(q) + 1] = x
    BY <1>6, <2>1, <2>2, <2>3
  <2> QED
    BY <1>6, <1>7, <1>9, <2>4 DEF IsRequest
<1>11. IsRequest(WindowGuard(r), h, top)
  <2>1. CASE WindowGuard(r) = r
    BY <1>10, <2>1
  <2>2. CASE WindowGuard(r) = <<Prompt, Removed>> \o Recent(r, KeepRecent)
    <3>1. PICK e, n : e = <<Prompt, Removed>> /\ n = KeepRecent
      OBVIOUS
    <3>2. /\ Pieces(e, h, top) /\ Len(e) >= 1 /\ e[1] = Prompt
          /\ \A i \in DOMAIN e : e[i].role = "system"
      BY <1>3, <3>1, Notes
    <3>3. n \in Nat \ {0}
      BY <3>1, ContextAssumption
    <3>4. IsRequest(e \o Recent(r, n), h, top)
      BY <1>3, <1>10, <3>2, <3>3, Compacted
    <3> QED
      BY <2>2, <3>1, <3>4
  <2> QED
    BY <2>1, <2>2 DEF WindowGuard
<1> QED
  BY <1>1, <1>3, <1>11 DEF Assemble

(* A summary of a request is of what was said in it.                       *)
LEMMA Summed ==
  ASSUME NEW r, IsVector(r), \A i \in DOMAIN r : Message(r[i]), SpokenRising(r)
  PROVE  \A again : \E of, text :
           OfOk(of) /\ CompactMultiStage(Spoken(r), again) = <<Summary(of, text)>>
<1> TAKE again
<1>1. PICK s : s = Spoken(r)
  OBVIOUS
<1>2. /\ IsVector(s) /\ Rising(s)
      /\ \A i \in DOMAIN s : \E j \in DOMAIN r : s[i] = r[j]
  BY <1>1, SpokenIs
<1>3. \A i \in DOMAIN s : Message(s[i])
  BY <1>2
<1>4. CASE Len(s) < min_messages_for_multistage \/ EstimateTokens(s) <= ChunkTokens
  <2>1. PICK of : of = <<s>> /\ DOMAIN of = {1} /\ of[1] = s /\ Len(of) = 1
    BY Single
  <2>2. OfOk(of)
    BY <1>2, <1>4, <2>1 DEF OfOk, Rising
  <2>3. CompactMultiStage(s, again) = <<Summary(of, "summary")>>
    BY <1>4, <2>1 DEF CompactMultiStage
  <2> QED
    BY <1>1, <2>2, <2>3
<1>5. CASE ~ (Len(s) < min_messages_for_multistage \/ EstimateTokens(s) <= ChunkTokens)
  <2>1. PICK of, text : /\ of = ChunkByMaxTokens(s)
                        /\ text = IF again THEN "summary of summaries" ELSE "summary"
    OBVIOUS
  <2>2. Chunks(of, s, Len(s))
    BY <1>2, <1>3, <2>1, ChunkByMaxTokensOk
  <2>3. OfOk(of)
    BY <2>2 DEF Chunks, OfOk
  <2>4. CompactMultiStage(s, again) = <<Summary(of, text)>>
    BY <1>5, <2>1 DEF CompactMultiStage
  <2> QED
    BY <1>1, <2>3, <2>4
<1> QED
  BY <1>4, <1>5

(* Compaction after an overflow leaves a request.                          *)
LEMMA OverflowOk ==
  ASSUME NEW h, Conversation(h), NEW top \in Nat, NEW r, IsRequest(r, h, top)
  PROVE  \A again : IsRequest(CompactOverflow(r, again), h, top)
<1> TAKE again
<1>1. /\ IsVector(r) /\ Len(r) \in Nat /\ Len(r) >= 2 /\ SpokenRising(r)
      /\ \A i \in DOMAIN r : Message(r[i])
  BY VectorLen DEF IsRequest, Pieces, Piece
<1>2. CASE CompactOverflow(r, again) = <<Prompt, Removed>> \o Recent(r, Higher(2, Len(r) \div 2))
  <2>1. PICK e, n : e = <<Prompt, Removed>> /\ n = Higher(2, Len(r) \div 2)
    OBVIOUS
  <2>2. /\ Pieces(e, h, top) /\ Len(e) >= 1 /\ e[1] = Prompt
        /\ \A i \in DOMAIN e : e[i].role = "system"
    BY <2>1, Notes
  <2>3. n \in Nat \ {0}
    <3>1. Len(r) \div 2 \in Nat
      BY <1>1
    <3>2. n = 2 \/ (n = Len(r) \div 2 /\ ~ (2 > n))
      BY <2>1 DEF Higher
    <3> QED
      BY <3>1, <3>2
  <2>4. IsRequest(e \o Recent(r, n), h, top)
    BY <2>2, <2>3, Compacted
  <2> QED
    BY <1>2, <2>1, <2>4
<1>3. CASE CompactOverflow(r, again) = <<Prompt>> \o CompactMultiStage(Spoken(r), again)
                                         \o Recent(r, Higher(2, Lower(4, Len(r))))
  <2>1. PICK of, text : /\ OfOk(of)
                        /\ CompactMultiStage(Spoken(r), again) = <<Summary(of, text)>>
    BY <1>1, Summed
  <2>2. PICK m : m = Summary(of, text)
    OBVIOUS
  <2>3. m = [role |-> "system", id |-> 0, results |-> <<text>>, of |-> of]
    BY <2>2 DEF Summary, Said
  <2>4. Piece(m, h, top) /\ m.role = "system"
    BY <2>1, <2>3, Added
  <2>5. PICK a, b, e, n : /\ a = <<Prompt>> /\ b = <<m>> /\ e = a \o b
                          /\ n = Higher(2, Lower(4, Len(r)))
    OBVIOUS
  <2>6. /\ IsVector(a) /\ Len(a) = 1 /\ a[1] = Prompt /\ DOMAIN a = {1}
        /\ IsVector(b) /\ Len(b) = 1 /\ b[1] = m /\ DOMAIN b = {1}
    BY <2>5, Single
  <2>7. Pieces(a, h, top) /\ Prompt.role = "system"
    BY <2>5, Notes
  <2>8. Pieces(b, h, top)
    BY <2>4, <2>6 DEF Pieces, SpokenRising
  <2>9. Pieces(e, h, top)
    BY <2>4, <2>5, <2>6, <2>7, <2>8, PiecesJoined
  <2>10. /\ IsVector(e) /\ Len(e) = Len(a) + Len(b)
         /\ \A i \in 1 .. Len(a) : e[i] = a[i]
         /\ \A i \in 1 .. Len(b) : e[Len(a) + i] = b[i]
    BY <2>5, <2>6, Joined
  <2>11. Len(e) = 2 /\ e[1] = Prompt /\ e[2] = m /\ DOMAIN e = 1 .. 2
    BY <2>6, <2>10, VectorLen
  <2>12. \A i \in DOMAIN e : e[i].role = "system"
    BY <2>4, <2>7, <2>11
  <2>13. n \in Nat \ {0}
    <3>1. PICK k : k = Lower(4, Len(r))
      OBVIOUS
    <3>2. k \in Nat
      BY <1>1, <3>1 DEF Lower
    <3>3. n = 2 \/ (n = k /\ ~ (2 > n))
      BY <2>5, <3>1 DEF Higher
    <3> QED
      BY <3>2, <3>3
  <2>14. IsRequest(e \o Recent(r, n), h, top)
    BY <2>9, <2>11, <2>12, <2>13, Compacted
  <2>15. CompactOverflow(r, again) = e \o Recent(r, n)
    BY <1>3, <2>1, <2>2, <2>5
  <2> QED
    BY <2>14, <2>15
<1> QED
  BY <1>2, <1>3 DEF CompactOverflow

(***************************************************************************)
(* The invariant: between turns there is a conversation; in a turn there    *)
(* are what it has added to it, numbered on, and a request for both.       *)
(***************************************************************************)
ContextHolds ==
  /\ Conversation(cxHistory)
  /\ cxRequest # <<>> =>
       /\ IsVector(cxNew) /\ Len(cxNew) >= 1
       /\ \A k \in DOMAIN cxNew : IsMessage(cxNew[k], Len(cxHistory) + k)
       /\ IsRequest(cxRequest, cxHistory, Len(cxHistory) + Len(cxNew))

(* The runs of the context: its initial state, with or without a summary   *)
(* function, and its steps.                                                *)
ContextSpec ==
  (\E summary \in BOOLEAN : ContextInit(summary)) /\ [][ContextNext]_contextVars

(* At first nothing was said.                                              *)
LEMMA ContextStart ==
  ASSUME NEW summary \in BOOLEAN, ContextInit(summary)
  PROVE  ContextHolds
<1>1. cxHistory = <<>> /\ cxRequest = <<>>
  BY DEF ContextInit
<1>2. IsVector(<<>>) /\ DOMAIN <<>> = {}
  <2>1. <<>> \in Seq({}) /\ DOMAIN <<>> = {}
    OBVIOUS
  <2> QED
    BY <2>1, VectorIs
<1> QED
  BY <1>1, <1>2 DEF ContextHolds, Conversation

(* A conversation goes on.                                                 *)
LEMMA GoesOn ==
  ASSUME NEW h, IsVector(h), NEW n, IsVector(n), NEW base \in Nat,
         \A i \in DOMAIN h : IsMessage(h[i], base + i),
         \A k \in DOMAIN n : IsMessage(n[k], base + Len(h) + k)
  PROVE  /\ IsVector(h \o n) /\ Len(h \o n) = Len(h) + Len(n)
         /\ \A i \in DOMAIN (h \o n) : IsMessage((h \o n)[i], base + i)
<1>1. PICK q, a, b : q = h \o n /\ a = Len(h) /\ b = Len(n)
  OBVIOUS
<1>2. /\ a \in Nat /\ b \in Nat /\ DOMAIN h = 1 .. a /\ DOMAIN n = 1 .. b
      /\ IsVector(q) /\ Len(q) = a + b /\ DOMAIN q = 1 .. a + b
      /\ \A i \in 1 .. a : q[i] = h[i]
      /\ \A i \in 1 .. b : q[a + i] = n[i]
  BY <1>1, Joined, VectorLen
<1>3. ASSUME NEW i \in DOMAIN q PROVE IsMessage(q[i], base + i)
  <2>1. CASE i \in 1 .. a
    BY <1>2, <2>1
  <2>2. CASE ~ (i \in 1 .. a)
    <3>1. i - a \in 1 .. b /\ a + (i - a) = i /\ base + a + (i - a) = base + i
      BY <1>2, <2>2
    <3>2. q[i] = n[i - a]
      BY <1>2, <3>1
    <3>3. IsMessage(n[i - a], base + a + (i - a))
      BY <1>1, <1>2, <3>1
    <3> QED
      BY <3>1, <3>2, <3>3
  <2> QED
    BY <2>1, <2>2
<1> QED
  BY <1>1, <1>2, <1>3

(* No text at all is a vector.                                             *)
LEMMA NoTexts == IsVector(<<>>) /\ DOMAIN <<>> = {} /\ Len(<<>>) = 0
<1>1. <<>> \in Seq({}) /\ DOMAIN <<>> = {} /\ Len(<<>>) = 0
  OBVIOUS
<1> QED
  BY <1>1, VectorIs

(* A turn starts with a request that ends with its question.               *)
LEMMA TurnStartsHolds ==
  ASSUME ContextHolds, TurnStarts
  PROVE  ContextHolds'
<1>1. PICK h, x, q : h = cxHistory /\ x = Said("user", Len(h) + 1, <<>>) /\ q = <<x>>
  OBVIOUS
<1>2. /\ cxHistory' = h /\ cxNew' = q /\ cxRequest' = Assemble(h, x)
  BY <1>1 DEF TurnStarts, Question
<1>3. Conversation(h) /\ Len(h) \in Nat
  BY <1>1, VectorLen DEF ContextHolds, Conversation
<1>4. IsVector(q) /\ Len(q) = 1 /\ q[1] = x /\ DOMAIN q = {1}
  BY <1>1, Single
<1>5. IsMessage(x, Len(h) + 1)
  <2>1. PICK top : top = Len(h) + 1 /\ top \in Nat /\ top \in 1 .. top /\ top > Len(h)
    BY <1>3
  <2>2. IsMessage(Said("user", top, <<>>), top)
    BY <1>3, <2>1, NoTexts, SaidPiece
  <2> QED
    BY <1>1, <2>1, <2>2
<1>6. IsRequest(Assemble(h, x), h, Len(h) + 1)
  BY <1>1, <1>3, Assembled
<1> QED
  BY <1>2, <1>3, <1>4, <1>5, <1>6 DEF ContextHolds

(* A round of tools adds its two messages to the request and to the turn.   *)
LEMMA ToolRoundHolds ==
  ASSUME ContextHolds, NEW texts \in {<<"short">>, <<"long">>, <<"dense", "stale">>},
         ToolRound(texts)
  PROVE  ContextHolds'
<1>1. PICK h, n, r, at : h = cxHistory /\ n = cxNew /\ r = cxRequest /\ at = Len(h) + Len(n)
  OBVIOUS
<1>2. PICK a, b, e : /\ a = Said("assistant", at + 1, <<>>) /\ b = Said("user", at + 2, texts)
                     /\ e = <<a, b>>
  OBVIOUS
<1>3. r # <<>> /\ cxHistory' = h /\ cxNew' = n \o e /\ cxRequest' = r \o e
  BY <1>1, <1>2 DEF ToolRound
<1>4. /\ Conversation(h) /\ IsVector(n) /\ Len(n) >= 1
      /\ \A k \in DOMAIN n : IsMessage(n[k], Len(h) + k)
      /\ IsRequest(r, h, at)
  BY <1>1, <1>3 DEF ContextHolds
<1>5. Len(h) \in Nat /\ Len(n) \in Nat /\ at \in Nat /\ at >= Len(h)
  BY <1>1, <1>4, VectorLen DEF Conversation
<1>6. IsVector(texts) /\ \A k \in DOMAIN texts : texts[k] \in Texts
  <2>1. texts \in Seq(Texts)
    <3>1. \A x \in Texts, y \in Texts : <<x>> \in Seq(Texts) /\ <<x, y>> \in Seq(Texts)
      OBVIOUS
    <3>2. {"short", "long", "dense", "stale"} \subseteq Texts
      BY DEF Texts
    <3> QED
      BY <3>1, <3>2
  <2>2. \A k \in DOMAIN texts : texts[k] \in Texts
    BY <2>1
  <2> QED
    BY <2>1, <2>2, VectorIs
<1>7. PICK top : top = at + 2 /\ top \in Nat
  BY <1>5
<1>8. /\ Piece(a, h, top) /\ IsMessage(a, at + 1) /\ a.id = at + 1
      /\ Piece(b, h, top) /\ IsMessage(b, at + 2) /\ b.id = at + 2
      /\ a.role = "assistant" /\ b.role = "user"
  <2>1. PICK i, j : i = at + 1 /\ j = at + 2
    OBVIOUS
  <2>2. i \in 1 .. top /\ i > Len(h) /\ j \in 1 .. top /\ j > Len(h)
    BY <1>5, <1>7, <2>1
  <2>3. Piece(Said("assistant", i, <<>>), h, top) /\ IsMessage(Said("assistant", i, <<>>), i)
    BY <1>4, <1>7, <2>2, NoTexts, SaidPiece
  <2>4. Piece(Said("user", j, texts), h, top) /\ IsMessage(Said("user", j, texts), j)
    BY <1>4, <1>6, <1>7, <2>2, SaidPiece
  <2>5. /\ a = [role |-> "assistant", id |-> i, results |-> <<>>, of |-> <<>>]
        /\ b = [role |-> "user", id |-> j, results |-> texts, of |-> <<>>]
    BY <1>2, <2>1 DEF Said
  <2>6. a.role = "assistant" /\ b.role = "user" /\ a.id = i /\ b.id = j
    BY <2>5
  <2> QED
    BY <1>2, <2>1, <2>3, <2>4, <2>6
<1>9. IsVector(e) /\ Len(e) = 2 /\ e[1] = a /\ e[2] = b /\ DOMAIN e = {1, 2}
  <2>1. e \in Seq({a, b}) /\ Len(e) = 2 /\ e[1] = a /\ e[2] = b /\ DOMAIN e = {1, 2}
    BY <1>2
  <2>2. IsVector(e)
    BY <2>1, VectorIs
  <2> QED
    BY <2>1, <2>2
<1>10. Pieces(e, h, top)
  <2>1. at + 1 < at + 2
    BY <1>5
  <2>2. SpokenRising(e)
    BY <1>8, <1>9, <2>1 DEF SpokenRising
  <2> QED
    BY <1>8, <1>9, <2>2 DEF Pieces
<1>11. Pieces(r, h, at) /\ IsVector(r) /\ Len(r) \in Nat /\ DOMAIN r = 1 .. Len(r)
  BY <1>4, VectorLen DEF IsRequest, Pieces
<1>12. Pieces(r \o e, h, top)
  <2>1. \A i \in DOMAIN r : r[i].role # "system" => r[i].id \in 1 .. at
    BY <1>11 DEF Pieces, Piece
  <2>2. \A i \in DOMAIN r, j \in DOMAIN e :
          r[i].role # "system" /\ e[j].role # "system" => r[i].id < e[j].id
    BY <1>5, <1>8, <1>9, <2>1
  <2>3. at <= top
    BY <1>5, <1>7
  <2> QED
    BY <1>5, <1>7, <1>10, <1>11, <2>2, <2>3, PiecesJoined
<1>13. IsRequest(r \o e, h, top)
  <2>1. /\ Len(r \o e) = Len(r) + Len(e)
        /\ \A i \in 1 .. Len(r) : (r \o e)[i] = r[i]
        /\ \A i \in 1 .. Len(e) : (r \o e)[Len(r) + i] = e[i]
    <3>1. IsVector(r) /\ IsVector(e)
      BY <1>9, <1>11
    <3> QED
      BY ONLY <3>1, Joined
  <2>2. Len(r) >= 2 /\ r[1] = Prompt
    BY <1>4 DEF IsRequest
  <2>3. Len(r \o e) = Len(r) + 2 /\ (r \o e)[1] = Prompt /\ (r \o e)[Len(r) + 2] = b
    BY <1>9, <1>11, <2>1, <2>2
  <2> QED
    BY <1>7, <1>8, <1>11, <1>12, <2>2, <2>3 DEF IsRequest
<1>14. /\ IsVector(n \o e) /\ Len(n \o e) = Len(n) + 2
       /\ \A k \in DOMAIN (n \o e) : IsMessage((n \o e)[k], Len(h) + k)
  <2>1. PICK base : base = Len(h) /\ base \in Nat
    BY <1>5
  <2>2. \A k \in DOMAIN e : IsMessage(e[k], base + Len(n) + k)
    BY <1>1, <1>8, <1>9, <2>1
  <2>3. \A k \in DOMAIN n : IsMessage(n[k], base + k)
    BY <1>4, <2>1
  <2>4. /\ IsVector(n \o e) /\ Len(n \o e) = Len(n) + Len(e)
        /\ \A k \in DOMAIN (n \o e) : IsMessage((n \o e)[k], base + k)
    BY <1>4, <1>9, <2>1, <2>2, <2>3, GoesOn
  <2> QED
    BY <1>9, <2>1, <2>4
<1>15. top = Len(h) + Len(n \o e) /\ Len(n \o e) >= 1
  BY <1>1, <1>5, <1>7, <1>14
<1>16. PICK p, v : p = r \o e /\ v = n \o e
  OBVIOUS
<1> QED
  BY <1>3, <1>4, <1>13, <1>14, <1>15, <1>16 DEF ContextHolds

(* A compaction after an overflow changes the request only.                *)
LEMMA OverflowHolds ==
  ASSUME ContextHolds, Overflow
  PROVE  ContextHolds'
<1>1. PICK h, r, top : h = cxHistory /\ r = cxRequest /\ top = Len(h) + Len(cxNew)
  OBVIOUS
<1>2. /\ r # <<>> /\ cxHistory' = h /\ cxNew' = cxNew
      /\ \E again \in BOOLEAN : cxRequest' = CompactOverflow(r, again)
  BY <1>1 DEF Overflow
<1>3. /\ Conversation(h) /\ IsVector(cxNew) /\ Len(cxNew) >= 1 /\ IsRequest(r, h, top)
      /\ \A k \in DOMAIN cxNew : IsMessage(cxNew[k], Len(h) + k)
  BY <1>1, <1>2 DEF ContextHolds
<1>4. top \in Nat
  BY <1>1, <1>3, VectorLen DEF Conversation
<1>5. IsRequest(cxRequest', h, top)
  BY <1>2, <1>3, <1>4, OverflowOk
<1> QED
  BY <1>1, <1>2, <1>3, <1>5 DEF ContextHolds

(* A turn that ends leaves a conversation.                                 *)
LEMMA TurnEndsHolds ==
  ASSUME ContextHolds, NEW answered \in BOOLEAN, TurnEnds(answered)
  PROVE  ContextHolds'
<1>1. PICK h, n, at : h = cxHistory /\ n = cxNew /\ at = Len(h) + Len(n) + 1
  OBVIOUS
<1>2. cxRequest # <<>> /\ cxRequest' = <<>>
  BY DEF TurnEnds
<1>3. /\ Conversation(h) /\ IsVector(n) /\ \A k \in DOMAIN n : IsMessage(n[k], Len(h) + k)
      /\ IsVector(h) /\ \A k \in DOMAIN h : IsMessage(h[k], k)
  BY <1>1, <1>2 DEF ContextHolds, Conversation
<1>4. Len(h) \in Nat /\ Len(n) \in Nat /\ DOMAIN n = 1 .. Len(n) /\ at \in Nat
      /\ at \in 1 .. at /\ at > Len(h) /\ DOMAIN h = 1 .. Len(h)
  BY <1>1, <1>3, VectorLen
<1>5. ASSUME NEW e, IsVector(e), \A k \in DOMAIN e : IsMessage(e[k], Len(h) + k)
      PROVE  Conversation(h \o e)
  <2>1. PICK base : base = 0 /\ base \in Nat
    OBVIOUS
  <2>2. /\ \A k \in DOMAIN h : IsMessage(h[k], base + k)
        /\ \A k \in DOMAIN e : IsMessage(e[k], base + Len(h) + k)
    <3>1. /\ \A k \in DOMAIN h : base + k = k
          /\ \A k \in DOMAIN e : base + Len(h) + k = Len(h) + k
      BY <1>4, <1>5, <2>1, VectorLen
    <3> QED
      BY <1>3, <1>5, <3>1
  <2>3. /\ IsVector(h \o e) /\ \A k \in DOMAIN (h \o e) : IsMessage((h \o e)[k], base + k)
    BY <1>3, <1>5, <2>1, <2>2, GoesOn
  <2>4. \A k \in DOMAIN (h \o e) : base + k = k
    BY <2>1, <2>3, VectorLen
  <2> QED
    BY <2>3, <2>4 DEF Conversation
<1>6. CASE answered
  <2>1. PICK x, q : x = Said("assistant", at, <<>>) /\ q = Append(n, x)
    OBVIOUS
  <2>2. cxHistory' = h \o q
    BY <1>1, <1>6, <2>1 DEF TurnEnds
  <2>3. IsMessage(x, at)
    BY <1>3, <1>4, <2>1, NoTexts, SaidPiece
  <2>4. IsVector(q) /\ \A k \in DOMAIN q : IsMessage(q[k], Len(h) + k)
    <3>1. PICK T : T = Range(n) \cup {x}
      OBVIOUS
    <3>2. n \in Seq(T) /\ x \in T
      <4>1. PICK A : n \in Seq(A) /\ A = Range(n)
        BY <1>3 DEF IsVector
      <4>2. A \subseteq T
        BY <3>1, <4>1
      <4> QED
        BY <3>1, <4>1, <4>2
    <3>3. /\ IsVector(q) /\ DOMAIN q = 1 .. Len(n) + 1
          /\ \A i \in 1 .. Len(n) : q[i] = n[i]
          /\ q[Len(n) + 1] = x
      BY <2>1, <3>2, Appended
    <3>4. IsMessage(q[Len(n) + 1], Len(h) + (Len(n) + 1))
      <4>1. Len(h) + (Len(n) + 1) = at
        BY <1>1, <1>4
      <4> QED
        BY <2>3, <3>3, <4>1
    <3>5. \A k \in 1 .. Len(n) + 1 : k \in 1 .. Len(n) \/ k = Len(n) + 1
      BY <1>4
    <3> QED
      BY <1>3, <1>4, <3>3, <3>4, <3>5
  <2>5. Conversation(h \o q)
    BY <1>5, <2>4
  <2> QED
    BY <1>2, <2>2, <2>5 DEF ContextHolds
<1>7. CASE ~ answered
  <2>1. PICK i, x, q : i = Len(h) + 1 /\ x = Said("user", i, <<>>) /\ q = <<x>>
    OBVIOUS
  <2>2. cxHistory' = h \o q
    BY <1>1, <1>7, <2>1 DEF TurnEnds, Question
  <2>3. IsVector(q) /\ DOMAIN q = {1} /\ q[1] = x
    BY <2>1, Single
  <2>4. i \in Nat /\ i \in 1 .. i /\ i > Len(h)
    BY <1>4, <2>1
  <2>5. IsMessage(x, i)
    BY <1>3, <2>1, <2>4, NoTexts, SaidPiece
  <2>6. \A k \in DOMAIN q : IsMessage(q[k], Len(h) + k)
    BY <2>1, <2>3, <2>5
  <2>7. Conversation(h \o q)
    BY <1>5, <2>3, <2>6
  <2> QED
    BY <1>2, <2>2, <2>7 DEF ContextHolds
<1> QED
  BY <1>6, <1>7

(* What a request is made of is what the model needs.                      *)
LEMMA HeldIsSound ==
  ASSUME ContextHolds
  PROVE  ContextSound
<1>1. CASE cxRequest = <<>>
  <2>1. DOMAIN cxRequest = {}
    BY <1>1
  <2> QED
    BY <1>1, <2>1 DEF ContextSound, PruneRespectsAge, ContextShape
<1>2. CASE cxRequest # <<>>
  <2>1. PICK h, r, n, top : h = cxHistory /\ r = cxRequest /\ n = cxNew
                            /\ top = Len(h) + Len(n)
    OBVIOUS
  <2>2. /\ Conversation(h) /\ IsVector(n) /\ Len(n) >= 1 /\ IsRequest(r, h, top)
        /\ \A k \in DOMAIN n : IsMessage(n[k], Len(h) + k)
    BY <1>2, <2>1 DEF ContextHolds
  <2>3. Pieces(r, h, top) /\ \A i \in DOMAIN r : Piece(r[i], h, top)
    BY <2>2 DEF IsRequest, Pieces
  <2>4. \A i \in DOMAIN r : Respects(h, r[i]) /\ OfOk(r[i].of)
    BY <2>3 DEF Piece
  <2>5. PruneRespectsAge
    <3>1. \A i : Age(i) = Cardinality(After(h, i))
      BY <2>1 DEF Age, After
    <3> QED
      BY <2>1, <2>4, <3>1 DEF PruneRespectsAge, Respects
  <2>6. Last(r).id = Last(n).id
    <3>1. Last(r).id = top /\ Last(n) = n[Len(n)]
      BY <2>2 DEF IsRequest, Last
    <3>2. Len(n) \in DOMAIN n
      BY <2>2, VectorLen
    <3>3. IsMessage(n[Len(n)], Len(h) + Len(n))
      BY <2>2, <3>2
    <3> QED
      BY <2>1, <3>1, <3>3 DEF IsMessage
  <2>7. \A i, j \in DOMAIN r :
          i < j /\ "system" \notin {r[i].role, r[j].role} => r[i].id < r[j].id
    BY <2>3 DEF Pieces, SpokenRising
  <2>8. r[1] = Prompt
    BY <2>2 DEF IsRequest
  <2>9. ContextShape
    <3>1. \A i \in DOMAIN r :
            LET of == r[i].of
            IN /\ \A c, d \in DOMAIN of : \A x \in DOMAIN of[c], y \in DOMAIN of[d] :
                    c < d \/ (c = d /\ x < y) => of[c][x].id < of[d][y].id
               /\ \A c \in DOMAIN of :
                    \/ Len(of[c]) = 1 \/ EstimateTokens(of[c]) <= ChunkTokens
                    \/ Len(of) = 1 /\ Len(of[c]) < min_messages_for_multistage
      BY <2>4 DEF OfOk
    <3> QED
      BY <2>1, <2>6, <2>7, <2>8, <3>1 DEF ContextShape
  <2> QED
    BY <2>5, <2>9 DEF ContextSound
<1> QED
  BY <1>1, <1>2

(* Every step keeps it, and so does one that leaves the context alone.     *)
LEMMA ContextStep ==
  ASSUME ContextHolds, [ContextNext]_contextVars
  PROVE  ContextHolds'
<1>1. CASE TurnStarts
  BY <1>1, TurnStartsHolds
<1>2. CASE \E texts \in {<<"short">>, <<"long">>, <<"dense", "stale">>} : ToolRound(texts)
  BY <1>2, ToolRoundHolds
<1>3. CASE Overflow
  BY <1>3, OverflowHolds
<1>4. CASE \E answered \in BOOLEAN : TurnEnds(answered)
  BY <1>4, TurnEndsHolds
<1>5. CASE UNCHANGED contextVars
  BY <1>5 DEF ContextHolds, contextVars
<1> QED
  BY <1>1, <1>2, <1>3, <1>4, <1>5 DEF ContextNext

(* Whatever is pruned and compacted, and however often, the model gets the  *)
(* system prompt, what is kept in its order and with the results that are   *)
(* too young to be cut, and the newest message last.                       *)
THEOREM ContextAlwaysSound == ContextSpec => []ContextSound
<1>1. (\E summary \in BOOLEAN : ContextInit(summary)) => ContextHolds
  BY ContextStart
<1>2. ContextHolds /\ [ContextNext]_contextVars => ContextHolds'
  BY ContextStep
<1>3. ContextHolds => ContextSound
  BY HeldIsSound
<1> QED
  BY <1>1, <1>2, <1>3, PTL DEF ContextSpec

-----------------------------------------------------------------------------
(***************************************************************************)
(* Providers: what is replayed.                                            *)
(***************************************************************************)
(* The results of one message, put after what was serialised before...     *)
IsAnswering(f, acc, results) ==
  f = [j \in 0 .. Len(results) |-> IF j = 0 THEN acc ELSE Answered(f[j - 1], results[j])]

(* ... one after the other...                                              *)
LEMMA AnsweringStep ==
  ASSUME NEW results, Len(results) \in Nat, NEW acc, NEW f, IsAnswering(f, acc, results)
  PROVE  /\ f[0] = acc
         /\ \A j \in 1 .. Len(results) : f[j] = Answered(f[j - 1], results[j])
<1> DEFINE H(j) == IF j = 0 THEN acc ELSE Answered(f[j - 1], results[j])
<1>1. f = [j \in 0 .. Len(results) |-> H(j)]
  BY DEF IsAnswering
<1>2. \A j \in 0 .. Len(results) : f[j] = H(j)
  <2> HIDE DEF H
  <2> QED
    BY <1>1
<1> QED
  BY <1>2

(* ... which can be done.                                                  *)
LEMMA AnsweringIs ==
  ASSUME NEW results, Len(results) \in Nat, NEW acc
  PROVE  \E f : IsAnswering(f, acc, results) /\ AnsweredAll(acc, results) = f[Len(results)]
<1> DEFINE Upto(f, n) == f = [j \in 0 .. n |-> IF j = 0 THEN acc ELSE Answered(f[j - 1], results[j])]
           S == {n \in Nat : \E f : Upto(f, n)}
<1>1. 0 \in S
  <2> DEFINE v == [j \in 0 .. 0 |-> acc]
  <2>1. v = [j \in 0 .. 0 |-> IF j = 0 THEN acc ELSE Answered(v[j - 1], results[j])]
    OBVIOUS
  <2> QED
    BY <2>1
<1>2. ASSUME NEW n \in S PROVE n + 1 \in S
  <2>1. n \in Nat /\ n + 1 \in Nat
    OBVIOUS
  <2>2. PICK f : Upto(f, n)
    OBVIOUS
  <2> DEFINE H(j) == IF j = 0 THEN acc ELSE Answered(f[j - 1], results[j])
  <2>3. \A j \in 0 .. n : f[j] = H(j)
    <3>1. f = [j \in 0 .. n |-> H(j)]
      BY <2>2
    <3> HIDE DEF H
    <3> QED
      BY <3>1
  <2>4. PICK v : v = [j \in 0 .. n + 1 |-> H(j)]
    OBVIOUS
  <2>5. \A j \in 0 .. n + 1 : v[j] = H(j)
    <3> HIDE DEF H
    <3> QED
      BY <2>4
  <2>6. \A j \in 0 .. n + 1 : j # 0 => v[j - 1] = f[j - 1]
    <3>1. \A j \in 0 .. n + 1 : j # 0 => j - 1 \in 0 .. n /\ j - 1 \in 0 .. n + 1
      BY <2>1
    <3> HIDE DEF H
    <3> QED
      BY <2>3, <2>5, <3>1
  <2>7. \A j \in 0 .. n + 1 : H(j) = IF j = 0 THEN acc ELSE Answered(v[j - 1], results[j])
    BY <2>6
  <2>8. v = [j \in 0 .. n + 1 |-> IF j = 0 THEN acc ELSE Answered(v[j - 1], results[j])]
    <3> HIDE DEF H
    <3> QED
      BY <2>4, <2>7
  <2> QED
    BY <2>1, <2>8
<1>3. S = Nat
  <2>1. S \in SUBSET Nat
    OBVIOUS
  <2> HIDE DEF S
  <2> QED
    BY <1>1, <1>2, <2>1, Induction
<1>4. \E f : Upto(f, Len(results))
  BY <1>3
<1>5. PICK f : Upto(f, Len(results)) /\ f = CHOOSE g : Upto(g, Len(results))
  BY <1>4
<1> QED
  BY <1>5 DEF IsAnswering, AnsweredAll

(* The i-th item of a payload, a result, follows the message with its call. *)
Follows(p, i) ==
  \E k \in 1 .. i - 1 :
    /\ p[k].role = "assistant" /\ p[i].ids \subseteq p[k].ids
    /\ \A j \in k + 1 .. i - 1 : p[j].role = "tool" /\ p[j].ids # p[i].ids

(* Every result does, and so will the results that are waited for.         *)
OpenedBy(p, k, w) ==
  /\ p[k].role = "assistant" /\ w \subseteq p[k].ids
  /\ \A j \in k + 1 .. Len(p) : p[j].role = "tool" /\ \A x \in w : p[j].ids # {x}

Awaited(acc) ==
  acc.pending # {} => \E k \in 1 .. Len(acc.arr) : OpenedBy(acc.arr, k, acc.pending)

Paired(acc) ==
  /\ IsVector(acc.arr) /\ Awaited(acc)
  /\ \A i \in DOMAIN acc.arr : acc.arr[i].role = "tool" => Follows(acc.arr, i)

(* One item more leaves those before it as they were.                      *)
LEMMA ItemAdded ==
  ASSUME NEW p, IsVector(p), NEW e
  PROVE  LET q == Append(p, e)
         IN  /\ IsVector(q) /\ Len(p) \in Nat /\ Len(q) = Len(p) + 1 /\ DOMAIN q = 1 .. Len(p) + 1
             /\ DOMAIN p = 1 .. Len(p)
             /\ q[Len(p) + 1] = e /\ \A i \in 1 .. Len(p) : q[i] = p[i]
             /\ \A i \in 1 .. Len(p) : Follows(p, i) => Follows(q, i)
<1>1. PICK q, T : q = Append(p, e) /\ T = Range(p) \cup {e}
  OBVIOUS
<1>2. p \in Seq(T) /\ e \in T
  <2>1. PICK A : p \in Seq(A) /\ A = Range(p)
    BY DEF IsVector
  <2>2. A \subseteq T
    BY <1>1, <2>1
  <2> QED
    BY <1>1, <2>1, <2>2
<1>3. /\ IsVector(q) /\ Len(q) = Len(p) + 1 /\ DOMAIN q = 1 .. Len(p) + 1
      /\ q[Len(p) + 1] = e /\ \A i \in 1 .. Len(p) : q[i] = p[i]
  BY <1>1, <1>2, Appended
<1>4. Len(p) \in Nat /\ DOMAIN p = 1 .. Len(p)
  BY VectorLen
<1>5. ASSUME NEW i \in 1 .. Len(p), Follows(p, i) PROVE Follows(q, i)
  <2>1. PICK k \in 1 .. i - 1 :
          /\ p[k].role = "assistant" /\ p[i].ids \subseteq p[k].ids
          /\ \A j \in k + 1 .. i - 1 : p[j].role = "tool" /\ p[j].ids # p[i].ids
    BY <1>5 DEF Follows
  <2>2. k \in 1 .. Len(p) /\ \A j \in k + 1 .. i - 1 : j \in 1 .. Len(p)
    BY <1>4
  <2>3. q[k] = p[k] /\ q[i] = p[i] /\ \A j \in k + 1 .. i - 1 : q[j] = p[j]
    BY <1>3, <2>2
  <2> QED
    BY <2>1, <2>3 DEF Follows
<1> QED
  BY <1>1, <1>3, <1>4, <1>5

(* A result that is sent follows its call.                                 *)
LEMMA AnsweredPaired ==
  ASSUME NEW acc, Paired(acc), NEW r
  PROVE  Paired(Answered(acc, r))
<1>1. CASE r \notin acc.pending
  BY <1>1 DEF Answered
<1>2. CASE r \in acc.pending
  <2>1. PICK p, w, e : p = acc.arr /\ w = acc.pending /\ e = [role |-> "tool", ids |-> {r}]
    OBVIOUS
  <2>2. PICK q, v, b : q = Append(p, e) /\ v = w \ {r} /\ b = [arr |-> q, pending |-> v]
    OBVIOUS
  <2>3. b = Answered(acc, r) /\ b.arr = q /\ b.pending = v
    BY <1>2, <2>1, <2>2 DEF Answered
  <2>4. /\ IsVector(p) /\ \A i \in DOMAIN p : p[i].role = "tool" => Follows(p, i)
        /\ r \in w
    BY <1>2, <2>1 DEF Paired
  <2>5. PICK k \in 1 .. Len(p) :
          /\ p[k].role = "assistant" /\ w \subseteq p[k].ids
          /\ \A j \in k + 1 .. Len(p) : p[j].role = "tool" /\ \A x \in w : p[j].ids # {x}
    <3>1. \E k \in 1 .. Len(p) : OpenedBy(p, k, w)
      BY <1>2, <2>1 DEF Paired, Awaited
    <3> QED
      BY <3>1 DEF OpenedBy
  <2>6. /\ IsVector(q) /\ Len(p) \in Nat /\ Len(q) = Len(p) + 1 /\ DOMAIN q = 1 .. Len(p) + 1
        /\ DOMAIN p = 1 .. Len(p)
        /\ q[Len(p) + 1] = e /\ \A i \in 1 .. Len(p) : q[i] = p[i]
        /\ \A i \in 1 .. Len(p) : Follows(p, i) => Follows(q, i)
    BY <2>2, <2>4, ItemAdded
  <2>7. PICK n : n = Len(p) + 1
    OBVIOUS
  <2>8. e.role = "tool" /\ e.ids = {r}
    BY <2>1
  <2>9. q[k] = p[k] /\ \A j \in k + 1 .. Len(p) : q[j] = p[j]
    BY <2>6
  <2>10. Follows(q, n)
    <3>1. k \in 1 .. n - 1 /\ n - 1 = Len(p)
      BY <2>6, <2>7
    <3>2. \A j \in k + 1 .. n - 1 : q[j].role = "tool" /\ q[j].ids # q[n].ids
      BY <2>4, <2>5, <2>6, <2>7, <2>8, <2>9, <3>1
    <3>3. q[k].role = "assistant" /\ q[n].ids \subseteq q[k].ids
      BY <2>4, <2>5, <2>6, <2>7, <2>8, <2>9
    <3> QED
      BY <3>1, <3>2, <3>3 DEF Follows
  <2>11. \A i \in DOMAIN q : q[i].role = "tool" => Follows(q, i)
    <3>1. SUFFICES ASSUME NEW i \in DOMAIN q, q[i].role = "tool" PROVE Follows(q, i)
      OBVIOUS
    <3>2. CASE i = n
      BY <2>10, <3>2
    <3>3. CASE i # n
      <4>1. i \in 1 .. Len(p) /\ q[i] = p[i]
        BY <2>6, <2>7, <3>3
      <4> QED
        BY <2>4, <2>6, <3>1, <4>1
    <3> QED
      BY <3>2, <3>3
  <2>12. Awaited(b)
    <3>1. k \in 1 .. Len(q)
      BY <2>6
    <3>2. ASSUME NEW j \in k + 1 .. Len(q)
          PROVE  q[j].role = "tool" /\ \A x \in v : q[j].ids # {x}
      <4>1. CASE j = n
        BY <2>2, <2>6, <2>7, <2>8, <4>1
      <4>2. CASE j # n
        <5>1. j \in k + 1 .. Len(p)
          BY <2>6, <2>7, <4>2
        <5> QED
          BY <2>2, <2>5, <2>9, <5>1
      <4> QED
        BY <4>1, <4>2
    <3>3. q[k].role = "assistant" /\ v \subseteq q[k].ids
      BY <2>2, <2>5, <2>9
    <3>4. OpenedBy(q, k, v)
      BY <3>2, <3>3 DEF OpenedBy
    <3> QED
      BY <2>3, <3>1, <3>4 DEF Awaited
  <2> QED
    BY <2>3, <2>6, <2>11, <2>12 DEF Paired
<1> QED
  BY <1>1, <1>2

(* An item that is no result ends what was waited for, or begins it.       *)
LEMMA OpenedPaired ==
  ASSUME NEW acc, Paired(acc), NEW e, e.role # "tool", NEW w,
         w # {} => e.role = "assistant" /\ w \subseteq e.ids
  PROVE  Paired([arr |-> Append(acc.arr, e), pending |-> w])
<1>1. PICK p, q, b : p = acc.arr /\ q = Append(p, e) /\ b = [arr |-> q, pending |-> w]
  OBVIOUS
<1>2. b.arr = q /\ b.pending = w
  BY <1>1
<1>3. IsVector(p) /\ \A i \in DOMAIN p : p[i].role = "tool" => Follows(p, i)
  BY <1>1 DEF Paired
<1>4. /\ IsVector(q) /\ Len(p) \in Nat /\ Len(q) = Len(p) + 1 /\ DOMAIN q = 1 .. Len(p) + 1
      /\ DOMAIN p = 1 .. Len(p)
      /\ q[Len(p) + 1] = e /\ \A i \in 1 .. Len(p) : q[i] = p[i]
      /\ \A i \in 1 .. Len(p) : Follows(p, i) => Follows(q, i)
  BY <1>1, <1>3, ItemAdded
<1>5. \A i \in DOMAIN q : q[i].role = "tool" => Follows(q, i)
  <2>1. SUFFICES ASSUME NEW i \in DOMAIN q, q[i].role = "tool" PROVE Follows(q, i)
    OBVIOUS
  <2>2. i # Len(p) + 1
    BY <1>4, <2>1
  <2>3. i \in 1 .. Len(p) /\ q[i] = p[i]
    BY <1>4, <2>2
  <2> QED
    BY <1>3, <1>4, <2>1, <2>3
<1>6. Awaited(b)
  <2>1. PICK k : k = Len(p) + 1 /\ k \in 1 .. Len(q) /\ k + 1 > Len(q)
    BY <1>4
  <2>2. k + 1 .. Len(q) = {}
    BY <1>4, <2>1
  <2>3. q[k] = e
    BY <1>4, <2>1
  <2>4. w # {} => OpenedBy(q, k, w)
    BY <2>2, <2>3 DEF OpenedBy
  <2> QED
    BY <1>2, <2>1, <2>4 DEF Awaited
<1> QED
  BY <1>1, <1>2, <1>4, <1>5, <1>6 DEF Paired

(* A message as it is replayed: only results are of the role tool.         *)
Replayed(m) == IsVector(m.results) /\ (m.role = "tool" => m.results # <<>>)

(* All of its results...                                                   *)
LEMMA AnsweredAllPaired ==
  ASSUME NEW acc, Paired(acc), NEW results, IsVector(results)
  PROVE  Paired(AnsweredAll(acc, results))
<1>1. PICK n : n = Len(results) /\ n \in Nat
  BY VectorLen
<1>2. PICK f : IsAnswering(f, acc, results) /\ AnsweredAll(acc, results) = f[n]
  BY <1>1, AnsweringIs
<1>3. f[0] = acc /\ \A j \in 1 .. n : f[j] = Answered(f[j - 1], results[j])
  BY <1>1, <1>2, AnsweringStep
<1> DEFINE S == {j \in Nat : j <= n => Paired(f[j])}
<1>4. 0 \in S
  BY <1>3
<1>5. ASSUME NEW j \in S PROVE j + 1 \in S
  <2>1. SUFFICES ASSUME j + 1 <= n PROVE Paired(f[j + 1])
    OBVIOUS
  <2>2. j + 1 \in 1 .. n /\ (j + 1) - 1 = j /\ Paired(f[j])
    BY <1>1, <2>1
  <2>3. PICK k : k = j + 1
    OBVIOUS
  <2>4. f[k] = Answered(f[j], results[k])
    BY <1>3, <2>2, <2>3
  <2> QED
    BY <2>2, <2>3, <2>4, AnsweredPaired
<1>6. S = Nat
  <2>1. S \in SUBSET Nat
    OBVIOUS
  <2> HIDE DEF S
  <2> QED
    BY <1>4, <1>5, <2>1, Induction
<1>7. Paired(f[n])
  BY <1>1, <1>6
<1> QED
  BY <1>2, <1>7

(* ... and any message.                                                    *)
LEMMA SerializedPaired ==
  ASSUME NEW acc, Paired(acc), NEW m, Replayed(m)
  PROVE  Paired(Serialized(acc, m))
<1>1. CASE m.results # <<>>
  BY <1>1, AnsweredAllPaired DEF Serialized, Replayed
<1>2. CASE m.results = <<>> /\ m.uses # <<>>
  <2>1. PICK e, w : /\ e = [role |-> "assistant", ids |-> UseIds(m)]
                    /\ w = UseIds(m) \ {<<"id", Blank>>}
    OBVIOUS
  <2>2. e.role = "assistant" /\ w \subseteq e.ids
    BY <2>1
  <2>3. Paired([arr |-> Append(acc.arr, e), pending |-> w])
    BY <2>2, OpenedPaired
  <2> QED
    BY <1>2, <2>1, <2>3 DEF Serialized
<1>3. CASE m.results = <<>> /\ ~ (m.uses # <<>>)
  <2>1. PICK e : e = [role |-> m.role, ids |-> {}]
    OBVIOUS
  <2>2. e.role # "tool"
    BY <1>3, <2>1 DEF Replayed
  <2>3. Paired([arr |-> Append(acc.arr, e), pending |-> {}])
    BY <2>2, OpenedPaired
  <2> QED
    BY <1>3, <2>1, <2>3 DEF Serialized
<1> QED
  BY <1>1, <1>2, <1>3

(* A whole history, message by message.                                    *)
IsSerializing(f, h, skipped) ==
  f = [i \in 0 .. Len(h) |->
         IF i = 0 THEN [arr |-> <<>>, pending |-> {}]
         ELSE IF h[i].role \in skipped THEN f[i - 1]
         ELSE Serialized(f[i - 1], h[i])]

LEMMA SerializingIs ==
  ASSUME NEW h, Len(h) \in Nat, NEW skipped
  PROVE  \E f : IsSerializing(f, h, skipped) /\ SerializeOpenAI(h, skipped) = f[Len(h)].arr
<1> DEFINE none == [arr |-> <<>>, pending |-> {}]
           Step(x, i) == IF h[i].role \in skipped THEN x ELSE Serialized(x, h[i])
           Upto(f, n) == f = [i \in 0 .. n |-> IF i = 0 THEN none ELSE Step(f[i - 1], i)]
           S == {n \in Nat : \E f : Upto(f, n)}
<1> HIDE DEF none, Step
<1>1. 0 \in S
  <2> DEFINE v == [i \in 0 .. 0 |-> none]
  <2>1. v = [i \in 0 .. 0 |-> IF i = 0 THEN none ELSE Step(v[i - 1], i)]
    OBVIOUS
  <2> QED
    BY <2>1
<1>2. ASSUME NEW n \in S PROVE n + 1 \in S
  <2>1. n \in Nat /\ n + 1 \in Nat
    OBVIOUS
  <2>2. PICK f : Upto(f, n)
    OBVIOUS
  <2> DEFINE H(i) == IF i = 0 THEN none ELSE Step(f[i - 1], i)
  <2>3. \A i \in 0 .. n : f[i] = H(i)
    <3>1. f = [i \in 0 .. n |-> H(i)]
      BY <2>2
    <3> HIDE DEF H
    <3> QED
      BY <3>1
  <2>4. PICK v : v = [i \in 0 .. n + 1 |-> H(i)]
    OBVIOUS
  <2>5. \A i \in 0 .. n + 1 : v[i] = H(i)
    <3> HIDE DEF H
    <3> QED
      BY <2>4
  <2>6. \A i \in 0 .. n + 1 : i # 0 => v[i - 1] = f[i - 1]
    <3>1. \A i \in 0 .. n + 1 : i # 0 => i - 1 \in 0 .. n /\ i - 1 \in 0 .. n + 1
      BY <2>1
    <3> HIDE DEF H
    <3> QED
      BY <2>3, <2>5, <3>1
  <2>7. \A i \in 0 .. n + 1 : H(i) = IF i = 0 THEN none ELSE Step(v[i - 1], i)
    BY <2>6
  <2>8. v = [i \in 0 .. n + 1 |-> IF i = 0 THEN none ELSE Step(v[i - 1], i)]
    <3> HIDE DEF H
    <3> QED
      BY <2>4, <2>7
  <2> QED
    BY <2>1, <2>8
<1>3. S = Nat
  <2>1. S \in SUBSET Nat
    OBVIOUS
  <2> HIDE DEF S
  <2> QED
    BY <1>1, <1>2, <2>1, Induction
<1>4. \E f : Upto(f, Len(h))
  BY <1>3
<1>5. PICK f : Upto(f, Len(h)) /\ f = CHOOSE g : Upto(g, Len(h))
  BY <1>4
<1>6. IsSerializing(f, h, skipped)
  BY <1>5 DEF IsSerializing, none, Step
<1>7. f = CHOOSE g : IsSerializing(g, h, skipped)
  BY <1>5 DEF IsSerializing, none, Step
<1>8. SerializeOpenAI(h, skipped) = (CHOOSE g : IsSerializing(g, h, skipped))[Len(h)].arr
  BY DEF SerializeOpenAI, IsSerializing
<1> QED
  BY <1>6, <1>7, <1>8

(* What is sent of a history is paired.                                    *)
LEMMA SerializePaired ==
  ASSUME NEW h, IsVector(h), \A i \in DOMAIN h : Replayed(h[i]), NEW skipped
  PROVE  LET p == SerializeOpenAI(h, skipped)
         IN  \A i \in DOMAIN p : p[i].role = "tool" => Follows(p, i)
<1>1. PICK n : n = Len(h) /\ n \in Nat /\ DOMAIN h = 1 .. n
  BY VectorLen
<1>2. PICK f : IsSerializing(f, h, skipped) /\ SerializeOpenAI(h, skipped) = f[n].arr
  BY <1>1, SerializingIs
<1> DEFINE H(i) == IF i = 0 THEN [arr |-> <<>>, pending |-> {}]
                   ELSE IF h[i].role \in skipped THEN f[i - 1]
                   ELSE Serialized(f[i - 1], h[i])
<1>3. \A i \in 0 .. n : f[i] = H(i)
  <2>1. f = [i \in 0 .. n |-> H(i)]
    BY <1>1, <1>2 DEF IsSerializing
  <2> HIDE DEF H
  <2> QED
    BY <2>1
<1> DEFINE S == {i \in Nat : i <= n => Paired(f[i])}
<1>4. 0 \in S
  <2>1. PICK b : b = [arr |-> <<>>, pending |-> {}]
    OBVIOUS
  <2>2. b.arr = <<>> /\ b.pending = {}
    BY <2>1
  <2>3. Paired(b)
    BY <2>2, NoTexts DEF Paired, Awaited
  <2>4. f[0] = b
    BY <1>1, <1>3, <2>1
  <2> QED
    BY <2>3, <2>4
<1>5. ASSUME NEW i \in S PROVE i + 1 \in S
  <2>1. SUFFICES ASSUME i + 1 <= n PROVE Paired(f[i + 1])
    OBVIOUS
  <2>2. /\ i + 1 \in 0 .. n /\ i + 1 \in DOMAIN h /\ (i + 1) - 1 = i /\ i + 1 # 0
        /\ Paired(f[i])
    BY <1>1, <2>1
  <2>3. PICK k : k = i + 1
    OBVIOUS
  <2>4. f[k] = IF h[k].role \in skipped THEN f[i] ELSE Serialized(f[i], h[k])
    BY <1>3, <2>2, <2>3
  <2>5. Paired(Serialized(f[i], h[k]))
    BY <2>2, <2>3, SerializedPaired
  <2> QED
    BY <2>2, <2>3, <2>4, <2>5
<1>6. S = Nat
  <2>1. S \in SUBSET Nat
    OBVIOUS
  <2> HIDE DEF S
  <2> QED
    BY <1>4, <1>5, <2>1, Induction
<1>7. Paired(f[n])
  BY <1>1, <1>6
<1> QED
  BY <1>2, <1>7 DEF Paired

(* What a provider makes of a history before that leaves its messages what  *)
(* they are.                                                               *)
LEMMA ReplayedAll ==
  ASSUME NEW h \in Histories
  PROVE  /\ IsVector(h) /\ Len(h) \in Nat /\ DOMAIN h = 1 .. Len(h)
         /\ \A i \in DOMAIN h :
              Replayed(h[i]) /\ DOMAIN h[i] = {"role", "text", "uses", "results"}
<1>1. IsVector(h) /\ Len(h) \in Nat /\ DOMAIN h = 1 .. Len(h)
  BY ProvidersAssumption, VectorLen DEF IsVector
<1>2. ASSUME NEW i \in DOMAIN h
      PROVE  Replayed(h[i]) /\ DOMAIN h[i] = {"role", "text", "uses", "results"}
  <2>1. PICK m : m = h[i] /\ m \in Range(h)
    BY DEF Range
  <2>2. /\ DOMAIN m = {"role", "text", "uses", "results"}
        /\ m.results \in Seq(Range(m.results)) /\ (m.role = "tool" => m.results # <<>>)
    BY <2>1, ProvidersAssumption
  <2> QED
    BY <2>1, <2>2 DEF Replayed, IsVector
<1> QED
  BY <1>1, <1>2

(* A message with other calls in it.                                       *)
LEMMA OtherUses ==
  ASSUME NEW m, DOMAIN m = {"role", "text", "uses", "results"}, Replayed(m), NEW u
  PROVE  Replayed([m EXCEPT !.uses = u])
<1>1. PICK v : v = [m EXCEPT !.uses = u]
  OBVIOUS
<1>2. v.role = m.role /\ v.results = m.results
  BY <1>1
<1> QED
  BY <1>1, <1>2 DEF Replayed

(* A history with other messages in it.                                    *)
LEMMA Mapped ==
  ASSUME NEW h, NEW v, Len(h) \in Nat, DOMAIN h = 1 .. Len(h), DOMAIN v = DOMAIN h,
         v = [i \in DOMAIN h |-> v[i]]
  PROVE  IsVector(v)
BY VectorFrom

(* The OpenAI API gets paired results...                                   *)
LEMMA OpenAIPaired ==
  ASSUME NEW h \in Histories
  PROVE  LET p == OpenAIPayload(h)
         IN  \A i \in DOMAIN p : p[i].role = "tool" => Follows(p, i)
<1>1. PICK v : v = [i \in DOMAIN h |-> SanitizeReplay(h[i])]
  OBVIOUS
<1>2. DOMAIN v = DOMAIN h /\ \A i \in DOMAIN h : v[i] = SanitizeReplay(h[i])
  BY <1>1
<1>3. IsVector(v)
  <2>1. v = [i \in DOMAIN h |-> v[i]]
    BY <1>1
  <2> QED
    BY <1>2, <2>1, Mapped, ReplayedAll
<1>4. ASSUME NEW i \in DOMAIN h PROVE Replayed(v[i])
  <2>1. PICK m : m = h[i]
    OBVIOUS
  <2>2. Replayed(m) /\ DOMAIN m = {"role", "text", "uses", "results"}
    BY <2>1, ReplayedAll
  <2>3. \E u : SanitizeReplay(m) = m \/ SanitizeReplay(m) = [m EXCEPT !.uses = u]
    BY DEF SanitizeReplay
  <2> QED
    BY <1>2, <2>1, <2>2, <2>3, OtherUses
<1>5. OpenAIPayload(h) = SerializeOpenAI(v, {})
  BY <1>1 DEF OpenAIPayload
<1> QED
  BY <1>2, <1>3, <1>4, <1>5, SerializePaired

(* ... and so does Codex.                                                  *)
LEMMA CodexPaired ==
  ASSUME NEW h \in Histories
  PROVE  LET p == CodexPayload(h)
         IN  \A i \in DOMAIN p : p[i].role = "tool" => Follows(p, i)
<1> DEFINE u(i) == CodexUses(h[i].uses)
<1>1. PICK v : v = [i \in DOMAIN h |-> [h[i] EXCEPT !.uses = u(i)]]
  OBVIOUS
<1>2. CodexPayload(h) = SerializeOpenAI(v, {"system"})
  BY <1>1 DEF CodexPayload
<1> HIDE DEF u
<1>3. DOMAIN v = DOMAIN h /\ \A i \in DOMAIN h : v[i] = [h[i] EXCEPT !.uses = u(i)]
  BY <1>1
<1>4. IsVector(v)
  <2>1. v = [i \in DOMAIN h |-> v[i]]
    BY <1>1
  <2> QED
    BY <1>3, <2>1, Mapped, ReplayedAll
<1>5. ASSUME NEW i \in DOMAIN h PROVE Replayed(v[i])
  <2>1. PICK m, x : m = h[i] /\ x = u(i)
    OBVIOUS
  <2>2. Replayed(m) /\ DOMAIN m = {"role", "text", "uses", "results"}
    BY <2>1, ReplayedAll
  <2>3. v[i] = [m EXCEPT !.uses = x]
    BY <1>3, <2>1
  <2> QED
    BY <2>2, <2>3, OtherUses
<1> QED
  BY <1>2, <1>3, <1>4, <1>5, SerializePaired

-----------------------------------------------------------------------------
(***************************************************************************)
(* Providers: what is streamed.                                            *)
(***************************************************************************)
(* The fields of a stream, with others for the answer so far.              *)
With(s, p, q, o, t) ==
  [provider |-> s.provider, lines |-> s.lines, wire |-> s.wire, buffer |-> s.buffer,
   pending |-> p, seen |-> q, out |-> o, thrown |-> t, whole |-> s.whole, result |-> s.result]

IsStream(s) == s = With(s, s.pending, s.seen, s.out, s.thrown)

(* Two streams with the same answer so far.                                *)
SameAnswer(s, t) ==
  /\ s.provider = t.provider /\ s.lines = t.lines /\ s.pending = t.pending
  /\ s.seen = t.seen /\ s.out = t.out /\ s.thrown = t.thrown

(* One step for both.                                                      *)
SameStep(s, t, x, y) ==
  \E p, q, o, e : x = With(s, p, q, o, e) /\ y = With(t, p, q, o, e)

(* What is emitted is added to the answer.                                 *)
LEMMA EmitWith ==
  ASSUME NEW s, NEW p, NEW q, NEW o, NEW t, NEW e
  PROVE  Emit(With(s, p, q, o, t), e) = With(s, p, q, Append(o, e), t)
BY DEF Emit, With

(* Calls are emitted, if there are any.                                    *)
LEMMA EmitCallsWith ==
  ASSUME NEW s, NEW p, NEW q, NEW o, NEW t, NEW calls
  PROVE  EmitCalls(With(s, p, q, o, t), calls)
           = With(s, p, q, IF calls = <<>> THEN o
                           ELSE Append(o, [type |-> "calls", calls |-> calls]), t)
<1>1. CASE calls = <<>>
  BY <1>1 DEF EmitCalls
<1>2. CASE calls # <<>>
  BY <1>2, EmitWith DEF EmitCalls
<1> QED
  BY <1>1, <1>2

(* The other changes of a stream.                                          *)
LEMMA ChangeWith ==
  ASSUME NEW s, IsStream(s), NEW p, NEW q
  PROVE  /\ s = With(s, s.pending, s.seen, s.out, s.thrown)
         /\ [s EXCEPT !.pending = p] = With(s, p, s.seen, s.out, s.thrown)
         /\ [s EXCEPT !.pending = p, !.seen = q] = With(s, p, q, s.out, s.thrown)
         /\ [s EXCEPT !.thrown = TRUE] = With(s, s.pending, s.seen, s.out, TRUE)
<1>1. PICK a, b, c, d : a = s.pending /\ b = s.seen /\ c = s.out /\ d = s.thrown
  OBVIOUS
<1>2. PICK v : v = With(s, a, b, c, d) /\ v = s
  BY <1>1 DEF IsStream
<1>3. [v EXCEPT !.pending = p] = With(s, p, b, c, d)
  BY <1>2 DEF With
<1>4. PICK w : w = With(s, p, b, c, d)
  OBVIOUS
<1>5. [w EXCEPT !.seen = q] = With(s, p, q, c, d)
  BY <1>4 DEF With
<1>6. [v EXCEPT !.pending = p, !.seen = q] = [w EXCEPT !.seen = q]
  BY <1>3, <1>4
<1>7. [v EXCEPT !.thrown = TRUE] = With(s, a, b, c, TRUE)
  <2>1. PICK e : e = TRUE
    OBVIOUS
  <2>2. [v EXCEPT !.thrown = e] = With(s, a, b, c, e)
    BY <1>2 DEF With
  <2>3. [v EXCEPT !.thrown = e] = [v EXCEPT !.thrown = TRUE]
    BY Zenon, <2>1
  <2> QED
    BY <2>1, <2>2, <2>3
<1> QED
  BY <1>1, <1>2, <1>3, <1>5, <1>6, <1>7

(* A stream and what of it a line of the OpenAI API looks at.              *)
Looks(x, p, q, o, e, f, c) ==
  /\ IsStream(x) /\ x.pending = p /\ x.seen = q /\ x.out = o /\ x.thrown = e
  /\ f = FinalizePendingToolCalls(p, q) /\ c = f.calls

More(o, c) == IF c = <<>> THEN o ELSE Append(o, [type |-> "calls", calls |-> c])

(* What the line makes of it.                                              *)
Says(x, y, l, p, q, o, e, f, c) ==
  /\ l.type = "text" => y = With(x, p, q, Append(o, [type |-> "text", calls |-> <<>>]), e)
  /\ l.type = "call" => y = With(x, AddFragment(p, l), q, o, e)
  /\ l.type = "finish" => y = With(x, f.rest, f.seen, More(o, c), e)
  /\ l.type = "end" =>
       y = With(x, <<>>, f.seen, Append(More(o, c), [type |-> "end", calls |-> <<>>]), e)
  /\ l.type \notin {"text", "call", "finish", "end"} => y = With(x, p, q, o, e)

(* A line of the OpenAI API, field by field.                               *)
LEMMA OpenAISays ==
  ASSUME NEW x, NEW l, NEW p, NEW q, NEW o, NEW e, NEW f, NEW c, Looks(x, p, q, o, e, f, c)
  PROVE  Says(x, OpenAILine(x, l), l, p, q, o, e, f, c)
<1>1. /\ IsStream(x) /\ x.pending = p /\ x.seen = q /\ x.out = o /\ x.thrown = e
      /\ f = FinalizePendingToolCalls(p, q) /\ c = f.calls
  BY DEF Looks
<1>2. x = With(x, p, q, o, e)
  BY <1>1, ChangeWith
<1>3. CASE l.type = "text"
  <2>1. OpenAILine(x, l) = Emit(x, [type |-> "text", calls |-> <<>>])
    BY <1>3 DEF OpenAILine
  <2> QED
    BY <1>2, <1>3, <2>1, EmitWith DEF Says
<1>4. CASE l.type = "call"
  <2>1. PICK u : u = AddFragment(p, l)
    OBVIOUS
  <2>2. OpenAILine(x, l) = [x EXCEPT !.pending = u]
    BY <1>1, <1>4, <2>1 DEF OpenAILine
  <2>3. [x EXCEPT !.pending = u] = With(x, u, q, o, e)
    BY <1>1, ChangeWith
  <2> QED
    BY <1>4, <2>1, <2>2, <2>3 DEF Says
<1>5. [x EXCEPT !.pending = f.rest, !.seen = f.seen] = With(x, f.rest, f.seen, o, e)
  <2>1. PICK u, w : u = f.rest /\ w = f.seen
    OBVIOUS
  <2>2. [x EXCEPT !.pending = u, !.seen = w] = With(x, u, w, x.out, x.thrown)
    <3> IsStream(x)
      BY <1>1
    <3> QED
      BY ONLY IsStream(x), ChangeWith
  <2> QED
    BY <1>1, <2>1, <2>2
<1>6. [x EXCEPT !.pending = <<>>, !.seen = f.seen] = With(x, <<>>, f.seen, o, e)
  <2>1. PICK u, w : u = <<>> /\ w = f.seen
    OBVIOUS
  <2>2. [x EXCEPT !.pending = u, !.seen = w] = With(x, u, w, x.out, x.thrown)
    <3> IsStream(x)
      BY <1>1
    <3> QED
      BY ONLY IsStream(x), ChangeWith
  <2> QED
    BY <1>1, <2>1, <2>2
<1>7. CASE l.type = "finish"
  <2>1. OpenAILine(x, l) = EmitCalls([x EXCEPT !.pending = f.rest, !.seen = f.seen], c)
    BY <1>1, <1>7 DEF OpenAILine
  <2>2. OpenAILine(x, l) = With(x, f.rest, f.seen, More(o, c), e)
    BY <1>5, <2>1, EmitCallsWith DEF More
  <2> QED
    BY <1>7, <2>2 DEF Says
<1>8. CASE l.type = "end"
  <2>1. OpenAILine(x, l) = Emit(EmitCalls([x EXCEPT !.pending = <<>>, !.seen = f.seen], c),
                                [type |-> "end", calls |-> <<>>])
    BY <1>1, <1>8 DEF OpenAILine
  <2>2. EmitCalls([x EXCEPT !.pending = <<>>, !.seen = f.seen], c) = With(x, <<>>, f.seen, More(o, c), e)
    BY <1>6, EmitCallsWith DEF More
  <2> QED
    BY <1>8, <2>1, <2>2, EmitWith DEF Says
<1>9. CASE l.type \notin {"text", "call", "finish", "end"}
  <2>1. OpenAILine(x, l) = x
    BY <1>9 DEF OpenAILine
  <2> QED
    BY <1>2, <1>9, <2>1 DEF Says
<1> QED
  BY <1>3, <1>4, <1>7, <1>8, <1>9

(* A line of the OpenAI API...                                             *)
LEMMA OpenAISame ==
  ASSUME NEW s, IsStream(s), NEW t, IsStream(t), SameAnswer(s, t), NEW l
  PROVE  SameStep(s, t, OpenAILine(s, l), OpenAILine(t, l))
<1>1. PICK p, q, o, e, f, c :
        /\ p = s.pending /\ q = s.seen /\ o = s.out /\ e = s.thrown
        /\ f = FinalizePendingToolCalls(p, q) /\ c = f.calls
  OBVIOUS
<1>2. Looks(s, p, q, o, e, f, c) /\ Looks(t, p, q, o, e, f, c)
  BY <1>1 DEF SameAnswer, Looks
<1>3. PICK x, y : x = OpenAILine(s, l) /\ y = OpenAILine(t, l)
  OBVIOUS
<1>4. Says(s, x, l, p, q, o, e, f, c) /\ Says(t, y, l, p, q, o, e, f, c)
  BY <1>2, <1>3, OpenAISays
<1> QED
  BY <1>3, <1>4 DEF Says, SameStep

(* ... of the Anthropic API...                                             *)
LEMMA AnthropicSame ==
  ASSUME NEW s, IsStream(s), NEW t, IsStream(t), SameAnswer(s, t), NEW l
  PROVE  SameStep(s, t, AnthropicLine(s, l), AnthropicLine(t, l))
<1>1. PICK p, q, o, e : p = s.pending /\ q = s.seen /\ o = s.out /\ e = s.thrown
  OBVIOUS
<1>2. s = With(s, p, q, o, e) /\ t = With(t, p, q, o, e) /\ t.pending = p /\ t.seen = q
      /\ t.out = o /\ t.thrown = e
  BY <1>1 DEF IsStream, SameAnswer
<1>3. PICK c : c = [i \in DOMAIN p |-> [id |-> <<"id", p[i].id>>, name |-> p[i].name.self,
                                        index |-> p[i].index]]
  OBVIOUS
<1>4. PICK opened : opened = Append(p, [NoFragment(l.index) EXCEPT !.id = l.id, !.name = l.name])
  OBVIOUS
<1> DEFINE more == IF c = <<>> THEN o ELSE Append(o, [type |-> "calls", calls |-> c])
           Good(x) == IsStream(x) /\ x.pending = p /\ x.seen = q /\ x.out = o /\ x.thrown = e
<1>5. Good(s) /\ Good(t)
  BY <1>1, <1>2
<1>6. ASSUME NEW x, Good(x)
      PROVE  /\ l.type = "text" =>
                  AnthropicLine(x, l) = With(x, p, q, Append(o, [type |-> "text", calls |-> <<>>]), e)
             /\ l.type = "open" => AnthropicLine(x, l) = With(x, opened, q, o, e)
             /\ l.type = "call" /\ p = <<>> => AnthropicLine(x, l) = With(x, p, q, o, e)
             /\ l.type = "call" /\ p # <<>> =>
                  AnthropicLine(x, l) = With(x, AddArguments(p, l.args), q, o, e)
             /\ l.type = "end" =>
                  AnthropicLine(x, l)
                    = With(x, <<>>, q, Append(more, [type |-> "end", calls |-> <<>>]), e)
             /\ l.type \notin {"text", "open", "call", "end"} =>
                  AnthropicLine(x, l) = With(x, p, q, o, e)
  <2>1. x = With(x, p, q, o, e)
    BY <1>6, ChangeWith
  <2>2. CASE l.type = "text"
    <3>1. AnthropicLine(x, l) = Emit(x, [type |-> "text", calls |-> <<>>])
      BY <2>2 DEF AnthropicLine
    <3> QED
      BY <2>1, <2>2, <3>1, EmitWith
  <2>3. CASE l.type = "open"
    <3>1. AnthropicLine(x, l) = [x EXCEPT !.pending = opened]
      BY <1>4, <1>6, <2>3 DEF AnthropicLine
    <3>2. [x EXCEPT !.pending = opened] = With(x, opened, q, o, e)
      BY <1>6, ChangeWith
    <3> QED
      BY <2>3, <3>1, <3>2
  <2>4. CASE l.type = "call" /\ p = <<>>
    <3>1. AnthropicLine(x, l) = x
      BY <1>6, <2>4 DEF AnthropicLine
    <3> QED
      BY <2>1, <2>4, <3>1
  <2>5. CASE l.type = "call" /\ p # <<>>
    <3>1. PICK u : u = AddArguments(p, l.args)
      OBVIOUS
    <3>2. AnthropicLine(x, l) = [x EXCEPT !.pending = u]
      BY <1>6, <2>5, <3>1 DEF AnthropicLine
    <3>3. [x EXCEPT !.pending = u] = With(x, u, q, o, e)
      BY <1>6, ChangeWith
    <3> QED
      BY <2>5, <3>1, <3>2, <3>3
  <2>6. CASE l.type = "end"
    <3>1. AnthropicLine(x, l) = Emit(EmitCalls([x EXCEPT !.pending = <<>>], c),
                                     [type |-> "end", calls |-> <<>>])
      BY <1>3, <1>6, <2>6 DEF AnthropicLine
    <3>2. [x EXCEPT !.pending = <<>>] = With(x, <<>>, q, o, e)
      <4>1. PICK u : u = <<>>
        OBVIOUS
      <4>2. [x EXCEPT !.pending = u] = With(x, u, q, o, e)
        BY <1>6, ChangeWith
      <4> QED
        BY <4>1, <4>2
    <3>3. EmitCalls([x EXCEPT !.pending = <<>>], c) = With(x, <<>>, q, more, e)
      BY <3>2, EmitCallsWith
    <3> HIDE DEF more
    <3> QED
      BY <2>6, <3>1, <3>3, EmitWith
  <2>7. CASE l.type \notin {"text", "open", "call", "end"}
    <3>1. AnthropicLine(x, l) = x
      BY <2>7 DEF AnthropicLine
    <3> QED
      BY <2>1, <2>7, <3>1
  <2> QED
    BY <2>2, <2>3, <2>4, <2>5, <2>6, <2>7
<1> HIDE DEF more, Good
<1> QED
  BY <1>5, <1>6 DEF SameStep

(* ... and of Codex.                                                       *)
LEMMA CodexSame ==
  ASSUME NEW s, IsStream(s), NEW t, IsStream(t), SameAnswer(s, t), NEW l
  PROVE  SameStep(s, t, CodexEvent(s, l), CodexEvent(t, l))
<1>1. PICK p, q, o, e : p = s.pending /\ q = s.seen /\ o = s.out /\ e = s.thrown
  OBVIOUS
<1>2. s = With(s, p, q, o, e) /\ t = With(t, p, q, o, e) /\ t.pending = p /\ t.seen = q
      /\ t.out = o /\ t.thrown = e
  BY <1>1 DEF IsStream, SameAnswer
<1>3. PICK opened : opened = Append(p, [NoFragment(l.index) EXCEPT !.id = l.id, !.name = l.name])
  OBVIOUS
<1>4. PICK rest, told : rest = CallsLeft(p, l) /\ told = [type |-> "calls", calls |-> <<CallDone(p, l)>>]
  OBVIOUS
<1> DEFINE Good(x) == IsStream(x) /\ x.pending = p /\ x.seen = q /\ x.out = o /\ x.thrown = e
<1>5. Good(s) /\ Good(t)
  BY <1>1, <1>2
<1>6. ASSUME NEW x, Good(x)
      PROVE  /\ l.type = "text" =>
                  CodexEvent(x, l) = With(x, p, q, Append(o, [type |-> "text", calls |-> <<>>]), e)
             /\ l.type = "open" => CodexEvent(x, l) = With(x, opened, q, o, e)
             /\ l.type = "call" => CodexEvent(x, l) = With(x, rest, q, Append(o, told), e)
             /\ l.type = "end" =>
                  CodexEvent(x, l) = With(x, p, q, Append(o, [type |-> "end", calls |-> <<>>]), e)
             /\ l.type = "error" => CodexEvent(x, l) = With(x, p, q, o, TRUE)
             /\ l.type \notin {"text", "open", "call", "end", "error"} =>
                  CodexEvent(x, l) = With(x, p, q, o, e)
  <2>1. x = With(x, p, q, o, e)
    BY <1>6, ChangeWith
  <2>2. CASE l.type = "text"
    <3>1. CodexEvent(x, l) = Emit(x, [type |-> "text", calls |-> <<>>])
      BY <2>2 DEF CodexEvent
    <3> QED
      BY <2>1, <2>2, <3>1, EmitWith
  <2>3. CASE l.type = "open"
    <3>1. CodexEvent(x, l) = [x EXCEPT !.pending = opened]
      BY <1>3, <1>6, <2>3 DEF CodexEvent
    <3>2. [x EXCEPT !.pending = opened] = With(x, opened, q, o, e)
      BY <1>6, ChangeWith
    <3> QED
      BY <2>3, <3>1, <3>2
  <2>4. CASE l.type = "call"
    <3>1. CodexEvent(x, l) = Emit([x EXCEPT !.pending = rest], told)
      BY <1>4, <1>6, <2>4 DEF CodexEvent
    <3>2. [x EXCEPT !.pending = rest] = With(x, rest, q, o, e)
      BY <1>6, ChangeWith
    <3> QED
      BY <2>4, <3>1, <3>2, EmitWith
  <2>5. CASE l.type = "end"
    <3>1. CodexEvent(x, l) = Emit(x, [type |-> "end", calls |-> <<>>])
      BY <2>5 DEF CodexEvent
    <3> QED
      BY <2>1, <2>5, <3>1, EmitWith
  <2>6. CASE l.type = "error"
    <3>1. CodexEvent(x, l) = [x EXCEPT !.thrown = TRUE]
      BY <2>6 DEF CodexEvent
    <3>2. [x EXCEPT !.thrown = TRUE] = With(x, p, q, o, TRUE)
      BY <1>6, ChangeWith
    <3> QED
      BY <2>6, <3>1, <3>2
  <2>7. CASE l.type \notin {"text", "open", "call", "end", "error"}
    <3>1. CodexEvent(x, l) = x
      BY <2>7 DEF CodexEvent
    <3> QED
      BY <2>1, <2>7, <3>1
  <2> QED
    BY <2>2, <2>3, <2>4, <2>5, <2>6, <2>7
<1> HIDE DEF Good
<1> QED
  BY <1>5, <1>6 DEF SameStep

(* ... so a line says the same whatever the stream has received.           *)
LEMMA LineSame ==
  ASSUME NEW s, IsStream(s), NEW t, IsStream(t), SameAnswer(s, t), NEW l,
         s.provider \in {"openai", "anthropic", "codex"}
  PROVE  SameStep(s, t, Line(s, l), Line(t, l))
<1>1. t.provider = s.provider
  BY DEF SameAnswer
<1>2. CASE s.provider = "openai"
  BY <1>1, <1>2, OpenAISame DEF Line
<1>3. CASE s.provider = "anthropic"
  BY <1>1, <1>3, AnthropicSame DEF Line
<1>4. CASE s.provider = "codex"
  BY <1>1, <1>4, CodexSame DEF Line
<1> QED
  BY <1>2, <1>3, <1>4

(* A line that is handled, unless one before it threw...                   *)
Step(x, l) == IF x.thrown THEN x ELSE Line(x, l)

(* ... and what it leaves alone.                                           *)
Kept(s, x) ==
  /\ IsStream(x) /\ x.provider = s.provider /\ x.lines = s.lines /\ x.wire = s.wire
  /\ x.buffer = s.buffer /\ x.whole = s.whole /\ x.result = s.result

(* One step for two streams keeps them alike.                              *)
LEMMA SameStepKeeps ==
  ASSUME NEW s, NEW t, NEW x, NEW y, s.provider = t.provider, s.lines = t.lines,
         SameStep(s, t, x, y)
  PROVE  Kept(s, x) /\ Kept(t, y) /\ SameAnswer(x, y)
<1>1. PICK p, q, o, e : x = With(s, p, q, o, e) /\ y = With(t, p, q, o, e)
  BY DEF SameStep
<1>2. /\ x.pending = p /\ x.seen = q /\ x.out = o /\ x.thrown = e
      /\ x.provider = s.provider /\ x.lines = s.lines /\ x.wire = s.wire
      /\ x.buffer = s.buffer /\ x.whole = s.whole /\ x.result = s.result
  BY <1>1 DEF With
<1>3. /\ y.pending = p /\ y.seen = q /\ y.out = o /\ y.thrown = e
      /\ y.provider = t.provider /\ y.lines = t.lines /\ y.wire = t.wire
      /\ y.buffer = t.buffer /\ y.whole = t.whole /\ y.result = t.result
  BY <1>1 DEF With
<1>4. IsStream(x)
  <2>1. With(s, p, q, o, e) = With(x, p, q, o, e)
    BY <1>2 DEF With
  <2> QED
    BY <1>1, <1>2, <2>1 DEF IsStream
<1>5. IsStream(y)
  <2>1. With(t, p, q, o, e) = With(y, p, q, o, e)
    BY <1>3 DEF With
  <2> QED
    BY <1>1, <1>3, <2>1 DEF IsStream
<1> QED
  BY <1>2, <1>3, <1>4, <1>5 DEF Kept, SameAnswer

(* A line handled by two streams alike leaves them alike.                  *)
LEMMA StepSame ==
  ASSUME NEW s, IsStream(s), NEW t, IsStream(t), SameAnswer(s, t), NEW l,
         s.provider \in {"openai", "anthropic", "codex"}
  PROVE  /\ Kept(s, Step(s, l)) /\ Kept(t, Step(t, l))
         /\ SameAnswer(Step(s, l), Step(t, l))
<1>1. t.thrown = s.thrown /\ t.provider = s.provider /\ t.lines = s.lines
  BY DEF SameAnswer
<1>2. CASE s.thrown
  <2>1. Step(s, l) = s /\ Step(t, l) = t
    BY <1>1, <1>2 DEF Step
  <2> QED
    BY <2>1 DEF Kept
<1>3. CASE ~ s.thrown
  <2>1. PICK x, y : x = Line(s, l) /\ y = Line(t, l)
    OBVIOUS
  <2>2. SameStep(s, t, x, y)
    BY <2>1, LineSame
  <2>3. Kept(s, x) /\ Kept(t, y) /\ SameAnswer(x, y)
    BY <1>1, <2>2, SameStepKeeps
  <2>4. Step(s, l) = x /\ Step(t, l) = y
    BY <1>1, <1>3, <2>1 DEF Step
  <2> QED
    BY <2>3, <2>4
<1> QED
  BY <1>2, <1>3

(* The streams that come of handling the lines after a up to b.            *)
Handles(f, lines, a, b) == \A i \in a + 1 .. b : f[i] = Step(f[i - 1], lines[i])

CanHandle(s, a, b) == \E f : f[a] = s /\ Handles(f, s.lines, a, b) /\ Handled(s, a, b) = f[b]

(* The lines can be handled, and what is handled is the last of them.      *)
LEMMA HandlingIs ==
  ASSUME NEW s, NEW a \in Nat, NEW b \in Nat, a <= b
  PROVE  CanHandle(s, a, b)
<1> DEFINE Upto(f, n) == f = [i \in a .. a + n |->
                                IF i = a THEN s ELSE IF f[i - 1].thrown THEN f[i - 1]
                                ELSE Line(f[i - 1], s.lines[i])]
           S == {n \in Nat : \E f : Upto(f, n)}
<1>1. 0 \in S
  <2> DEFINE v == [i \in a .. a + 0 |-> s]
  <2>1. \A i \in a .. a + 0 : i = a
    OBVIOUS
  <2>2. v = [i \in a .. a + 0 |-> IF i = a THEN s ELSE IF v[i - 1].thrown THEN v[i - 1]
                                  ELSE Line(v[i - 1], s.lines[i])]
    BY <2>1
  <2> QED
    BY <2>2
<1>2. ASSUME NEW n \in S PROVE n + 1 \in S
  <2>1. n \in Nat /\ n + 1 \in Nat
    OBVIOUS
  <2>2. PICK f : Upto(f, n)
    OBVIOUS
  <2> DEFINE H(i) == IF i = a THEN s ELSE IF f[i - 1].thrown THEN f[i - 1]
                     ELSE Line(f[i - 1], s.lines[i])
  <2>3. \A i \in a .. a + n : f[i] = H(i)
    <3>1. f = [i \in a .. a + n |-> H(i)]
      BY <2>2
    <3> HIDE DEF H
    <3> QED
      BY <3>1
  <2>4. PICK v : v = [i \in a .. a + (n + 1) |-> H(i)]
    OBVIOUS
  <2>5. \A i \in a .. a + (n + 1) : v[i] = H(i)
    <3> HIDE DEF H
    <3> QED
      BY <2>4
  <2>6. \A i \in a .. a + (n + 1) : i # a => v[i - 1] = f[i - 1]
    <3>1. \A i \in a .. a + (n + 1) : i # a => i - 1 \in a .. a + n /\ i - 1 \in a .. a + (n + 1)
      BY <2>1
    <3> HIDE DEF H
    <3> QED
      BY <2>3, <2>5, <3>1
  <2>7. \A i \in a .. a + (n + 1) :
          H(i) = IF i = a THEN s ELSE IF v[i - 1].thrown THEN v[i - 1] ELSE Line(v[i - 1], s.lines[i])
    BY <2>6
  <2>8. v = [i \in a .. a + (n + 1) |-> IF i = a THEN s ELSE IF v[i - 1].thrown THEN v[i - 1]
                                        ELSE Line(v[i - 1], s.lines[i])]
    <3> HIDE DEF H
    <3> QED
      BY <2>4, <2>7
  <2> QED
    BY <2>1, <2>8
<1>3. S = Nat
  <2>1. S \in SUBSET Nat
    OBVIOUS
  <2> HIDE DEF S
  <2> QED
    BY <1>1, <1>2, <2>1, Induction
<1> DEFINE Whole(f) == f = [i \in a .. b |-> IF i = a THEN s ELSE IF f[i - 1].thrown THEN f[i - 1]
                                             ELSE Line(f[i - 1], s.lines[i])]
<1>4. \E f : Whole(f)
  <2>1. b - a \in Nat /\ a + (b - a) = b
    OBVIOUS
  <2>2. PICK f : Upto(f, b - a)
    BY <1>3, <2>1
  <2> QED
    BY <2>1, <2>2
<1>5. PICK f : Whole(f) /\ f = CHOOSE g : Whole(g)
  BY <1>4
<1>6. Handled(s, a, b) = f[b]
  BY <1>5 DEF Handled
<1> DEFINE H(i) == IF i = a THEN s ELSE IF f[i - 1].thrown THEN f[i - 1]
                   ELSE Line(f[i - 1], s.lines[i])
<1>7. \A i \in a .. b : f[i] = H(i)
  <2>1. f = [i \in a .. b |-> H(i)]
    BY <1>5
  <2> HIDE DEF H
  <2> QED
    BY <2>1
<1>8. f[a] = s
  BY <1>7
<1>9. Handles(f, s.lines, a, b)
  <2>1. \A i \in a + 1 .. b : i \in a .. b /\ i # a
    OBVIOUS
  <2> QED
    BY <1>7, <2>1 DEF Handles, Step
<1> QED
  BY <1>6, <1>8, <1>9 DEF CanHandle

(* Lines handled by two streams alike leave them alike.                    *)
LEMMA HandlingAgrees ==
  ASSUME NEW a \in Nat, NEW b \in Nat, a <= b, NEW lines, NEW f, NEW g,
         Handles(f, lines, a, b), Handles(g, lines, a, b),
         IsStream(f[a]), IsStream(g[a]), SameAnswer(f[a], g[a]),
         f[a].provider \in {"openai", "anthropic", "codex"}
  PROVE  Kept(f[a], f[b]) /\ Kept(g[a], g[b]) /\ SameAnswer(f[b], g[b])
<1>1. PICK s, t : s = f[a] /\ t = g[a]
  OBVIOUS
<1> DEFINE Alike(i) == Kept(s, f[i]) /\ Kept(t, g[i]) /\ SameAnswer(f[i], g[i])
           S == {n \in Nat : a + n <= b => Alike(a + n)}
<1>2. 0 \in S
  <2>1. a + 0 = a
    OBVIOUS
  <2> QED
    BY <1>1, <2>1 DEF Kept
<1>3. ASSUME NEW n \in S PROVE n + 1 \in S
  <2>1. n \in Nat /\ n + 1 \in Nat /\ a + (n + 1) = (a + n) + 1
    OBVIOUS
  <2>2. SUFFICES ASSUME (a + n) + 1 <= b PROVE Alike((a + n) + 1)
    BY <2>1
  <2>3. PICK i : i = (a + n) + 1
    OBVIOUS
  <2>4. i \in a + 1 .. b /\ i - 1 = a + n
    BY <2>1, <2>2, <2>3
  <2>5. Alike(a + n)
    BY <2>1, <2>2
  <2>6. PICK x, y, l : x = f[a + n] /\ y = g[a + n] /\ l = lines[i]
    OBVIOUS
  <2>7. f[i] = Step(x, l) /\ g[i] = Step(y, l)
    BY <2>4, <2>6 DEF Handles
  <2>8. Kept(s, x) /\ Kept(t, y) /\ SameAnswer(x, y)
    BY <2>5, <2>6
  <2>9. IsStream(x) /\ IsStream(y) /\ x.provider \in {"openai", "anthropic", "codex"}
    BY <1>1, <2>8 DEF Kept
  <2>10. Kept(x, f[i]) /\ Kept(y, g[i]) /\ SameAnswer(f[i], g[i])
    BY <2>7, <2>8, <2>9, StepSame
  <2>11. Kept(s, f[i]) /\ Kept(t, g[i])
    BY <2>8, <2>10 DEF Kept
  <2> QED
    BY <2>3, <2>10, <2>11
<1>4. S = Nat
  <2>1. S \in SUBSET Nat
    OBVIOUS
  <2> HIDE DEF S
  <2> QED
    BY <1>2, <1>3, <2>1, Induction
<1>5. b - a \in Nat /\ a + (b - a) = b /\ b <= b
  OBVIOUS
<1>6. Alike(a + (b - a))
  <2> HIDE DEF Alike
  <2> QED
    BY <1>4, <1>5
<1> QED
  BY <1>1, <1>5, <1>6

(* There is one way to handle the lines.                                   *)
LEMMA HandlingOnce ==
  ASSUME NEW a \in Nat, NEW b \in Nat, a <= b, NEW lines, NEW f, NEW g,
         Handles(f, lines, a, b), Handles(g, lines, a, b), f[a] = g[a]
  PROVE  f[b] = g[b]
<1> DEFINE S == {n \in Nat : a + n <= b => f[a + n] = g[a + n]}
<1>1. 0 \in S
  <2>1. a + 0 = a
    OBVIOUS
  <2> QED
    BY <2>1
<1>2. ASSUME NEW n \in S PROVE n + 1 \in S
  <2>1. n \in Nat /\ n + 1 \in Nat /\ a + (n + 1) = (a + n) + 1
    OBVIOUS
  <2>2. SUFFICES ASSUME (a + n) + 1 <= b PROVE f[(a + n) + 1] = g[(a + n) + 1]
    BY <2>1
  <2>3. PICK i : i = (a + n) + 1
    OBVIOUS
  <2>4. i \in a + 1 .. b /\ i - 1 = a + n
    BY <2>1, <2>2, <2>3
  <2>5. f[a + n] = g[a + n]
    BY <2>1, <2>2
  <2> QED
    BY <2>3, <2>4, <2>5 DEF Handles
<1>3. S = Nat
  <2>1. S \in SUBSET Nat
    OBVIOUS
  <2> HIDE DEF S
  <2> QED
    BY <1>1, <1>2, <2>1, Induction
<1>4. b - a \in Nat /\ a + (b - a) = b /\ b <= b
  OBVIOUS
<1> QED
  BY <1>3, <1>4

(* The stream before anything arrived.                                     *)
Begun(s) == [NoStream EXCEPT !.provider = s.provider, !.lines = s.lines]

(* Half a line waits if an odd number has come; all lines that are whole have *)
(* been handled, and nothing else.                                         *)
UnderWay(s) ==
  /\ s.whole = FALSE /\ IsStream(s) /\ s.provider \in {"openai", "anthropic", "codex"}
  /\ s.wire \in Nat /\ s.buffer = s.wire % 2
  /\ SameAnswer(s, Handled(Begun(s), 0, s.wire \div 2))

StreamHolds ==
  \/ prStream.provider = "none"
  \/ prStream.whole = TRUE /\ prStream.result # "none"
  \/ UnderWay(prStream)

(* What a stream begins with.                                              *)
LEMMA BegunIs ==
  ASSUME NEW s
  PROVE  LET x == Begun(s)
         IN  /\ IsStream(x) /\ x.provider = s.provider /\ x.lines = s.lines /\ x.wire = 0
             /\ x.buffer = 0 /\ x.whole = FALSE /\ Begun(x) = x
<1>1. PICK p, l, x : p = s.provider /\ l = s.lines /\ x = Begun(s)
  OBVIOUS
<1>2. x = [provider |-> p, lines |-> l, wire |-> 0, buffer |-> 0, pending |-> <<>>,
           seen |-> {}, out |-> <<>>, thrown |-> FALSE, whole |-> FALSE, result |-> "none"]
  BY <1>1 DEF Begun, NoStream
<1>3. /\ x.provider = p /\ x.lines = l /\ x.wire = 0 /\ x.buffer = 0 /\ x.whole = FALSE
      /\ x.pending = <<>> /\ x.seen = {} /\ x.out = <<>> /\ x.thrown = FALSE /\ x.result = "none"
  BY <1>2
<1>4. IsStream(x)
  BY <1>2, <1>3 DEF IsStream, With
<1>5. Begun(x) = x
  BY <1>1, <1>3 DEF Begun
<1> QED
  BY <1>1, <1>3, <1>4, <1>5

(* A chunk: the lines it completes are handled as if nothing had been cut.  *)
LEMMA ChunkUnderWay ==
  ASSUME NEW n \in Nat, UnderWay(prStream), Chunk(n)
  PROVE  UnderWay(prStream')
<1>1. PICK s : s = prStream
  OBVIOUS
<1>2. PICK w : w = s.wire
  OBVIOUS
<1>3. PICK a, b : a = w \div 2 /\ b = (w + n) \div 2
  OBVIOUS
<1>4. w \in Nat /\ s.buffer = w % 2 /\ s.whole = FALSE /\ IsStream(s)
      /\ s.provider \in {"openai", "anthropic", "codex"}
  BY <1>1, <1>2 DEF UnderWay
<1>5. a \in Nat /\ b \in Nat /\ a <= b /\ (w - s.buffer) \div 2 = a
  BY <1>3, <1>4
<1>6. PICK h : h = Handled(s, a, b)
  OBVIOUS
<1>7. prStream' = [h EXCEPT !.wire = w + n, !.buffer = (w + n) % 2]
  BY <1>1, <1>2, <1>3, <1>5, <1>6 DEF Chunk
<1>8. PICK start : start = Begun(s)
  OBVIOUS
<1>9. PICK f : f[a] = s /\ Handles(f, s.lines, a, b) /\ h = f[b]
  <2>1. CanHandle(s, a, b)
    BY <1>5, HandlingIs
  <2> QED
    BY <1>6, <2>1 DEF CanHandle
<1>10. start.lines = s.lines /\ start.provider = s.provider /\ IsStream(start)
  BY <1>8, BegunIs
<1>11. 0 \in Nat /\ 0 <= a /\ 0 <= b
  BY <1>5
<1> DEFINE All(c) == \E g : g[0] = start /\ Handles(g, s.lines, 0, c) /\ Handled(start, 0, c) = g[c]
<1>27. ASSUME NEW c \in Nat PROVE All(c)
  <2>1. PICK z : z = 0
    OBVIOUS
  <2>2. z \in Nat /\ z <= c
    BY <2>1
  <2>3. CanHandle(start, z, c)
    BY <2>2, HandlingIs
  <2> QED
    BY <1>10, <2>1, <2>3 DEF CanHandle
<1>12. PICK g : g[0] = start /\ Handles(g, s.lines, 0, b) /\ Handled(start, 0, b) = g[b]
  BY <1>5, <1>27
<1>13. PICK k : k[0] = start /\ Handles(k, s.lines, 0, a) /\ Handled(start, 0, a) = k[a]
  BY <1>5, <1>27
<1>14. Handles(g, s.lines, 0, a) /\ Handles(g, s.lines, a, b)
  <2>1. \A i \in 0 + 1 .. a : i \in 0 + 1 .. b
    BY <1>5
  <2>2. \A i \in a + 1 .. b : i \in 0 + 1 .. b
    BY <1>5
  <2> QED
    BY <1>12, <2>1, <2>2 DEF Handles
<1>15. g[a] = k[a]
  BY <1>5, <1>11, <1>12, <1>13, <1>14, HandlingOnce
<1>16. SameAnswer(s, g[a])
  BY <1>1, <1>2, <1>3, <1>8, <1>13, <1>15 DEF UnderWay
<1>17. IsStream(g[a])
  <2>1. SameAnswer(start, start)
    BY DEF SameAnswer
  <2>2. Kept(start, g[a])
    BY <1>4, <1>5, <1>10, <1>11, <1>12, <1>14, <2>1, HandlingAgrees
  <2> QED
    BY <2>2 DEF Kept
<1>18. Kept(s, h) /\ SameAnswer(h, g[b])
  BY <1>4, <1>5, <1>9, <1>14, <1>16, <1>17, HandlingAgrees
<1>19. PICK t, m, u : t = prStream' /\ m = w + n /\ u = m % 2
  OBVIOUS
<1>20. h = With(h, h.pending, h.seen, h.out, h.thrown)
  BY <1>18 DEF Kept, IsStream
<1>21. /\ t.wire = m /\ t.buffer = u /\ t.provider = h.provider /\ t.lines = h.lines
       /\ t.pending = h.pending /\ t.seen = h.seen /\ t.out = h.out /\ t.thrown = h.thrown
       /\ t.whole = h.whole /\ t.result = h.result
       /\ IsStream(t)
  <2>1. PICK pr, li, pe, se, ou, th, wh, re :
          /\ pr = h.provider /\ li = h.lines /\ pe = h.pending /\ se = h.seen /\ ou = h.out
          /\ th = h.thrown /\ wh = h.whole /\ re = h.result
    OBVIOUS
  <2>2. PICK x : x = [provider |-> pr, lines |-> li, wire |-> h.wire, buffer |-> h.buffer,
                      pending |-> pe, seen |-> se, out |-> ou, thrown |-> th, whole |-> wh,
                      result |-> re]
    OBVIOUS
  <2>3. x = h
    BY <1>20, <2>1, <2>2 DEF With
  <2>4. PICK y : y = [x EXCEPT !.wire = m]
    OBVIOUS
  <2>5. y = [provider |-> pr, lines |-> li, wire |-> m, buffer |-> h.buffer,
             pending |-> pe, seen |-> se, out |-> ou, thrown |-> th, whole |-> wh,
             result |-> re]
    BY <2>2, <2>4
  <2>6. t = [y EXCEPT !.buffer = u]
    BY <1>7, <1>19, <2>3, <2>4
  <2>7. t = [provider |-> pr, lines |-> li, wire |-> m, buffer |-> u,
             pending |-> pe, seen |-> se, out |-> ou, thrown |-> th, whole |-> wh,
             result |-> re]
    BY <2>5, <2>6
  <2>8. /\ t.wire = m /\ t.buffer = u /\ t.provider = pr /\ t.lines = li
        /\ t.pending = pe /\ t.seen = se /\ t.out = ou /\ t.thrown = th
        /\ t.whole = wh /\ t.result = re
    BY <2>7
  <2>9. IsStream(t)
    BY <2>7, <2>8 DEF IsStream, With
  <2> QED
    BY <2>1, <2>8, <2>9
<1>22. t.provider = s.provider /\ t.lines = s.lines /\ t.whole = FALSE
  BY <1>4, <1>18, <1>21 DEF Kept
<1>23. Begun(t) = start
  BY <1>8, <1>22 DEF Begun
<1>24. SameAnswer(t, g[b])
  BY <1>18, <1>21 DEF SameAnswer
<1>25. t.wire \div 2 = b /\ t.wire \in Nat /\ t.buffer = t.wire % 2
  BY <1>3, <1>4, <1>19, <1>21
<1>26. SameAnswer(t, Handled(Begun(t), 0, t.wire \div 2))
  BY <1>12, <1>23, <1>24, <1>25
<1> QED
  BY <1>4, <1>19, <1>21, <1>22, <1>25, <1>26 DEF UnderWay

(* A stream that returns keeps all but its result.                         *)
Finishes(s, t) ==
  /\ t.provider = s.provider /\ t.lines = s.lines /\ t.wire = s.wire /\ t.buffer = s.buffer
  /\ t.pending = s.pending /\ t.seen = s.seen /\ t.out = s.out /\ t.thrown = s.thrown
  /\ t.whole = s.whole /\ IsStream(t)

(* The result is set, and nothing else.                                    *)
LEMMA Returned ==
  ASSUME NEW s, IsStream(s), NEW r
  PROVE  Finishes(s, [s EXCEPT !.result = r])
<1>1. PICK t : t = [s EXCEPT !.result = r]
  OBVIOUS
<1>2. s = With(s, s.pending, s.seen, s.out, s.thrown)
  BY DEF IsStream
<1>3. PICK pr, li, wi, bu, pe, se, ou, th, wh, re :
        /\ pr = s.provider /\ li = s.lines /\ wi = s.wire /\ bu = s.buffer /\ pe = s.pending
        /\ se = s.seen /\ ou = s.out /\ th = s.thrown /\ wh = s.whole /\ re = s.result
  OBVIOUS
<1>4. PICK v : v = [provider |-> pr, lines |-> li, wire |-> wi, buffer |-> bu, pending |-> pe,
                    seen |-> se, out |-> ou, thrown |-> th, whole |-> wh, result |-> re]
  OBVIOUS
<1>5. v = s
  BY <1>2, <1>3, <1>4 DEF With
<1>6. [v EXCEPT !.result = r]
        = [provider |-> pr, lines |-> li, wire |-> wi, buffer |-> bu, pending |-> pe,
           seen |-> se, out |-> ou, thrown |-> th, whole |-> wh, result |-> r]
  BY <1>4
<1>7. t = [provider |-> pr, lines |-> li, wire |-> wi, buffer |-> bu, pending |-> pe,
           seen |-> se, out |-> ou, thrown |-> th, whole |-> wh, result |-> r]
  BY <1>1, <1>5, <1>6
<1>8. /\ t.provider = pr /\ t.lines = li /\ t.wire = wi /\ t.buffer = bu
      /\ t.pending = pe /\ t.seen = se /\ t.out = ou /\ t.thrown = th
      /\ t.whole = wh /\ t.result = r
  BY <1>7
<1>9. IsStream(t)
  BY <1>7, <1>8 DEF IsStream, With
<1> QED
  BY <1>1, <1>3, <1>8, <1>9 DEF Finishes

(* A step leaves the stream alone, begins it, takes a chunk of it or ends it. *)
LEMMA StreamStep ==
  ASSUME ProvidersAssumption, StreamHolds, [ProvidersNext]_providerVars
  PROVE  StreamHolds'
<1>1. CASE UNCHANGED prStream
  <2>1. UnderWay(prStream) => UnderWay(prStream')
    BY <1>1
  <2> QED
    BY <1>1, <2>1 DEF StreamHolds
<1>2. ASSUME NEW x \in Streams, BeginStream(x) PROVE StreamHolds'
  <2>1. PICK s, t : s = prStream' /\ t = Begun(x)
    OBVIOUS
  <2>2. s = t
    BY <1>2, <2>1 DEF BeginStream, Begun
  <2>3. /\ IsStream(t) /\ t.provider = x.provider /\ t.lines = x.lines /\ t.wire = 0
        /\ t.buffer = 0 /\ t.whole = FALSE /\ Begun(t) = t
    BY <2>1, BegunIs
  <2>4. t.provider \in {"openai", "anthropic", "codex"}
    BY <2>3 DEF ProvidersAssumption
  <2>5. PICK z, h : z = 0 /\ h = Handled(t, z, z)
    OBVIOUS
  <2>6. h = t
    <3>1. z \in Nat /\ z <= z
      BY <2>5
    <3>2. CanHandle(t, z, z)
      BY <3>1, HandlingIs
    <3> QED
      BY <2>5, <3>2 DEF CanHandle
  <2>7. t.wire \div 2 = z /\ t.wire \in Nat /\ t.buffer = t.wire % 2
    BY <2>3, <2>5
  <2>8. SameAnswer(t, Handled(Begun(t), 0, t.wire \div 2))
    BY <2>3, <2>5, <2>6, <2>7 DEF SameAnswer
  <2>9. UnderWay(t)
    BY <2>3, <2>4, <2>7, <2>8 DEF UnderWay
  <2> QED
    BY <2>1, <2>2, <2>9 DEF StreamHolds
<1>3. ASSUME NEW x \in Streams, ChatCompletion(x) PROVE StreamHolds'
  <2>1. PICK w, th, ou, re :
          /\ re \in {"unknown", "ok"}
          /\ prStream' = [NoStream EXCEPT !.provider = x.provider, !.lines = x.lines, !.whole = TRUE,
                            !.wire = w, !.thrown = th, !.out = ou, !.result = re]
    BY <1>3 DEF ChatCompletion
  <2>2. prStream'.whole = TRUE /\ prStream'.result = re
    BY <2>1 DEF NoStream
  <2> QED
    BY <2>1, <2>2 DEF StreamHolds
<1>4. ASSUME NEW n \in 1 .. 4, Chunk(n) PROVE StreamHolds'
  <2>1. prStream.provider # "none" /\ prStream.result = "none" /\ n \in Nat
    BY <1>4 DEF Chunk
  <2>2. UnderWay(prStream)
    BY <2>1 DEF StreamHolds
  <2> QED
    BY <1>4, <2>1, <2>2, ChunkUnderWay DEF StreamHolds
<1>5. ASSUME NEW curl, NEW http, StreamReturns(curl, http) PROVE StreamHolds'
  <2>1. PICK s, t, r : s = prStream /\ t = prStream' /\ r = Outcome(s, curl, http)
    OBVIOUS
  <2>2. s.provider # "none" /\ s.result = "none" /\ t = [s EXCEPT !.result = r]
    BY <1>5, <2>1 DEF StreamReturns
  <2>3. UnderWay(s)
    BY <2>1, <2>2 DEF StreamHolds
  <2>4. IsStream(s)
    BY <2>3 DEF UnderWay
  <2>5. Finishes(s, t)
    BY <2>2, <2>4, Returned
  <2>6. /\ t.provider = s.provider /\ t.lines = s.lines /\ t.wire = s.wire /\ t.buffer = s.buffer
        /\ t.pending = s.pending /\ t.seen = s.seen /\ t.out = s.out /\ t.thrown = s.thrown
        /\ t.whole = s.whole
    BY <2>5 DEF Finishes
  <2>7. IsStream(t)
    BY <2>5 DEF Finishes
  <2>8. Begun(t) = Begun(s)
    BY <2>6 DEF Begun
  <2>9. PICK h : h = Handled(Begun(s), 0, s.wire \div 2)
    OBVIOUS
  <2>10. SameAnswer(t, h)
    BY <2>3, <2>6, <2>9 DEF UnderWay, SameAnswer
  <2>11. UnderWay(t)
    BY <2>3, <2>6, <2>7, <2>8, <2>9, <2>10 DEF UnderWay
  <2> QED
    BY <2>1, <2>11 DEF StreamHolds
<1>6. ASSUME NEW p, NEW h, SendRequest(p, h) PROVE StreamHolds'
  BY <1>1, <1>6 DEF SendRequest
<1> QED
  BY <1>1, <1>2, <1>3, <1>4, <1>5, <1>6 DEF ProvidersNext, providerVars

(* A stream that holds tells the caller what its lines say.                *)
LEMMA StreamAgrees ==
  ASSUME StreamHolds
  PROVE  ChunksAgree
<1>1. PICK s, h : s = prStream /\ h = Handled(Begun(s), 0, s.wire \div 2)
  OBVIOUS
<1>2. CASE UnderWay(s)
  <2>1. s.out = h.out
    BY <1>1, <1>2 DEF UnderWay, SameAnswer
  <2> QED
    BY <1>1, <2>1 DEF ChunksAgree, Begun
<1> QED
  BY <1>1, <1>2 DEF StreamHolds, ChunksAgree

(* The behaviours of the providers: requests sent, answers received.       *)
ProvidersSpec == ProvidersInit /\ [][ProvidersNext]_providerVars

(* Whatever the history, the results in what is sent to the OpenAI API or to *)
(* Codex follow the message with their call (openai_provider.cpp:101).      *)
THEOREM ReplayAlwaysPaired == ProvidersSpec => []ReplayPaired
<1>1. ProvidersInit => ReplayPaired
  BY DEF ProvidersInit, ReplayPaired
<1>2. ReplayPaired /\ [ProvidersNext]_providerVars => ReplayPaired'
  <2> SUFFICES ASSUME ReplayPaired, [ProvidersNext]_providerVars PROVE ReplayPaired'
    OBVIOUS
  <2>1. CASE UNCHANGED prReq
    BY <2>1 DEF ReplayPaired
  <2>2. ASSUME NEW h \in Histories, NEW pr \in {"openai", "anthropic", "codex"}, SendRequest(pr, h)
        PROVE  ReplayPaired'
    <3>1. PICK p : p = prReq'.payload
      OBVIOUS
    <3>2. /\ prReq'.provider = pr
          /\ pr = "openai" => p = OpenAIPayload(h)
          /\ pr = "codex" => p = CodexPayload(h)
      BY <2>2, <3>1 DEF SendRequest
    <3>3. pr \in {"openai", "codex"} => \A i \in DOMAIN p : p[i].role = "tool" => Follows(p, i)
      BY <3>2, OpenAIPaired, CodexPaired
    <3> QED
      BY <3>1, <3>2, <3>3 DEF ReplayPaired, Follows
  <2> QED
    BY <2>1, <2>2
       DEF ProvidersNext, providerVars, BeginStream, ChatCompletion, Chunk, StreamReturns
<1> QED
  BY <1>1, <1>2, PTL DEF ProvidersSpec

(* However an answer is cut into chunks, the caller is told what the lines  *)
(* received so far say (openai_provider.cpp:448, anthropic_provider.cpp:315, *)
(* openai_codex_provider.cpp:194).                                          *)
THEOREM ChunksNeverMatter == ProvidersSpec => []ChunksAgree
<1>1. ProvidersInit => StreamHolds
  BY DEF ProvidersInit, StreamHolds, NoStream
<1>2. StreamHolds /\ [ProvidersNext]_providerVars => StreamHolds'
  BY ProvidersAssumption, StreamStep
<1>3. StreamHolds => ChunksAgree
  BY StreamAgrees
<1> QED
  BY <1>1, <1>2, <1>3, PTL DEF ProvidersSpec

-----------------------------------------------------------------------------
(***************************************************************************)
(* Providers: the ids of the calls.                                        *)
(***************************************************************************)
(* There is always a number that is free, so the id is new.                *)
LEMMA FreshId ==
  ASSUME NEW noted, IsFiniteSet(noted), NEW id
  PROVE  EnsureUniqueToolCallId(id, noted) \notin noted
<1>1. PICK k : k = Cardinality(noted)
  OBVIOUS
<1>2. k \in Nat
  BY <1>1, FS_CardinalityType
<1>3. PICK N : N = k + 1 .. 2 * k + 1
  OBVIOUS
<1>4. IsFiniteSet(N) /\ k < Cardinality(N)
  <2>1. PICK a, b : a = k + 1 /\ b = 2 * k + 1
    OBVIOUS
  <2>2. a \in Int /\ b \in Int /\ a <= b /\ b - a + 1 = k + 1
    BY <1>2, <2>1
  <2>3. IsFiniteSet(a .. b) /\ Cardinality(a .. b) = b - a + 1
    BY <2>2, FS_Interval
  <2> QED
    BY <1>2, <1>3, <2>1, <2>2, <2>3
<1>5. \A n, m : AutoId(n) = AutoId(m) => n = m
  BY DEF AutoId
<1>6. PICK free : free = {n \in N : AutoId(n) \notin noted}
  OBVIOUS
<1>7. free # {}
  <2>1. SUFFICES ASSUME \A n \in N : AutoId(n) \in noted PROVE FALSE
    BY <1>6
  <2>2. PICK f : f = [n \in N |-> AutoId(n)]
    OBVIOUS
  <2>3. f \in [N -> noted] /\ \A n \in N : f[n] = AutoId(n)
    BY <2>1, <2>2
  <2>4. \E x, y \in N : x # y /\ f[x] = f[y]
    BY <1>1, <1>4, <2>3, FS_PigeonHole
  <2> QED
    BY <1>5, <2>3, <2>4
<1>8. \E n \in free : \A m \in free : n <= m
  <2>1. free \in SUBSET Nat
    BY <1>2, <1>3, <1>6
  <2> QED
    BY <1>7, <2>1, Least
<1>9. PICK n : n \in free /\ n = CHOOSE x \in free : \A m \in free : x <= m
  BY <1>8
<1>10. AutoId(n) \notin noted
  BY <1>6, <1>9
<1>11. PICK given : given = IF id = Blank THEN AutoId(Cardinality(noted) + 1) ELSE <<"id", id>>
  OBVIOUS
<1>12. EnsureUniqueToolCallId(id, noted) = IF given \notin noted THEN given ELSE AutoId(n)
  BY <1>1, <1>3, <1>6, <1>9, <1>11 DEF EnsureUniqueToolCallId
<1> QED
  BY <1>10, <1>12

(* The fragments that are finished, one after the other...                 *)
IsFinalizing(f, pending, noted) ==
  f = [i \in 0 .. Len(pending) |->
         IF i = 0 THEN [calls |-> <<>>, seen |-> noted, rest |-> <<>>]
         ELSE Finalized(f[i - 1], pending[i])]

(* ... each by what the one before left...                                 *)
LEMMA FinalizingStep ==
  ASSUME NEW pending, Len(pending) \in Nat, NEW noted, NEW f, IsFinalizing(f, pending, noted)
  PROVE  /\ f[0] = [calls |-> <<>>, seen |-> noted, rest |-> <<>>]
         /\ \A i \in 1 .. Len(pending) : f[i] = Finalized(f[i - 1], pending[i])
<1> DEFINE H(i) == IF i = 0 THEN [calls |-> <<>>, seen |-> noted, rest |-> <<>>]
                   ELSE Finalized(f[i - 1], pending[i])
<1>1. f = [i \in 0 .. Len(pending) |-> H(i)]
  BY DEF IsFinalizing
<1>2. \A i \in 0 .. Len(pending) : f[i] = H(i)
  <2> HIDE DEF H
  <2> QED
    BY <1>1
<1> QED
  BY <1>2

(* ... which can be done.                                                  *)
LEMMA FinalizingIs ==
  ASSUME NEW pending, Len(pending) \in Nat, NEW noted
  PROVE  \E f : /\ IsFinalizing(f, pending, noted)
                /\ FinalizePendingToolCalls(pending, noted) = f[Len(pending)]
<1> DEFINE none == [calls |-> <<>>, seen |-> noted, rest |-> <<>>]
           Upto(f, n) == f = [i \in 0 .. n |-> IF i = 0 THEN none ELSE Finalized(f[i - 1], pending[i])]
           S == {n \in Nat : \E f : Upto(f, n)}
<1>1. 0 \in S
  <2> DEFINE v == [i \in 0 .. 0 |-> none]
  <2>1. v = [i \in 0 .. 0 |-> IF i = 0 THEN none ELSE Finalized(v[i - 1], pending[i])]
    OBVIOUS
  <2> QED
    BY <2>1
<1>2. ASSUME NEW n \in S PROVE n + 1 \in S
  <2>1. n \in Nat /\ n + 1 \in Nat
    OBVIOUS
  <2>2. PICK f : Upto(f, n)
    OBVIOUS
  <2> DEFINE H(i) == IF i = 0 THEN none ELSE Finalized(f[i - 1], pending[i])
  <2>3. \A i \in 0 .. n : f[i] = H(i)
    <3>1. f = [i \in 0 .. n |-> H(i)]
      BY <2>2
    <3> HIDE DEF H
    <3> QED
      BY <3>1
  <2>4. PICK v : v = [i \in 0 .. n + 1 |-> H(i)]
    OBVIOUS
  <2>5. \A i \in 0 .. n + 1 : v[i] = H(i)
    <3> HIDE DEF H
    <3> QED
      BY <2>4
  <2>6. \A i \in 0 .. n + 1 : i # 0 => v[i - 1] = f[i - 1]
    <3>1. \A i \in 0 .. n + 1 : i # 0 => i - 1 \in 0 .. n /\ i - 1 \in 0 .. n + 1
      BY <2>1
    <3> HIDE DEF H
    <3> QED
      BY <2>3, <2>5, <3>1
  <2>7. \A i \in 0 .. n + 1 : H(i) = IF i = 0 THEN none ELSE Finalized(v[i - 1], pending[i])
    <3> HIDE DEF none
    <3> QED
      BY <2>6
  <2>8. v = [i \in 0 .. n + 1 |-> IF i = 0 THEN none ELSE Finalized(v[i - 1], pending[i])]
    <3> HIDE DEF H
    <3> QED
      BY <2>4, <2>7
  <2> QED
    BY <2>1, <2>8
<1>3. S = Nat
  <2>1. S \in SUBSET Nat
    OBVIOUS
  <2> HIDE DEF S
  <2> QED
    BY <1>1, <1>2, <2>1, Induction
<1>4. \E f : Upto(f, Len(pending))
  BY <1>3
<1>5. PICK f : Upto(f, Len(pending)) /\ f = CHOOSE g : Upto(g, Len(pending))
  BY <1>4
<1> QED
  BY <1>5 DEF IsFinalizing, FinalizePendingToolCalls

(* Calls with ids of their own, all of which have been noted.              *)
Noted(calls, old, noted) ==
  /\ IsVector(calls)
  /\ \A i \in DOMAIN calls : calls[i].id \in noted \ old
  /\ \A i, j \in DOMAIN calls : calls[i].id = calls[j].id => i = j

(* What is finished of the fragments so far.                               *)
Completed(acc, old) ==
  /\ old \subseteq acc.seen /\ IsFiniteSet(acc.seen) /\ IsVector(acc.rest)
  /\ Noted(acc.calls, old, acc.seen)

(* One fragment more: a call of its own, or left for later.                *)
LEMMA FinalizedOne ==
  ASSUME NEW acc, NEW old, Completed(acc, old), NEW frag
  PROVE  Completed(Finalized(acc, frag), old)
<1>1. PICK n, calls, noted, rest :
        n = NormalizeToolCall(frag, acc.seen) /\ calls = acc.calls /\ noted = acc.seen /\ rest = acc.rest
  OBVIOUS
<1>2. /\ old \subseteq noted /\ IsFiniteSet(noted) /\ IsVector(rest)
      /\ Noted(calls, old, noted)
  BY <1>1 DEF Completed
<1>3. CASE n.ok
  <2>1. n.call.id \notin noted
    <3>1. PICK fresh : fresh = EnsureUniqueToolCallId(frag.id, noted)
      OBVIOUS
    <3>2. n.call.id = fresh
      BY <1>1, <1>3, <3>1 DEF NormalizeToolCall
    <3> QED
      BY <1>2, <3>1, <3>2, FreshId
  <2>2. PICK e, id, q, w : e = n.call /\ id = e.id /\ q = Append(calls, e) /\ w = noted \cup {id}
    OBVIOUS
  <2>3. Finalized(acc, frag) = [calls |-> q, seen |-> w, rest |-> rest]
    BY <1>1, <1>3, <2>2 DEF Finalized
  <2>4. IsFiniteSet(w)
    BY <1>2, <2>2, FS_AddElement
  <2>5. PICK T : T = Range(calls) \cup {e}
    OBVIOUS
  <2>6. calls \in Seq(T) /\ e \in T
    <3>1. PICK A : A = Range(calls) /\ calls \in Seq(A)
      BY <1>2 DEF Noted, IsVector
    <3>2. A \subseteq T
      BY <2>5, <3>1
    <3> QED
      BY <2>5, <3>1, <3>2
  <2>7. /\ IsVector(q) /\ DOMAIN q = 1 .. Len(calls) + 1
        /\ q[Len(calls) + 1] = e /\ \A i \in 1 .. Len(calls) : q[i] = calls[i]
    BY <2>2, <2>6, Appended
  <2>8. Len(calls) \in Nat /\ DOMAIN calls = 1 .. Len(calls)
    BY <1>2, VectorLen DEF Noted
  <2>9. Noted(q, old, w)
    <3>1. ASSUME NEW i \in DOMAIN q PROVE q[i].id \in w \ old /\ (i \in 1 .. Len(calls) => q[i].id \in noted)
      <4>1. CASE i \in 1 .. Len(calls)
        BY <1>2, <2>2, <2>7, <2>8, <4>1 DEF Noted
      <4>2. CASE i \notin 1 .. Len(calls)
        <5>1. i = Len(calls) + 1
          BY <2>7, <2>8, <4>2
        <5> QED
          BY <1>2, <2>1, <2>2, <2>7, <4>2, <5>1
      <4> QED
        BY <4>1, <4>2
    <3>2. ASSUME NEW i \in DOMAIN q, NEW j \in DOMAIN q, q[i].id = q[j].id PROVE i = j
      <4>1. CASE i \in 1 .. Len(calls) /\ j \in 1 .. Len(calls)
        BY <1>2, <2>7, <2>8, <3>2, <4>1 DEF Noted
      <4>2. CASE i \notin 1 .. Len(calls) /\ j \in 1 .. Len(calls)
        <5>1. i = Len(calls) + 1
          BY <2>7, <2>8, <4>2
        <5>2. q[i].id = id /\ q[j].id \in noted
          BY <2>2, <2>7, <3>1, <4>2, <5>1
        <5> QED
          BY <2>1, <2>2, <3>2, <5>2
      <4>3. CASE i \in 1 .. Len(calls) /\ j \notin 1 .. Len(calls)
        <5>1. j = Len(calls) + 1
          BY <2>7, <2>8, <4>3
        <5>2. q[j].id = id /\ q[i].id \in noted
          BY <2>2, <2>7, <3>1, <4>3, <5>1
        <5> QED
          BY <2>1, <2>2, <3>2, <5>2
      <4>4. CASE i \notin 1 .. Len(calls) /\ j \notin 1 .. Len(calls)
        BY <2>7, <2>8, <4>4
      <4> QED
        BY <4>1, <4>2, <4>3, <4>4
    <3> QED
      BY <2>7, <3>1, <3>2 DEF Noted
  <2>10. PICK b : b = [calls |-> q, seen |-> w, rest |-> rest]
    OBVIOUS
  <2>11. b.calls = q /\ b.seen = w /\ b.rest = rest
    BY <2>10
  <2>12. old \subseteq w
    BY <1>2, <2>2
  <2> QED
    BY <1>2, <2>3, <2>4, <2>9, <2>10, <2>11, <2>12 DEF Completed
<1>4. CASE ~ n.ok
  <2>1. PICK q, T : q = Append(rest, frag) /\ T = Range(rest) \cup {frag}
    OBVIOUS
  <2>2. Finalized(acc, frag) = [calls |-> calls, seen |-> noted, rest |-> q]
    BY <1>1, <1>4, <2>1 DEF Finalized
  <2>3. rest \in Seq(T) /\ frag \in T
    <3>1. PICK A : A = Range(rest) /\ rest \in Seq(A)
      BY <1>2 DEF IsVector
    <3>2. A \subseteq T
      BY <2>1, <3>1
    <3> QED
      BY <2>1, <3>1, <3>2
  <2>4. IsVector(q)
    BY <2>1, <2>3, Appended
  <2>5. PICK b : b = [calls |-> calls, seen |-> noted, rest |-> q]
    OBVIOUS
  <2>6. b.calls = calls /\ b.seen = noted /\ b.rest = q
    BY <2>5
  <2> QED
    BY <1>2, <2>2, <2>4, <2>5, <2>6 DEF Completed
<1> QED
  BY <1>3, <1>4

(* All of them.                                                            *)
LEMMA FinalizedAll ==
  ASSUME NEW pending, IsVector(pending), NEW noted, IsFiniteSet(noted)
  PROVE  Completed(FinalizePendingToolCalls(pending, noted), noted)
<1>1. PICK n : n = Len(pending)
  OBVIOUS
<1>2. n \in Nat
  BY <1>1, VectorLen
<1>3. PICK f : IsFinalizing(f, pending, noted) /\ FinalizePendingToolCalls(pending, noted) = f[n]
  BY <1>1, <1>2, FinalizingIs
<1>4. /\ f[0] = [calls |-> <<>>, seen |-> noted, rest |-> <<>>]
      /\ \A i \in 1 .. n : f[i] = Finalized(f[i - 1], pending[i])
  BY <1>1, <1>2, <1>3, FinalizingStep
<1> DEFINE S == {i \in Nat : i <= n => Completed(f[i], noted)}
<1>5. 0 \in S
  <2>1. IsVector(<<>>) /\ DOMAIN <<>> = {}
    BY DEF IsVector
  <2>2. PICK b, e : e = <<>> /\ b = [calls |-> e, seen |-> noted, rest |-> e]
    OBVIOUS
  <2>3. b.calls = e /\ b.seen = noted /\ b.rest = e
    BY <2>2
  <2>4. Noted(e, noted, noted)
    BY <2>1, <2>2 DEF Noted
  <2>5. Completed(b, noted)
    BY <2>1, <2>2, <2>3, <2>4 DEF Completed
  <2> QED
    BY <1>4, <2>2, <2>5
<1>6. ASSUME NEW i \in S PROVE i + 1 \in S
  <2>1. i \in Nat /\ i + 1 \in Nat
    OBVIOUS
  <2>2. SUFFICES ASSUME i + 1 <= n PROVE Completed(f[i + 1], noted)
    BY <2>1
  <2>3. Completed(f[i], noted)
    BY <1>2, <2>1, <2>2
  <2>4. i + 1 \in 1 .. n /\ (i + 1) - 1 = i
    BY <1>2, <2>1, <2>2
  <2>5. f[i + 1] = Finalized(f[i], pending[i + 1])
    BY <1>4, <2>4
  <2> QED
    BY <2>3, <2>5, FinalizedOne
<1>7. S = Nat
  <2>1. S \in SUBSET Nat
    OBVIOUS
  <2> HIDE DEF S
  <2> QED
    BY <1>5, <1>6, <2>1, Induction
<1>8. n <= n
  BY <1>2
<1> QED
  BY <1>2, <1>3, <1>7, <1>8

(* The calls the caller was told of have ids of their own, all of them noted. *)
IdsFor(p, q, o) ==
  /\ IsVector(p) /\ IsFiniteSet(q) /\ IsVector(o)
  /\ \A i \in DOMAIN o : \A j \in DOMAIN o[i].calls : o[i].calls[j].id \in q
  /\ \A i, k \in DOMAIN o : \A j \in DOMAIN o[i].calls, l \in DOMAIN o[k].calls :
       o[i].calls[j].id = o[k].calls[l].id => i = k /\ j = l

(* He is told of new ones.                                                 *)
LEMMA IdsTold ==
  ASSUME NEW p, NEW q, NEW o, IdsFor(p, q, o), NEW w, IsVector(w), NEW v, IsFiniteSet(v),
         q \subseteq v, NEW c, Noted(c, q, v), NEW t
  PROVE  IdsFor(w, v, Append(o, [type |-> t, calls |-> c]))
<1>1. PICK e, T, u : e = [type |-> t, calls |-> c] /\ T = Range(o) \cup {e} /\ u = Append(o, e)
  OBVIOUS
<1>2. IsVector(o)
  BY DEF IdsFor
<1>3. o \in Seq(T) /\ e \in T
  <2>1. PICK A : A = Range(o) /\ o \in Seq(A)
    BY <1>2 DEF IsVector
  <2>2. A \subseteq T
    BY <1>1, <2>1
  <2> QED
    BY <1>1, <2>1, <2>2
<1>4. PICK n : n = Len(o) + 1
  OBVIOUS
<1>5. /\ IsVector(u) /\ DOMAIN u = 1 .. n /\ u[n] = e /\ \A i \in 1 .. Len(o) : u[i] = o[i]
      /\ Len(o) \in Nat /\ DOMAIN o = 1 .. Len(o)
  BY <1>1, <1>2, <1>3, <1>4, Appended, VectorLen
<1>6. u[n].calls = c
  <2>1. e.calls = c
    BY <1>1
  <2> QED
    BY <1>5, <2>1
<1>7. \A i \in DOMAIN u : i \in DOMAIN o \/ i = n
  BY <1>4, <1>5
<1>8. \A i \in DOMAIN o : i # n /\ u[i] = o[i]
  BY <1>4, <1>5
<1>9. \A i \in DOMAIN o : \A j \in DOMAIN u[i].calls : u[i].calls[j].id \in q
  BY <1>8 DEF IdsFor
<1>10. \A j \in DOMAIN u[n].calls : u[n].calls[j].id \in v \ q
  BY <1>6 DEF Noted
<1>11. \A i \in DOMAIN u : \A j \in DOMAIN u[i].calls : u[i].calls[j].id \in v
  BY <1>7, <1>9, <1>10
<1>12. ASSUME NEW i \in DOMAIN u, NEW k \in DOMAIN u, NEW j \in DOMAIN u[i].calls,
              NEW l \in DOMAIN u[k].calls, u[i].calls[j].id = u[k].calls[l].id
       PROVE  i = k /\ j = l
  <2>1. CASE i \in DOMAIN o /\ k \in DOMAIN o
    <3>1. u[i] = o[i] /\ u[k] = o[k]
      BY <1>8, <2>1
    <3> QED
      BY <1>12, <2>1, <3>1 DEF IdsFor
  <2>2. CASE i \in DOMAIN o /\ k = n
    BY <1>9, <1>10, <1>12, <2>2
  <2>3. CASE i = n /\ k \in DOMAIN o
    BY <1>9, <1>10, <1>12, <2>3
  <2>4. CASE i = n /\ k = n
    <3>1. j \in DOMAIN c /\ l \in DOMAIN c /\ c[j].id = c[l].id
      BY <1>6, <1>12, <2>4
    <3> QED
      BY <2>4, <3>1 DEF Noted
  <2> QED
    BY <1>7, <2>1, <2>2, <2>3, <2>4
<1> QED
  BY <1>1, <1>5, <1>11, <1>12 DEF IdsFor

(* Nothing to note.                                                        *)
LEMMA NoneNoted ==
  ASSUME NEW q
  PROVE  IsVector(<<>>) /\ Noted(<<>>, q, q)
<1>1. IsVector(<<>>) /\ DOMAIN <<>> = {}
  BY DEF IsVector
<1> QED
  BY <1>1 DEF Noted

(* The fragments stay a vector.                                            *)
LEMMA FragmentAdded ==
  ASSUME NEW p, IsVector(p), NEW l, l.index \in Nat
  PROVE  IsVector(AddFragment(p, l))
<1>1. PICK k, m : k = l.index /\ m = IF k > Len(p) THEN k - Len(p) ELSE 0
  OBVIOUS
<1>2. Len(p) \in Nat /\ m \in Nat
  BY <1>1, VectorLen
<1>3. PICK r : r = [i \in 1 .. m |-> NoFragment(Len(p) + i)]
  OBVIOUS
<1>4. IsVector(r)
  <2>1. DOMAIN r = 1 .. m /\ r = [i \in 1 .. m |-> r[i]]
    BY <1>3
  <2> QED
    BY <1>2, <2>1, VectorFrom
<1>5. PICK g : g = p \o r
  OBVIOUS
<1>6. IsVector(g)
  BY <1>4, <1>5, Joined
<1>7. PICK n : n = Len(g)
  OBVIOUS
<1>8. n \in Nat /\ DOMAIN g = 1 .. n
  BY <1>6, <1>7, VectorLen
<1>9. PICK e : AddFragment(p, l) = [g EXCEPT ![k] = e]
  BY <1>1, <1>3, <1>5 DEF AddFragment
<1>10. PICK a : a = [g EXCEPT ![k] = e]
  OBVIOUS
<1>11. DOMAIN a = 1 .. n /\ a = [i \in 1 .. n |-> a[i]]
  BY <1>8, <1>10
<1>12. IsVector(a)
  BY <1>8, <1>11, VectorFrom
<1> QED
  BY <1>9, <1>10, <1>12

(* A stream of the OpenAI API...                                           *)
OpenAIStream(s) ==
  s.provider = "openai" /\ IsStream(s) /\ IdsFor(s.pending, s.seen, s.out)

(* ... stays one, whatever line comes.                                     *)
LEMMA LineIds ==
  ASSUME NEW s, OpenAIStream(s), NEW l, l.index \in Nat
  PROVE  OpenAIStream(Step(s, l)) /\ Kept(s, Step(s, l))
<1>1. CASE s.thrown
  BY <1>1 DEF Step, Kept, OpenAIStream
<1>2. CASE ~ s.thrown
  <2>1. PICK p, q, o, e, f, c :
          /\ p = s.pending /\ q = s.seen /\ o = s.out /\ e = s.thrown
          /\ f = FinalizePendingToolCalls(p, q) /\ c = f.calls
    OBVIOUS
  <2>2. IsStream(s) /\ IdsFor(p, q, o) /\ s.provider = "openai"
    BY <2>1 DEF OpenAIStream
  <2>3. Looks(s, p, q, o, e, f, c)
    BY <2>1, <2>2 DEF Looks
  <2>4. PICK x : x = OpenAILine(s, l)
    OBVIOUS
  <2>5. Says(s, x, l, p, q, o, e, f, c)
    BY <2>3, <2>4, OpenAISays
  <2>6. Step(s, l) = x
    BY <1>2, <2>2, <2>4 DEF Step, Line
  <2>7. Kept(s, x)
    <3>1. SameAnswer(s, s)
      BY DEF SameAnswer
    <3>2. SameStep(s, s, x, x)
      BY <2>2, <2>4, <3>1, OpenAISame
    <3> QED
      BY <3>2, SameStepKeeps
  <2>8. IsVector(p) /\ IsFiniteSet(q) /\ IsVector(<<>>) /\ Noted(<<>>, q, q)
    BY <2>2, NoneNoted DEF IdsFor
  <2>9. q \subseteq f.seen /\ IsFiniteSet(f.seen) /\ IsVector(f.rest) /\ Noted(c, q, f.seen)
    BY <2>1, <2>8, FinalizedAll DEF Completed
  <2>10. \A w : IsVector(w) => IdsFor(w, f.seen, More(o, c))
    <3>1. SUFFICES ASSUME NEW w, IsVector(w) PROVE IdsFor(w, f.seen, More(o, c))
      OBVIOUS
    <3>2. CASE c = <<>>
      BY <2>2, <2>9, <3>1, <3>2 DEF More, IdsFor
    <3>3. CASE c # <<>>
      <4>1. PICK v, t : v = f.seen /\ t = "calls"
        OBVIOUS
      <4>2. IsFiniteSet(v) /\ q \subseteq v /\ Noted(c, q, v)
        BY <2>9, <4>1
      <4>3. IdsFor(w, v, Append(o, [type |-> t, calls |-> c]))
        BY <2>2, <3>1, <4>2, IdsTold
      <4> QED
        BY <3>3, <4>1, <4>3 DEF More
    <3> QED
      BY <3>2, <3>3
  <2>11. \E P, Q, O : x = With(s, P, Q, O, e) /\ IdsFor(P, Q, O)
    <3>1. CASE l.type = "text"
      <4>1. PICK c0, t : c0 = <<>> /\ t = "text"
        OBVIOUS
      <4>2. Noted(c0, q, q) /\ q \subseteq q
        BY <2>8, <4>1
      <4>3. IdsFor(p, q, Append(o, [type |-> t, calls |-> c0]))
        BY <2>2, <2>8, <4>2, IdsTold
      <4> QED
        BY <2>5, <3>1, <4>1, <4>3 DEF Says
    <3>2. CASE l.type = "call"
      <4>1. PICK u : u = AddFragment(p, l)
        OBVIOUS
      <4>2. IsVector(u)
        BY <2>8, <4>1, FragmentAdded
      <4>3. IdsFor(u, q, o)
        BY <2>2, <4>2 DEF IdsFor
      <4> QED
        BY <2>5, <3>2, <4>1, <4>3 DEF Says
    <3>3. CASE l.type = "finish"
      BY <2>5, <2>9, <2>10, <3>3 DEF Says
    <3>4. CASE l.type = "end"
      <4>1. PICK w, v, m : w = <<>> /\ v = f.seen /\ m = More(o, c)
        OBVIOUS
      <4>2. IdsFor(w, v, m)
        BY <2>8, <2>10, <4>1
      <4>3. PICK c0, t : c0 = <<>> /\ t = "end"
        OBVIOUS
      <4>4. Noted(c0, v, v) /\ v \subseteq v /\ IsFiniteSet(v) /\ IsVector(w)
        BY <2>8, <2>9, <4>1, <4>3, NoneNoted
      <4>5. IdsFor(w, v, Append(m, [type |-> t, calls |-> c0]))
        BY <4>2, <4>4, IdsTold
      <4>6. x = With(s, w, v, Append(m, [type |-> t, calls |-> c0]), e)
        BY <2>5, <3>4, <4>1, <4>3 DEF Says
      <4> QED
        BY <4>5, <4>6
    <3>5. CASE l.type \notin {"text", "call", "finish", "end"}
      BY <2>2, <2>5, <3>5 DEF Says
    <3> QED
      BY <3>1, <3>2, <3>3, <3>4, <3>5
  <2>12. IdsFor(x.pending, x.seen, x.out)
    <3>1. PICK P, Q, O : x = With(s, P, Q, O, e) /\ IdsFor(P, Q, O)
      BY <2>11
    <3>2. x.pending = P /\ x.seen = Q /\ x.out = O
      BY <3>1 DEF With
    <3> QED
      BY <3>1, <3>2
  <2> QED
    BY <2>2, <2>6, <2>7, <2>12 DEF OpenAIStream, Kept
<1> QED
  BY <1>1, <1>2

(* So are they all after the lines of a chunk.                             *)
LEMMA HandledIds ==
  ASSUME NEW s, OpenAIStream(s), NEW a \in Nat, NEW b \in Nat, a <= b,
         \A i \in a + 1 .. b : s.lines[i].index \in Nat
  PROVE  OpenAIStream(Handled(s, a, b)) /\ Kept(s, Handled(s, a, b))
<1>1. CanHandle(s, a, b)
  BY HandlingIs
<1>2. PICK f : f[a] = s /\ Handles(f, s.lines, a, b) /\ Handled(s, a, b) = f[b]
  BY <1>1 DEF CanHandle
<1> DEFINE Good(i) == OpenAIStream(f[i]) /\ Kept(s, f[i])
           S == {n \in Nat : a + n <= b => Good(a + n)}
<1>3. 0 \in S
  <2>1. a + 0 = a
    OBVIOUS
  <2>2. Kept(s, s)
    BY DEF Kept, OpenAIStream
  <2> QED
    BY <1>2, <2>1, <2>2
<1>4. ASSUME NEW n \in S PROVE n + 1 \in S
  <2>1. n \in Nat /\ n + 1 \in Nat /\ a + (n + 1) = (a + n) + 1
    OBVIOUS
  <2>2. SUFFICES ASSUME (a + n) + 1 <= b PROVE Good((a + n) + 1)
    BY <2>1
  <2>3. PICK i : i = (a + n) + 1
    OBVIOUS
  <2>4. i \in a + 1 .. b /\ i - 1 = a + n
    BY <2>1, <2>2, <2>3
  <2>5. Good(a + n)
    BY <2>1, <2>2
  <2>6. PICK x, l : x = f[a + n] /\ l = s.lines[i]
    OBVIOUS
  <2>7. f[i] = Step(x, l) /\ l.index \in Nat
    BY <1>2, <2>4, <2>6 DEF Handles
  <2>8. OpenAIStream(x) /\ Kept(s, x)
    BY <2>5, <2>6
  <2>9. OpenAIStream(f[i]) /\ Kept(x, f[i])
    BY <2>7, <2>8, LineIds
  <2>10. Kept(s, f[i])
    BY <2>8, <2>9 DEF Kept
  <2> QED
    BY <2>3, <2>9, <2>10
<1>5. S = Nat
  <2>1. S \in SUBSET Nat
    OBVIOUS
  <2> HIDE DEF S
  <2> QED
    BY <1>3, <1>4, <2>1, Induction
<1>6. b - a \in Nat /\ a + (b - a) = b /\ b <= b
  OBVIOUS
<1>7. Good(a + (b - a))
  <2> HIDE DEF Good
  <2> QED
    BY <1>5, <1>6
<1> QED
  BY <1>2, <1>6, <1>7

(* Lines as the parser gives them.                                         *)
LinesOk(lines) == IsVector(lines) /\ \A i \in DOMAIN lines : lines[i].index \in Nat

IdsHold ==
  prStream.provider = "openai" /\ prStream.whole = FALSE =>
    OpenAIStream(prStream) /\ LinesOk(prStream.lines)

(* A step of the providers keeps the ids apart.                            *)
LEMMA IdsStep ==
  ASSUME ProvidersAssumption, StreamHolds, IdsHold, [ProvidersNext]_providerVars
  PROVE  IdsHold'
<1>1. CASE UNCHANGED prStream
  BY <1>1 DEF IdsHold
<1>2. ASSUME NEW x \in Streams, BeginStream(x) PROVE IdsHold'
  <2>1. PICK s, t : s = prStream' /\ t = Begun(x)
    OBVIOUS
  <2>2. s = t
    BY <1>2, <2>1 DEF BeginStream, Begun
  <2>3. IsStream(t) /\ t.lines = x.lines
    BY <2>1, BegunIs
  <2>4. t.pending = <<>> /\ t.seen = {} /\ t.out = <<>>
    BY <2>1 DEF Begun, NoStream
  <2>5. IdsFor(<<>>, {}, <<>>)
    <3>1. PICK e, q : e = <<>> /\ q = {}
      OBVIOUS
    <3>2. IsVector(e) /\ DOMAIN e = {} /\ IsFiniteSet(q)
      BY <3>1, NoneNoted, FS_EmptySet
    <3> QED
      BY <3>1, <3>2 DEF IdsFor
  <2>6. LinesOk(t.lines)
    <3>1. PICK y : y = x.lines
      OBVIOUS
    <3>2. y \in Seq(Range(y)) /\ \A l \in Range(y) : l.index \in Nat
      BY <3>1 DEF ProvidersAssumption
    <3>3. \A i \in DOMAIN y : y[i] \in Range(y)
      BY DEF Range
    <3> QED
      BY <2>3, <3>1, <3>2, <3>3 DEF LinesOk, IsVector
  <2> QED
    BY <2>1, <2>2, <2>3, <2>4, <2>5, <2>6 DEF IdsHold, OpenAIStream
<1>3. ASSUME NEW x \in Streams, ChatCompletion(x) PROVE IdsHold'
  <2>1. PICK w, th, ou, re :
          prStream' = [NoStream EXCEPT !.provider = x.provider, !.lines = x.lines, !.whole = TRUE,
                         !.wire = w, !.thrown = th, !.out = ou, !.result = re]
    BY <1>3 DEF ChatCompletion
  <2>2. prStream'.whole = TRUE
    BY <2>1 DEF NoStream
  <2> QED
    BY <2>2 DEF IdsHold
<1>4. ASSUME NEW n \in 1 .. 4, Chunk(n) PROVE IdsHold'
  <2>1. PICK s, t : s = prStream /\ t = prStream'
    OBVIOUS
  <2>2. s.provider # "none" /\ s.result = "none" /\ n \in Nat
    BY <1>4, <2>1 DEF Chunk
  <2>3. UnderWay(s)
    BY <2>1, <2>2 DEF StreamHolds
  <2>4. PICK w, a, b, h :
          w = s.wire /\ a = w \div 2 /\ b = (w + n) \div 2 /\ h = Handled(s, a, b)
    OBVIOUS
  <2>5. w \in Nat /\ s.buffer = w % 2 /\ s.whole = FALSE
    BY <2>3, <2>4 DEF UnderWay
  <2>6. a \in Nat /\ b \in Nat /\ a <= b /\ (w - s.buffer) \div 2 = a
    <3>1. PICK u : u = s.buffer
      OBVIOUS
    <3>2. w \in Nat /\ n \in Nat /\ u = w % 2 /\ a = w \div 2 /\ b = (w + n) \div 2
      BY <2>2, <2>4, <2>5, <3>1
    <3>3. a \in Nat /\ b \in Nat /\ a <= b
      BY ONLY <3>2
    <3>4. (w - u) \div 2 = a
      BY ONLY <3>2
    <3> QED
      BY <3>1, <3>3, <3>4
  <2>7. t = [h EXCEPT !.wire = w + n, !.buffer = (w + n) % 2] /\ w + n <= 2 * Len(s.lines)
    BY <1>4, <2>1, <2>4, <2>6 DEF Chunk
  <2>8. t.provider = s.provider
    <3>1. UnderWay(t)
      BY <1>4, <2>1, <2>2, <2>3, ChunkUnderWay
    <3>2. CanHandle(s, a, b)
      BY <2>6, HandlingIs
    <3>3. PICK f : f[a] = s /\ Handles(f, s.lines, a, b) /\ h = f[b]
      BY <2>4, <3>2 DEF CanHandle
    <3>4. Kept(s, h)
      <4>1. SameAnswer(s, s) /\ IsStream(s) /\ s.provider \in {"openai", "anthropic", "codex"}
        BY <2>3 DEF SameAnswer, UnderWay
      <4> QED
        BY <2>6, <3>3, <4>1, HandlingAgrees
    <3>5. h = With(h, h.pending, h.seen, h.out, h.thrown)
      BY <3>4 DEF Kept, IsStream
    <3>6. t.provider = h.provider
      BY <2>7, <3>5 DEF With
    <3> QED
      BY <3>4, <3>6 DEF Kept
  <2>9. SUFFICES ASSUME s.provider = "openai" PROVE OpenAIStream(t) /\ LinesOk(t.lines)
    BY <2>1, <2>8 DEF IdsHold
  <2>10. OpenAIStream(s) /\ LinesOk(s.lines)
    BY <2>1, <2>5, <2>9 DEF IdsHold
  <2>11. \A i \in a + 1 .. b : s.lines[i].index \in Nat
    <3>1. PICK m : m = Len(s.lines)
      OBVIOUS
    <3>2. m \in Nat /\ DOMAIN s.lines = 1 .. m
      BY <2>10, <3>1, VectorLen DEF LinesOk
    <3>3. w + n <= 2 * m
      BY <2>7, <3>1
    <3>4. b <= m
      BY <2>2, <2>4, <2>5, <3>2, <3>3
    <3>5. \A i \in a + 1 .. b : i \in 1 .. m
      BY <2>6, <3>2, <3>4
    <3> QED
      BY <2>10, <3>2, <3>5 DEF LinesOk
  <2>12. OpenAIStream(h) /\ Kept(s, h)
    BY <2>4, <2>6, <2>10, <2>11, HandledIds
  <2>13. IsStream(t)
    BY <1>4, <2>1, <2>2, <2>3, ChunkUnderWay DEF UnderWay
  <2>14. /\ t.provider = h.provider /\ t.pending = h.pending /\ t.seen = h.seen /\ t.out = h.out
         /\ t.lines = h.lines
    <3>1. h = With(h, h.pending, h.seen, h.out, h.thrown)
      BY <2>12 DEF Kept, IsStream
    <3> QED
      BY <2>7, <3>1 DEF With
  <2>15. IdsFor(t.pending, t.seen, t.out) /\ t.provider = "openai"
    BY <2>12, <2>14 DEF OpenAIStream
  <2> QED
    BY <2>10, <2>12, <2>13, <2>14, <2>15 DEF OpenAIStream, Kept
<1>5. ASSUME NEW curl, NEW http, StreamReturns(curl, http) PROVE IdsHold'
  <2>1. PICK s, t, r : s = prStream /\ t = prStream' /\ r = Outcome(s, curl, http)
    OBVIOUS
  <2>2. s.provider # "none" /\ s.result = "none" /\ t = [s EXCEPT !.result = r]
    BY <1>5, <2>1 DEF StreamReturns
  <2>3. UnderWay(s)
    BY <2>1, <2>2 DEF StreamHolds
  <2>4. IsStream(s) /\ s.whole = FALSE
    BY <2>3 DEF UnderWay
  <2>5. /\ t.provider = s.provider /\ t.pending = s.pending /\ t.seen = s.seen /\ t.out = s.out
        /\ t.lines = s.lines /\ IsStream(t)
    BY <2>2, <2>4, Returned DEF Finishes
  <2>6. s.provider = "openai" => OpenAIStream(s) /\ LinesOk(s.lines)
    BY <2>1, <2>4 DEF IdsHold
  <2> QED
    BY <2>1, <2>5, <2>6 DEF IdsHold, OpenAIStream
<1>6. ASSUME NEW p, NEW h, SendRequest(p, h) PROVE IdsHold'
  BY <1>1, <1>6 DEF SendRequest
<1> QED
  BY <1>1, <1>2, <1>3, <1>4, <1>5, <1>6 DEF ProvidersNext, providerVars

(* Ids kept apart are the ids the caller got.                              *)
LEMMA IdsAgree ==
  ASSUME StreamHolds, IdsHold
  PROVE  IdsDistinct
<1>1. SUFFICES ASSUME prStream.provider = "openai", ~ prStream.whole
      PROVE  IdsFor(prStream.pending, prStream.seen, prStream.out)
  BY DEF IdsDistinct, IdsFor
<1>2. prStream.whole = FALSE
  BY <1>1 DEF StreamHolds, UnderWay
<1> QED
  BY <1>1, <1>2 DEF IdsHold, OpenAIStream

(* Whatever ids the OpenAI API gives the calls of a streamed answer, or leaves *)
(* out, and however often the calls so far are finished, the caller gets each *)
(* call under an id of its own (stream_normalization.cpp:156,              *)
(* openai_provider.cpp:424).                                               *)
THEOREM IdsAlwaysDistinct == ProvidersSpec => []IdsDistinct
<1>1. ProvidersInit => StreamHolds /\ IdsHold
  BY DEF ProvidersInit, StreamHolds, IdsHold, NoStream
<1>2. StreamHolds /\ IdsHold /\ [ProvidersNext]_providerVars => StreamHolds' /\ IdsHold'
  BY ProvidersAssumption, StreamStep, IdsStep
<1>3. StreamHolds /\ IdsHold => IdsDistinct
  BY IdsAgree
<1> QED
  BY <1>1, <1>2, <1>3, PTL DEF ProvidersSpec

(* All that holds of the providers whatever history is replayed and whatever *)
(* an API sends: results follow their calls, chunks do not matter, ids are  *)
(* distinct.                                                               *)
THEOREM ProvidersAlwaysSound == ProvidersSpec => []ProvidersSound
<1>1. ReplayPaired /\ ChunksAgree /\ IdsDistinct => ProvidersSound
  BY DEF ProvidersSound
<1> QED
  BY <1>1, ReplayAlwaysPaired, ChunksNeverMatter, IdsAlwaysDistinct, PTL
=============================================================================
