------------------------------ MODULE Mailbox ------------------------------
(***************************************************************************)
(* What the command queue promises its clients: the messages of a session   *)
(* wait in order, are handed to the agent in batches, one batch at a time,  *)
(* and of none is anything handed over twice or nothing at all.  When more  *)
(* than Room messages wait, the oldest may be cut short.                    *)
(***************************************************************************)
EXTENDS Naturals, FiniteSets

CONSTANTS
  Session, MaxMessages,
  Room      \* how many messages of a session may wait uncut

VARIABLES
  next,     \* the number of the next message
  waiting,  \* per session: messages sent and not handed over
  active,   \* per session: the batch the agent works on
  handled,  \* per session: messages of batches that have ended
  short     \* messages of which only the beginning is left

mailVars == <<next, waiting, active, handled, short>>

Empty == [s \in Session |-> {}]

Init == /\ next = 1 /\ waiting = Empty /\ active = Empty /\ handled = Empty
        /\ short = {}

\* A message may crowd the others out of their room: then the oldest of those
\* that wait are cut, the new one itself only if there is room for no other.
Send(s) ==
  /\ next <= MaxMessages
  /\ next' = next + 1
  /\ waiting' = [waiting EXCEPT ![s] = @ \cup {next}]
  /\ \E cut \in SUBSET (waiting[s] \cup {next}) :
       /\ short' = short \cup cut
       /\ cut # {} => Cardinality(waiting[s] \cup {next}) > Room
       /\ next \in cut => Room < 2
       /\ \A m \in cut, n \in (waiting[s] \cup {next}) \ cut : m < n
  /\ UNCHANGED <<active, handled>>

\* The sessions in D, which have no batch, get one each: the messages that
\* have waited longest.
Begin(D) ==
  /\ \A s \in D : active[s] = {} /\ active'[s] # {}
  /\ \A s \in D : /\ active'[s] \cup waiting'[s] = waiting[s]
                  /\ \A m \in active'[s], n \in waiting'[s] : m < n
  /\ \A s \in Session \ D : active'[s] = active[s] /\ waiting'[s] = waiting[s]
  /\ UNCHANGED <<next, handled, short>>

End(s) ==
  /\ active[s] # {}
  /\ active' = [active EXCEPT ![s] = {}]
  /\ handled' = [handled EXCEPT ![s] = @ \cup active[s]]
  /\ UNCHANGED <<next, waiting, short>>

Next ==
  \/ \E s \in Session : Send(s) \/ End(s)
  \/ \E D \in SUBSET Session : Begin(D)

Spec == Init /\ [][Next]_mailVars
=============================================================================
