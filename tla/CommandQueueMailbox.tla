------------------------- MODULE CommandQueueMailbox -------------------------
(***************************************************************************)
(* The command queue in collect mode, where nobody cancels, aborts or       *)
(* interrupts, implements Mailbox.                                          *)
(***************************************************************************)
EXTENDS CommandQueue

CONSTANT Room   \* no cap that is ever in force is smaller

ASSUME RoomAssumption == Room \in Nat

CarriedBy(C) == UNION {Carried(c) : c \in C}

RunsOf(s, phases) == {c \in Ids : session[c] = s /\ thread[c] \in phases}

Queue == INSTANCE Mailbox WITH
  MaxMessages <- MaxCommands,
  next    <- nextId,
  waiting <- [s \in Session |-> UNION {text[c] : c \in Pending(s)}],
  active  <- [s \in Session |-> CarriedBy(RunsOf(s, {"todo", "running", "answered"}))],
  handled <- [s \in Session |-> CarriedBy(RunsOf(s, {"done"}))]

(* Every step of the queue is a step of the mailbox or none at all: under  *)
(* summaries (ApplyCapOverflow), collection of what is pending (the drain  *)
(* in dispatcher_loop), restarts and changes of the limits, something of   *)
(* every message reaches the agent, in order, nothing twice, one batch at  *)
(* a time; a message is cut to its first 150 characters only when more     *)
(* than Room wait with it, and never before one that is older.             *)
ImplementsMailbox == Queue!Spec
=============================================================================
