------------------------------ MODULE Subagents ------------------------------
(***************************************************************************)
(* The sub-agent manager (src/core/subagent.cpp) and its only caller, the  *)
(* spawn_subagent tool (src/tools/tool_registry.cpp).  Spawn runs the      *)
(* child's agent loop synchronously on the calling thread, and the child   *)
(* may itself call the tool: a thread's calls form a stack.                *)
(*                                                                         *)
(* Spawn's two lock regions, the limit check and the insertion, are        *)
(* separate actions.                                                       *)
(***************************************************************************)
EXTENDS Integers, Sequences, FiniteSets

CONSTANTS
  SpawnThread,   \* threads that run agent loops
  Parent,        \* the parent_session_key values passed to Spawn
  Depth,         \* the current_depth values passed to Spawn
  MaxRuns,       \* bound: how many runs are ever created
  max_depth,     \* SubagentConfig::max_depth
  Limits,        \* the values of SubagentConfig::max_children
  ApiCalls       \* which of CompleteRun, FailRun, CancelRun and
                 \* CleanupCompleted the embedding program calls

Run == 1 .. MaxRuns

ASSUME LimitsAssumption ==
  /\ max_depth \in Int
  /\ Limits \subseteq Int
  /\ MaxRuns \in Nat

ASSUME ThreadAssumption == IsFiniteSet(SpawnThread) /\ SpawnThread # {}

ASSUME CallsAssumption ==
  /\ Depth \subseteq Int
  /\ ApiCalls \subseteq {"complete", "fail", "cancel", "cleanup"}

VARIABLES
  state,     \* runs_: a SubagentRun::State, "none" before and after
  parent,    \* per run: parent_session_key
  cleanup,   \* per run: cleanup
  children,  \* parent_children_: the run ids listed per parent
  listed,    \* the keys of parent_children_, which never go
  max_children,  \* config_.max_children, set once by Configure
  checked,   \* per thread: the parent whose limit Spawn has just checked
  stack,     \* per thread: the runs whose agent loops it is executing
  nextRun    \* generate_run_id

subagentVars == <<state, parent, cleanup, children, listed, max_children, checked,
                  stack, nextRun>>

States == {"none", "running", "completed", "failed", "cancelled"}

NoParent == "no parent"

ASSUME ParentAssumption == NoParent \notin Parent

-----------------------------------------------------------------------------
Active(p) == {r \in children[p] : state[r] = "running"}

Top(t) == stack[t][Len(stack[t])]

Pop(t) == [stack EXCEPT ![t] = SubSeq(@, 1, Len(@) - 1)]

(* Mutant: the limit is compared with >.                                   *)
SpawnCheck_OffByOne(t, p, d) ==
  /\ checked[t] = NoParent
  /\ d < max_depth
  /\ p \in listed => Cardinality(Active(p)) <= max_children
  /\ checked' = [checked EXCEPT ![t] = p]
  /\ UNCHANGED <<state, parent, cleanup, children, listed, max_children, stack, nextRun>>

(* Spawn passes the depth check and the check of active children, which    *)
(* looks only when the parent has a list.  A forbidden spawn, or one of an *)
(* agent that is not allowed, changes nothing.                             *)
SpawnCheck(t, p, d) ==
  /\ checked[t] = NoParent
  /\ d < max_depth
  /\ p \in listed => Cardinality(Active(p)) < max_children
  /\ checked' = [checked EXCEPT ![t] = p]
  /\ UNCHANGED <<state, parent, cleanup, children, listed, max_children, stack, nextRun>>

(* Mutant: two runs get the same id.                                       *)
SpawnInsert_SameId(t, clean) ==
  /\ checked[t] # NoParent
  /\ nextRun <= MaxRuns
  /\ state' = [state EXCEPT ![nextRun] = "running"]
  /\ parent' = [parent EXCEPT ![nextRun] = checked[t]]
  /\ cleanup' = [cleanup EXCEPT ![nextRun] = clean]
  /\ children' = [children EXCEPT ![checked[t]] = @ \cup {nextRun}]
  /\ listed' = listed \cup {checked[t]}
  /\ checked' = [checked EXCEPT ![t] = NoParent]
  /\ stack' = [stack EXCEPT ![t] = Append(@, nextRun)]
  /\ UNCHANGED <<max_children, nextRun>>

(* The run is recorded and its agent loop starts on this thread.           *)
SpawnInsert(t, clean) ==
  /\ checked[t] # NoParent
  /\ nextRun <= MaxRuns
  /\ nextRun' = nextRun + 1
  /\ state' = [state EXCEPT ![nextRun] = "running"]
  /\ parent' = [parent EXCEPT ![nextRun] = checked[t]]
  /\ cleanup' = [cleanup EXCEPT ![nextRun] = clean]
  /\ children' = [children EXCEPT ![checked[t]] = @ \cup {nextRun}]
  /\ listed' = listed \cup {checked[t]}
  /\ checked' = [checked EXCEPT ![t] = NoParent]
  /\ stack' = [stack EXCEPT ![t] = Append(@, nextRun)]
  /\ UNCHANGED max_children

(* CompleteRun and FailRun write whatever state the run is in.             *)
MarkRun(r, s) ==
  state' = IF state[r] = "none" THEN state ELSE [state EXCEPT ![r] = s]

(* The agent runner returns the last assistant text; Spawn completes the   *)
(* run only if that is not empty.                                          *)
RunnerReturns(t, empty) ==
  /\ stack[t] # <<>>
  /\ checked[t] = NoParent
  /\ IF empty THEN UNCHANGED state ELSE MarkRun(Top(t), "completed")
  /\ stack' = Pop(t)
  /\ UNCHANGED <<parent, cleanup, children, listed, max_children, checked, nextRun>>

RunnerThrows(t) ==
  /\ stack[t] # <<>>
  /\ checked[t] = NoParent
  /\ MarkRun(Top(t), "failed")
  /\ stack' = Pop(t)
  /\ UNCHANGED <<parent, cleanup, children, listed, max_children, checked, nextRun>>

CompleteRun(r) ==
  /\ "complete" \in ApiCalls
  /\ MarkRun(r, "completed")
  /\ UNCHANGED <<parent, cleanup, children, listed, max_children, checked, stack, nextRun>>

FailRun(r) ==
  /\ "fail" \in ApiCalls
  /\ MarkRun(r, "failed")
  /\ UNCHANGED <<parent, cleanup, children, listed, max_children, checked, stack, nextRun>>

CancelRun(r) ==
  /\ "cancel" \in ApiCalls
  /\ state[r] = "running"
  /\ state' = [state EXCEPT ![r] = "cancelled"]
  /\ UNCHANGED <<parent, cleanup, children, listed, max_children, checked, stack, nextRun>>

(* The ephemeral runs that have ended.                                     *)
Finished == {r \in Run : cleanup[r] /\
                        state[r] \in {"completed", "failed", "cancelled"}}

(* Mutant: the runs are erased but stay in their parents' lists.           *)
CleanupCompleted_KeepsLists ==
  /\ "cleanup" \in ApiCalls
  /\ state' = [r \in Run |-> IF r \in Finished THEN "none" ELSE state[r]]
  /\ UNCHANGED <<parent, cleanup, children, listed, max_children, checked, stack, nextRun>>

CleanupCompleted ==
  /\ "cleanup" \in ApiCalls
  /\ state' = [r \in Run |-> IF r \in Finished THEN "none" ELSE state[r]]
  /\ children' = [p \in Parent |-> children[p] \ Finished]
  /\ UNCHANGED <<parent, cleanup, listed, max_children, checked, stack, nextRun>>

-----------------------------------------------------------------------------
SubagentsInit ==
  /\ state = [r \in Run |-> "none"]
  /\ parent = [r \in Run |-> NoParent]
  /\ cleanup = [r \in Run |-> TRUE]
  /\ children = [p \in Parent |-> {}]
  /\ listed = {} /\ max_children \in Limits
  /\ checked = [t \in SpawnThread |-> NoParent]
  /\ stack = [t \in SpawnThread |-> <<>>]
  /\ nextRun = 1

SpawnStep ==
  \E t \in SpawnThread :
    \/ \E p \in Parent, d \in Depth : SpawnCheck(t, p, d)
    \/ \E clean \in BOOLEAN : SpawnInsert(t, clean)

RunnerStep ==
  \E t \in SpawnThread :
    \/ \E empty \in BOOLEAN : RunnerReturns(t, empty)
    \/ RunnerThrows(t)

ApiStep ==
  \/ \E r \in Run : CompleteRun(r) \/ FailRun(r) \/ CancelRun(r)
  \/ CleanupCompleted

SubagentsNext == SpawnStep \/ RunnerStep \/ ApiStep

-----------------------------------------------------------------------------
(* Properties *)

(* Types; a run on a stack has been created.                               *)
SubagentsTypeOK ==
  /\ state \in [Run -> States]
  /\ parent \in [Run -> Parent \cup {NoParent}]
  /\ cleanup \in [Run -> BOOLEAN]
  /\ children \in [Parent -> SUBSET Run]
  /\ listed \subseteq Parent /\ max_children \in Limits
  /\ checked \in [SpawnThread -> Parent \cup {NoParent}]
  /\ stack \in [SpawnThread -> Seq(1 .. nextRun - 1)]
  /\ nextRun \in 1 .. MaxRuns + 1

(* The children lists and the run table agree: a run is listed with its    *)
(* own parent exactly as long as it is tracked, whatever order completion, *)
(* cancellation and cleanup come in.                                       *)
ListsMatchRuns ==
  \A p \in Parent :
    children[p] = {r \in Run : state[r] # "none" /\ parent[r] = p}

Inserting(p) == {t \in SpawnThread : checked[t] = p}

Ever(p) == {r \in Run : parent[r] = p}

\* The check forbids no first spawn, whatever the limit.
FirstOrLimit == IF max_children < 1 THEN 1 ELSE max_children

(* Every spawn whose check passed counts against the limit: the threads    *)
(* that race between the check and the insertion can exceed max_children   *)
(* by one each, but not by more, however deeply they nest.  A limit of     *)
(* zero or less lets the first spawn of a parent through, and those that   *)
(* race with it, and after them no other, though all have ended.           *)
ChildrenBound ==
  \A p \in Parent :
    /\ Cardinality(Active(p)) + Cardinality(Inserting(p))
         <= FirstOrLimit + Cardinality(SpawnThread) - 1
    /\ max_children <= 0 =>
         Cardinality(Ever(p)) + Cardinality(Inserting(p)) <= Cardinality(SpawnThread)

(* What SubagentManager keeps of its runs is consistent: the parts above.  *)
RunsTracked == SubagentsTypeOK /\ ListsMatchRuns /\ ChildrenBound
=============================================================================
