-------------------------- MODULE TaskDependencyDFS --------------------------
(***************************************************************************)
(* validateAcyclicDependencies of memory/claude_tasklist: the depth-first  *)
(* search with three colours that decides whether a snapshot is loaded.    *)
(* The recursion of `visit` is an explicit stack; the map iteration that   *)
(* picks the roots has no order, so any unvisited task may be next.        *)
(***************************************************************************)
EXTENDS TaskDependencies, FiniteSets, Sequences

VARIABLES
  tasks,    \* the snapshot, with its references already checked
  states,   \* dependencyVisitState of every task
  stack,    \* the tasks whose `visit` is running, innermost last
  pending,  \* per task: the blocks its loop has not ranged over yet
  verdict   \* "idle", "running", "ok" or "cycle"

vars == <<tasks, states, stack, pending, verdict>>

\* Every snapshot over all the ids whose references are valid.
Snapshot(edges) ==
  [i \in TaskID |-> [status    |-> "pending",
                     blocks    |-> {j \in TaskID : <<i, j>> \in edges},
                     blockedBy |-> {j \in TaskID : <<j, i>> \in edges}]]

Init ==
  /\ tasks = Snapshot({})
  /\ states = [i \in DOMAIN tasks |-> "unvisited"]
  /\ stack = << >>
  /\ pending = [i \in DOMAIN tasks |-> {}]
  /\ verdict = "idle"

\* loadSnapshot has read any graph without self references and hands it over.
Load ==
  /\ verdict = "idle"
  /\ \E edges \in SUBSET {e \in TaskID \X TaskID : e[1] # e[2]} : tasks' = Snapshot(edges)
  /\ verdict' = "running"
  /\ UNCHANGED <<states, stack, pending>>

Top == stack[Len(stack)]

\* visit(i) for a task not seen before.
Enter(i) ==
  /\ states' = [states EXCEPT ![i] = "visiting"]
  /\ stack' = Append(stack, i)

NextRoot(i) ==
  /\ verdict = "running" /\ stack = << >>
  /\ states[i] = "unvisited"
  /\ Enter(i)
  /\ pending' = [pending EXCEPT ![i] = tasks[i].blocks]
  /\ UNCHANGED <<tasks, verdict>>

\* visit(j) for the next task of the loop over Blocks (ascending ids).
VisitBlockedNoBackEdge ==                   \* mutant: a visiting task is not an error
  /\ verdict = "running" /\ stack # << >>
  /\ pending[Top] # {}
  /\ LET j == CHOOSE k \in pending[Top] : \A l \in pending[Top] : k <= l
     IN  IF states[j] = "unvisited"
         THEN Enter(j) /\ pending' = [pending EXCEPT ![Top] = @ \ {j}, ![j] = tasks[j].blocks]
         ELSE pending' = [pending EXCEPT ![Top] = @ \ {j}] /\ UNCHANGED <<states, stack>>
  /\ UNCHANGED <<tasks, verdict>>
VisitBlocked ==
  /\ verdict = "running" /\ stack # << >>
  /\ pending[Top] # {}
  /\ LET j == CHOOSE k \in pending[Top] : \A l \in pending[Top] : k <= l
     IN  \/ /\ states[j] = "unvisited"
            /\ Enter(j)
            /\ pending' = [pending EXCEPT ![Top] = @ \ {j}, ![j] = tasks[j].blocks]
            /\ UNCHANGED verdict
         \/ /\ states[j] = "visited"
            /\ pending' = [pending EXCEPT ![Top] = @ \ {j}]
            /\ UNCHANGED <<states, stack, verdict>>
         \/ /\ states[j] = "visiting"
            /\ verdict' = "cycle"
            /\ UNCHANGED <<states, stack, pending>>
  /\ UNCHANGED tasks

Leave ==
  /\ verdict = "running" /\ stack # << >>
  /\ pending[Top] = {}
  /\ states' = [states EXCEPT ![Top] = "visited"]
  /\ stack' = SubSeq(stack, 1, Len(stack) - 1)
  /\ UNCHANGED <<tasks, pending, verdict>>

Accept ==
  /\ verdict = "running" /\ stack = << >>
  /\ \A i \in DOMAIN tasks : states[i] # "unvisited"
  /\ verdict' = "ok"
  /\ UNCHANGED <<tasks, states, stack, pending>>

Search == (\E i \in DOMAIN tasks : NextRoot(i)) \/ VisitBlocked \/ Leave \/ Accept
Next == Load \/ Search

---------------------------------------------------------------------------

\* The search accepts a snapshot only if its graph has no cycle, and rejects
\* it only if it has one: its answer is Acyclic, the condition the store's
\* modules use, whatever order the roots come in.
VerdictIsAcyclic ==
  /\ verdict = "ok" => Acyclic(tasks)
  /\ verdict = "cycle" => ~Acyclic(tasks)
=============================================================================
