------------------------------ MODULE TaskGraph ------------------------------
(***************************************************************************)
(* What a task list promises its callers: a set of tasks under ever        *)
(* growing ids, a valid dependency graph, and edits that happen at one     *)
(* instant or not at all.  TaskStore is shown to implement it.             *)
(***************************************************************************)
EXTENDS TaskDependencies

CONSTANT Requests      \* the operations the callers may ask for

VARIABLES
  graph,   \* the tasks of the list
  spent    \* the ids that name a task, did once, or were lost in a failed Create

Fresh(i) == i \in TaskID /\ \A s \in spent : s < i

Init == graph = [i \in {} |-> NewTask] /\ spent = {}

Create(i) ==
  /\ Fresh(i)
  /\ graph' = Put(graph, i, NewTask)
  /\ spent' = spent \cup {i}

Burn(i) ==
  /\ Fresh(i)
  /\ spent' = spent \cup {i}
  /\ UNCHANGED graph

Update(r) ==
  /\ ValidUpdate(r, graph)
  /\ ValidStoredDependencies(AfterUpdate(r, graph))
  /\ graph' = AfterUpdate(r, graph)
  /\ UNCHANGED spent

Delete(i) ==
  /\ i \in DOMAIN graph
  /\ graph' = AfterDelete(i, graph)
  /\ UNCHANGED spent

Next ==
  \/ \E i \in TaskID : Create(i) \/ Burn(i) \/ Delete(i)
  \/ \E r \in Requests : r.op = "update" /\ Update(r)

Spec == Init /\ [][Next]_<<graph, spent>>
=============================================================================
