-------------------------- MODULE TaskDependencies --------------------------
(***************************************************************************)
(* The dependency graph of one task list (memory/claude_tasklist,          *)
(* dependency_graph.go and types.go): tasks that block one another, the    *)
(* validation of a loaded snapshot, and the edits Update and delete make   *)
(* to a clone of it.  A snapshot is a function from the ids that have a    *)
(* task file to the tasks.  The id slices of the code are sets here: the   *)
(* code appends only absent ids and sorts, so a slice it builds holds each *)
(* id once and its order carries nothing.  Subject, description, owner and *)
(* metadata are left out; the status stands for every scalar field.        *)
(***************************************************************************)
EXTENDS Naturals

CONSTANT MaxTaskID     \* the largest value of a Go int: the end of the id space
ASSUME MaxTaskIDAssumption == MaxTaskID \in Nat \ {0}

TaskID == 1 .. MaxTaskID
TaskStatus == {"pending", "in_progress", "completed"}
Task == [status : TaskStatus, blocks : SUBSET TaskID, blockedBy : SUBSET TaskID]
IsTaskMap(tasks) == DOMAIN tasks \subseteq TaskID /\ tasks \in [DOMAIN tasks -> Task]

\* What an update may ask: KeepStatus stands for a nil Status pointer.
KeepStatus == "keep"
UpdateRequest == [op : {"update"}, id : TaskID, status : TaskStatus \cup {KeepStatus},
                  addBlocks : SUBSET TaskID, addBlockedBy : SUBSET TaskID]

\* The map with a task written under an id.
Put(tasks, id, task) ==
  [i \in DOMAIN tasks \cup {id} |-> IF i = id THEN task ELSE tasks[i]]

NewTask == [status |-> "pending", blocks |-> {}, blockedBy |-> {}]

---------------------------------------------------------------------------
(* Validation of a snapshot: every reference names another task of the     *)
(* list, is recorded on both sides, and the graph has no cycle.            *)

References(tasks) ==
  \A i \in DOMAIN tasks :
    /\ \A j \in tasks[i].blocks : j # i /\ j \in DOMAIN tasks /\ i \in tasks[j].blockedBy
    /\ \A j \in tasks[i].blockedBy : j # i /\ j \in DOMAIN tasks /\ i \in tasks[j].blocks

\* Every non-empty set of tasks has one that nothing in the set blocks.
Acyclic(tasks) ==
  \A S \in SUBSET DOMAIN tasks :
    S # {} => \E i \in S : tasks[i].blockedBy \cap S = {}

ValidReferencesOnly(tasks) == References(tasks)   \* mutant: no search for a cycle
ValidStoredDependencies(tasks) == References(tasks) /\ Acyclic(tasks)

---------------------------------------------------------------------------
(* The edits.  Both return only the tasks that have to be written again.   *)

ValidUpdate(r, tasks) ==
  /\ r.id \in DOMAIN tasks
  /\ r.status # KeepStatus \/ r.addBlocks \cup r.addBlockedBy # {}
  /\ r.id \notin r.addBlocks \cup r.addBlockedBy
  /\ r.addBlocks \cup r.addBlockedBy \subseteq DOMAIN tasks

\* The task i of the list once the request r has been applied to the clone.
UpdatedTask(r, tasks, i) ==
  [status    |-> IF i = r.id /\ r.status # KeepStatus THEN r.status ELSE tasks[i].status,
   blocks    |-> tasks[i].blocks \cup (IF i = r.id THEN r.addBlocks ELSE {})
                                 \cup (IF i \in r.addBlockedBy THEN {r.id} ELSE {}),
   blockedBy |-> tasks[i].blockedBy \cup (IF i = r.id THEN r.addBlockedBy ELSE {})
                                    \cup (IF i \in r.addBlocks THEN {r.id} ELSE {})]

\* The whole clone after Update's edits, and the part of it in `changed`.
AfterUpdate(r, tasks) == [i \in DOMAIN tasks |-> UpdatedTask(r, tasks, i)]
ChangedByUpdate(r, tasks) ==
  LET after == AfterUpdate(r, tasks)
  IN  [i \in {j \in DOMAIN tasks : j = r.id \/ after[j] # tasks[j]} |-> after[i]]

\* deleteTaskLocked: the tasks that mention id, without the mention.
WithoutBlocksReference(task, id) ==         \* mutant: one direction is forgotten
  [task EXCEPT !.blocks = @ \ {id}]
WithoutReference(task, id) ==
  [task EXCEPT !.blocks = @ \ {id}, !.blockedBy = @ \ {id}]
ChangedByDelete(id, tasks) ==
  [i \in {j \in DOMAIN tasks \ {id} : id \in tasks[j].blocks \cup tasks[j].blockedBy}
      |-> WithoutReference(tasks[i], id)]
AfterDelete(id, tasks) ==
  [i \in DOMAIN tasks \ {id} |-> WithoutReference(tasks[i], id)]

---------------------------------------------------------------------------
(* The view of ListSummaries: the blockers that are not completed.         *)

ActiveBlockers(tasks, i) ==
  {j \in tasks[i].blockedBy : tasks[j].status # "completed"}
=============================================================================
