------------------------------ MODULE TaskStore ------------------------------
(***************************************************************************)
(* The task list store of memory/claude_tasklist (store.go,                *)
(* store_persistence.go).  A list is a directory with one JSON file per    *)
(* task and a .highwatermark file.  Every operation runs under the mutex   *)
(* that sharedStoreMutex keeps for the directory and does its file writes  *)
(* one by one, each a temporary file and a rename.  A write can fail (the  *)
(* operation returns the error and releases the mutex) and the process can *)
(* die between any two of them.  A process here is a goroutine with a      *)
(* Store of its own for the same directory.                                *)
(***************************************************************************)
EXTENDS TaskDependencies, FiniteSets, Functions, TLC

CONSTANTS
  Proc,       \* goroutines that use the directory
  Requests,   \* the operations they may call
  Faults      \* which of "write_error", "crash" the environment may inflict

Request == UpdateRequest \cup [op : {"delete"}, id : TaskID]
                         \cup [op : {"open", "create", "list"}]
ASSUME StoreAssumption ==
  /\ Requests \subseteq Request
  /\ Faults \subseteq {"write_error", "crash"}

NoMark == -1           \* there is no .highwatermark file yet
NoRequest == [op |-> "none"]
NoTasks == [i \in {} |-> NewTask]
PC == {"idle", "wait", "open", "openload", "create", "createmark", "createfile",
       "load", "deletemark", "batch", "remove"}
\* the steps that end in an atomicWrite or a Remove
WritePC == {"open", "createmark", "createfile", "deletemark", "batch", "remove"}
Outcome == {"none", "ok", "rejected", "corrupt", "io_error"}

VARIABLES
  file,       \* the task files on disk
  mark,       \* the .highwatermark file
  holders,    \* the goroutines inside the critical section
  opened,     \* the goroutines whose NewStore returned a Store
  pc, req,    \* per goroutine: where its call is, and what it asked
  snap,       \* per goroutine: `tasks`, the snapshot its call loaded
  batch,      \* per goroutine: the encoded tasks it still has to write
  newID,      \* per goroutine: nextID (create), highWatermark (delete)
  outcome,    \* per goroutine: how its last call returned
  retired,    \* history: ids deleted, or lost after the watermark moved
  interrupted \* history: a batch of several files was cut short

vars == <<file, mark, holders, opened, pc, req, snap, batch, newID, outcome,
          retired, interrupted>>
disk == <<file, mark>>
local == <<snap, batch, newID>>
history == <<retired, interrupted>>

Init ==
  /\ file = NoTasks
  /\ mark = NoMark
  /\ holders = {}
  /\ opened = {}
  /\ pc = [p \in Proc |-> "idle"]
  /\ req = [p \in Proc |-> NoRequest]
  /\ snap = [p \in Proc |-> NoTasks]
  /\ batch = [p \in Proc |-> NoTasks]
  /\ newID = [p \in Proc |-> 0]
  /\ outcome = [p \in Proc |-> "none"]
  /\ retired = {}
  /\ interrupted = FALSE

---------------------------------------------------------------------------
(* The mutex.  Two Stores of one directory share one sync.Mutex, so a      *)
(* goroutine gets it only when nobody holds it.                            *)

MutexFreePerStore(p) == p \notin holders    \* mutant: a mutex of each Store's own
MutexFree(p) == holders = {}

\* The call ends: its deferred Unlock runs and its locals are gone.
ReturnLocked(p, result) ==                  \* mutant: no Unlock on an error
  /\ pc' = [pc EXCEPT ![p] = "idle"]
  /\ req' = [req EXCEPT ![p] = NoRequest]
  /\ snap' = [snap EXCEPT ![p] = NoTasks]
  /\ batch' = [batch EXCEPT ![p] = NoTasks]
  /\ newID' = [newID EXCEPT ![p] = 0]
  /\ outcome' = [outcome EXCEPT ![p] = result]
  /\ holders' = IF result = "ok" THEN holders \ {p} ELSE holders
Return(p, result) ==
  /\ pc' = [pc EXCEPT ![p] = "idle"]
  /\ req' = [req EXCEPT ![p] = NoRequest]
  /\ snap' = [snap EXCEPT ![p] = NoTasks]
  /\ batch' = [batch EXCEPT ![p] = NoTasks]
  /\ newID' = [newID EXCEPT ![p] = 0]
  /\ outcome' = [outcome EXCEPT ![p] = result]
  /\ holders' = holders \ {p}

GoTo(p, label) ==
  /\ pc' = [pc EXCEPT ![p] = label]
  /\ UNCHANGED <<req, outcome, holders>>

Call(p, r) ==
  /\ pc[p] = "idle"
  /\ (r.op = "open") = (p \notin opened)
  /\ pc' = [pc EXCEPT ![p] = "wait"]
  /\ req' = [req EXCEPT ![p] = r]
  /\ outcome' = [outcome EXCEPT ![p] = "none"]
  /\ UNCHANGED <<disk, holders, opened, local, history>>

Lock(p) ==
  /\ pc[p] = "wait"
  /\ MutexFree(p)
  /\ holders' = holders \cup {p}
  /\ pc' = [pc EXCEPT ![p] = CASE req[p].op = "open"   -> "open"
                               [] req[p].op = "create" -> "create"
                               [] OTHER                -> "load"]
  /\ UNCHANGED <<disk, opened, req, local, outcome, history>>

---------------------------------------------------------------------------
(* NewStore: write the watermark 0 if there is none, then validate the     *)
(* whole snapshot before handing out the Store.                            *)

OpenMark(p) ==
  /\ pc[p] = "open"
  /\ mark' = IF mark = NoMark THEN 0 ELSE mark
  /\ GoTo(p, "openload")
  /\ UNCHANGED <<file, opened, local, history>>

OpenLoad(p) ==
  /\ pc[p] = "openload"
  /\ \/ /\ ValidStoredDependencies(file)
        /\ opened' = opened \cup {p}
        /\ Return(p, "ok")
     \/ /\ ~ValidStoredDependencies(file)
        /\ opened' = opened
        /\ Return(p, "corrupt")
  /\ UNCHANGED <<disk, history>>

---------------------------------------------------------------------------
(* Create: the next id is above every file name and above the watermark.   *)
(* The watermark is written before the task file.                          *)

LastFileID == CHOOSE n \in DOMAIN file \cup {0} :      \* mutant: the watermark is not read
                \A m \in DOMAIN file \cup {0} : m <= n
LastID == CHOOSE n \in DOMAIN file \cup {mark} : \A m \in DOMAIN file \cup {mark} : m <= n

CreatePlanUnlimited(p) ==                   \* mutant: no test for the last id
  /\ pc[p] = "create"
  /\ newID' = [newID EXCEPT ![p] = LastID + 1]
  /\ GoTo(p, "createmark")
  /\ UNCHANGED <<disk, opened, snap, batch, history>>
CreatePlan(p) ==
  /\ pc[p] = "create"
  /\ \/ /\ LastID < MaxTaskID
        /\ newID' = [newID EXCEPT ![p] = LastID + 1]
        /\ GoTo(p, "createmark")
        /\ UNCHANGED <<snap, batch>>
     \/ /\ LastID = MaxTaskID
        /\ Return(p, "rejected")
  /\ UNCHANGED <<disk, opened, history>>

CreateMark(p) ==
  /\ pc[p] = "createmark"
  /\ mark' = newID[p]
  /\ GoTo(p, "createfile")
  /\ UNCHANGED <<file, opened, local, history>>

CreateFile(p) ==
  /\ pc[p] = "createfile"
  /\ file' = Put(file, newID[p], NewTask)
  /\ Return(p, "ok")
  /\ UNCHANGED <<mark, opened, history>>

---------------------------------------------------------------------------
(* List, ListSummaries and Counts: load and validate, change nothing.      *)

LoadList(p) ==
  /\ pc[p] = "load"
  /\ req[p].op = "list"
  /\ Return(p, IF ValidStoredDependencies(file) THEN "ok" ELSE "corrupt")
  /\ UNCHANGED <<disk, opened, history>>

---------------------------------------------------------------------------
(* Update: validate the snapshot, the request and the edited clone; only   *)
(* then write the changed tasks.  A delete records the watermark first.    *)

LoadReject(p) ==
  /\ pc[p] = "load"
  /\ req[p].op \in {"update", "delete"}
  /\ \/ /\ ~ValidStoredDependencies(file)
        /\ Return(p, "corrupt")
     \/ /\ ValidStoredDependencies(file)
        /\ req[p].op = "update" => \/ ~ValidUpdate(req[p], file)
                                   \/ ~ValidStoredDependencies(AfterUpdate(req[p], file))
        /\ req[p].op = "delete" => req[p].id \notin DOMAIN file
        /\ Return(p, "rejected")
  /\ UNCHANGED <<disk, opened, history>>

LoadUpdate(p) ==
  /\ pc[p] = "load"
  /\ req[p].op = "update"
  /\ ValidStoredDependencies(file)
  /\ ValidUpdate(req[p], file)
  /\ ValidStoredDependencies(AfterUpdate(req[p], file))
  /\ snap' = [snap EXCEPT ![p] = file]
  /\ batch' = [batch EXCEPT ![p] = ChangedByUpdate(req[p], file)]
  /\ GoTo(p, "batch")
  /\ UNCHANGED <<disk, opened, newID, history>>

LoadDelete(p) ==
  /\ pc[p] = "load"
  /\ req[p].op = "delete"
  /\ ValidStoredDependencies(file)
  /\ req[p].id \in DOMAIN file
  /\ snap' = [snap EXCEPT ![p] = file]
  /\ batch' = [batch EXCEPT ![p] = ChangedByDelete(req[p].id, file)]
  /\ newID' = [newID EXCEPT ![p] = LastID]
  /\ GoTo(p, "deletemark")
  /\ UNCHANGED <<disk, opened, history>>

DeleteMark(p) ==
  /\ pc[p] = "deletemark"
  /\ mark' = newID[p]
  /\ GoTo(p, "batch")
  /\ UNCHANGED <<file, opened, local, history>>

\* writeEncodedTaskBatchLocked: one atomicWrite per task, lowest id first.
WriteBatch(p) ==
  /\ pc[p] = "batch"
  /\ \E i \in DOMAIN batch[p] :
       /\ \A j \in DOMAIN batch[p] : i <= j
       /\ file' = Put(file, i, batch[p][i])
       /\ batch' = [batch EXCEPT ![p] = Restrict(@, DOMAIN @ \ {i})]
  /\ GoTo(p, "batch")
  /\ UNCHANGED <<mark, opened, snap, newID, history>>

BatchDone(p) ==
  /\ pc[p] = "batch"
  /\ DOMAIN batch[p] = {}
  /\ \/ /\ req[p].op = "update"
        /\ Return(p, "ok")
     \/ /\ req[p].op = "delete"
        /\ GoTo(p, "remove")
        /\ UNCHANGED local
  /\ UNCHANGED <<disk, opened, history>>

RemoveFile(p) ==
  /\ pc[p] = "remove"
  /\ file' = Restrict(file, DOMAIN file \ {req[p].id})
  /\ retired' = retired \cup {req[p].id}
  /\ Return(p, "ok")
  /\ UNCHANGED <<mark, opened, interrupted>>

---------------------------------------------------------------------------
(* Faults.  A failed atomicWrite removes its temporary file, leaves the    *)
(* target as it was, and the operation returns the error at once.  When    *)
(* the process dies every goroutine and mutex goes with it; only the disk  *)
(* remains.                                                                *)

\* The operation has begun to replace files and has not replaced the last.
Uncommitted(p) ==
  \/ pc[p] = "batch" /\ (req[p].op = "delete" \/ DOMAIN batch[p] # {})
  \/ pc[p] = "remove"
CutShort(p) == Uncommitted(p) /\ file # snap[p]
LostID(p) == IF pc[p] = "createfile" THEN {newID[p]} ELSE {}

WriteError(p) ==
  /\ "write_error" \in Faults
  /\ pc[p] \in WritePC
  /\ pc[p] = "open" => mark = NoMark
  /\ pc[p] = "batch" => DOMAIN batch[p] # {}
  /\ retired' = retired \cup LostID(p)
  /\ interrupted' = (interrupted \/ CutShort(p))
  /\ Return(p, "io_error")
  /\ UNCHANGED <<disk, opened>>

Crash ==
  /\ "crash" \in Faults
  /\ retired' = retired \cup UNION {LostID(p) : p \in Proc}
  /\ interrupted' = (interrupted \/ \E p \in Proc : CutShort(p))
  /\ holders' = {}
  /\ opened' = {}
  /\ pc' = [p \in Proc |-> "idle"]
  /\ req' = [p \in Proc |-> NoRequest]
  /\ snap' = [p \in Proc |-> NoTasks]
  /\ batch' = [p \in Proc |-> NoTasks]
  /\ newID' = [p \in Proc |-> 0]
  /\ outcome' = [p \in Proc |-> "none"]
  /\ UNCHANGED disk

---------------------------------------------------------------------------

Step(p) ==
  \/ Lock(p) \/ OpenMark(p) \/ OpenLoad(p)
  \/ CreatePlan(p) \/ CreateMark(p) \/ CreateFile(p)
  \/ LoadList(p) \/ LoadReject(p) \/ LoadUpdate(p) \/ LoadDelete(p)
  \/ DeleteMark(p) \/ WriteBatch(p) \/ BatchDone(p) \/ RemoveFile(p)

Next ==
  \/ \E p \in Proc, r \in Requests : Call(p, r)
  \/ \E p \in Proc : Step(p) \/ WriteError(p)
  \/ Crash

Spec == Init /\ [][Next]_vars

\* Go schedules every runnable goroutine and its mutex is starvation-free.
Fairness == \A p \in Proc : WF_vars(Step(p)) /\ SF_vars(Lock(p))
FairSpec == Spec /\ Fairness

---------------------------------------------------------------------------
(* What a caller may believe: an operation that replaces several files     *)
(* takes effect with the last of them.                                     *)

Committed == IF \E p \in Proc : Uncommitted(p)
             THEN snap[CHOOSE p \in Proc : Uncommitted(p)]
             ELSE file

Promise == INSTANCE TaskGraph WITH graph <- Committed, spent <- DOMAIN file \cup retired

\* Without faults the list of files behaves as TaskGraph says: Create, Update
\* and delete take effect at one instant, in some order, on a valid graph and
\* with an id above all ids spent, whatever the goroutines interleave.
ImplementsTaskGraph == Promise!Spec

---------------------------------------------------------------------------
(* Properties.                                                             *)

\* The type invariant of the store: the disk holds tasks under task ids, the
\* watermark is a number once it exists, and a goroutine's locals have the
\* types of the code's variables.
TypeOK ==
  /\ IsTaskMap(file)
  /\ mark \in NoMark .. MaxTaskID
  /\ holders \subseteq Proc
  /\ opened \subseteq Proc
  /\ pc \in [Proc -> PC]
  /\ req \in [Proc -> Requests \cup {NoRequest}]
  /\ DOMAIN snap = Proc /\ \A p \in Proc : IsTaskMap(snap[p])
  /\ DOMAIN batch = Proc /\ \A p \in Proc : IsTaskMap(batch[p])
  /\ newID \in [Proc -> 0 .. MaxTaskID]
  /\ outcome \in [Proc -> Outcome]
  /\ retired \subseteq TaskID
  /\ interrupted \in BOOLEAN

\* An id that a deleted task had, or that a Create lost to an error or a crash
\* after it moved the watermark, never names a task file again (store.go: the
\* watermark goes first, so that the id is not reused after a recovery).
RetiredNeverReturn == DOMAIN file \cap retired = {}

\* Whenever no operation is in its critical section, the task files form a
\* symmetric graph without a cycle, unless an error or a crash cut a batch of
\* several files short (Update and deleteTaskLocked write file by file).
GraphValidAtRest == (holders = {} /\ ~interrupted) => ValidStoredDependencies(file)

\* No caller is told that the list is corrupt, and no Store fails to open,
\* unless a batch was cut short: interleaved calls never see half of a batch.
CorruptOnlyIfInterrupted ==
  \A p \in Proc : outcome[p] = "corrupt" => interrupted

\* The plan in the list can always go on: at rest, if a task is not completed
\* then one of the open tasks shows no active blocker in ListSummaries.
SomeTaskReady ==
  (holders = {} /\ ~interrupted /\ \E i \in DOMAIN file : file[i].status # "completed")
    => \E i \in DOMAIN file : file[i].status # "completed" /\ ActiveBlockers(file, i) = {}

\* A write error leaves the task files as the failed call found them
\* (docs/superpowers/specs/2026-07-12-claude-tasklist-design.md: an atomic
\* write that fails keeps the original file).
WriteErrorKeepsFiles ==
  [][\A p \in Proc : (pc[p] = "batch" /\ outcome'[p] = "io_error") => file' = snap[p]]_vars

\* Every call of a Store returns: nobody keeps the mutex of the directory.
EveryCallReturns == \A p \in Proc : pc[p] = "wait" ~> pc[p] = "idle"

---------------------------------------------------------------------------
(* For TLC: requests that make every edit of the graph, with edges in both *)
(* directions and in one call, completion, and deletion of every task.     *)

Edges(i) ==
  {[op |-> "update", id |-> i, status |-> KeepStatus, addBlocks |-> b, addBlockedBy |-> {}] :
     b \in {{j} : j \in TaskID}}
  \cup {[op |-> "update", id |-> i, status |-> "completed", addBlocks |-> {}, addBlockedBy |-> {}]}
  \cup {[op |-> "update", id |-> i, status |-> KeepStatus, addBlocks |-> {},
         addBlockedBy |-> TaskID \ {i}]}

MCRequests ==
  {[op |-> "open"], [op |-> "create"], [op |-> "list"]}
  \cup {[op |-> "delete", id |-> i] : i \in TaskID}
  \cup UNION {Edges(i) : i \in TaskID}

\* A selection that still builds and refuses cycles, for the runs that cost more.
FewRequests ==
  {[op |-> "open"], [op |-> "create"], [op |-> "list"],
   [op |-> "delete", id |-> 1], [op |-> "delete", id |-> 2],
   [op |-> "update", id |-> 1, status |-> KeepStatus, addBlocks |-> {2}, addBlockedBy |-> {}],
   [op |-> "update", id |-> 2, status |-> KeepStatus, addBlocks |-> {1}, addBlockedBy |-> {}],
   [op |-> "update", id |-> 2, status |-> "completed", addBlocks |-> {},
    addBlockedBy |-> TaskID \ {2}]}

Sym == Permutations(Proc)
=============================================================================
