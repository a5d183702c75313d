--------------------------- MODULE TaskStoreProofs ---------------------------
(***************************************************************************)
(* Theorems about TaskStore, for any number of goroutines, any id space    *)
(* and any set of requests, with write errors and crashes.                 *)
(***************************************************************************)
EXTENDS TaskStore, TLAPS

---------------------------------------------------------------------------
(* The dependency graph: what the edits of the code preserve.              *)

LEMMA NewTaskType == NewTask \in Task
  BY DEF NewTask, Task, TaskStatus

LEMMA EmptyListValid == IsTaskMap(NoTasks) /\ ValidStoredDependencies(NoTasks)
  BY DEF NoTasks, IsTaskMap, ValidStoredDependencies, References, Acyclic

LEMMA PutType ==
  ASSUME NEW t, IsTaskMap(t), NEW i \in TaskID, NEW task \in Task
  PROVE  IsTaskMap(Put(t, i, task))
  BY DEF IsTaskMap, Put

LEMMA RestrictType ==
  ASSUME NEW t, IsTaskMap(t), NEW ids \in SUBSET DOMAIN t
  PROVE  IsTaskMap(Restrict(t, ids))
  BY DEF IsTaskMap, Restrict

\* Create adds a task that nothing refers to: the graph stays valid.
LEMMA CreateKeepsValid ==
  ASSUME NEW t, ValidStoredDependencies(t), NEW i, i \notin DOMAIN t
  PROVE  ValidStoredDependencies(Put(t, i, NewTask))
<1> DEFINE u == Put(t, i, NewTask)
<1>1. DOMAIN u = DOMAIN t \cup {i} /\ u[i] = NewTask /\ \A j \in DOMAIN t : u[j] = t[j]
  BY DEF Put
<1>2. NewTask.blocks = {} /\ NewTask.blockedBy = {}
  BY DEF NewTask
<1>3. References(t) /\ Acyclic(t)
  BY DEF ValidStoredDependencies
<1>4. References(u)
  BY <1>1, <1>2, <1>3 DEF References
<1>5. Acyclic(u)
  <2> SUFFICES ASSUME NEW S \in SUBSET DOMAIN u, S # {}
               PROVE  \E j \in S : u[j].blockedBy \cap S = {}
    BY DEF Acyclic
  <2>1. CASE S = {i}
    BY <2>1, <1>1, <1>2
  <2>2. CASE S \ {i} # {}
    <3>1. PICK j \in S \ {i} : t[j].blockedBy \cap (S \ {i}) = {}
      BY <1>1, <1>3, <2>2 DEF Acyclic
    <3>2. i \notin t[j].blockedBy
      BY <1>1, <1>3, <3>1 DEF References
    <3> QED BY <1>1, <3>1, <3>2
  <2> QED BY <2>1, <2>2
<1> QED BY <1>4, <1>5 DEF ValidStoredDependencies

\* deleteTaskLocked removes a task and every mention of it: still valid.
LEMMA DeleteKeepsValid ==
  ASSUME NEW t, IsTaskMap(t), ValidStoredDependencies(t), NEW id
  PROVE  ValidStoredDependencies(AfterDelete(id, t))
<1> DEFINE u == AfterDelete(id, t)
<1>1. /\ DOMAIN u = DOMAIN t \ {id}
      /\ \A j \in DOMAIN u : /\ u[j].blocks = t[j].blocks \ {id}
                             /\ u[j].blockedBy = t[j].blockedBy \ {id}
  BY DEF AfterDelete, WithoutReference, IsTaskMap, Task
<1>2. References(t) /\ Acyclic(t)
  BY DEF ValidStoredDependencies
<1>3. References(u)
  BY <1>1, <1>2 DEF References
<1>4. Acyclic(u)
  <2> SUFFICES ASSUME NEW S \in SUBSET DOMAIN u, S # {}
               PROVE  \E j \in S : u[j].blockedBy \cap S = {}
    BY DEF Acyclic
  <2>1. PICK j \in S : t[j].blockedBy \cap S = {}
    BY <1>1, <1>2 DEF Acyclic
  <2> QED BY <1>1, <2>1
<1> QED BY <1>3, <1>4 DEF ValidStoredDependencies

\* The edits yield tasks of the right type.
LEMMA UpdateType ==
  ASSUME NEW t, IsTaskMap(t), NEW r \in UpdateRequest, r.id \in TaskID
  PROVE  IsTaskMap(AfterUpdate(r, t)) /\ IsTaskMap(ChangedByUpdate(r, t))
<1>1. ASSUME NEW i \in DOMAIN t PROVE UpdatedTask(r, t, i) \in Task
  <2>1. t[i] \in Task BY DEF IsTaskMap
  <2>2. r.addBlocks \in SUBSET TaskID /\ r.addBlockedBy \in SUBSET TaskID
        /\ r.status \in TaskStatus \cup {KeepStatus}
    BY DEF UpdateRequest
  <2> QED BY <2>1, <2>2 DEF UpdatedTask, Task
<1> QED BY <1>1 DEF IsTaskMap, AfterUpdate, ChangedByUpdate

LEMMA DeleteType ==
  ASSUME NEW t, IsTaskMap(t), NEW id
  PROVE  IsTaskMap(ChangedByDelete(id, t))
<1>1. ASSUME NEW i \in DOMAIN t PROVE WithoutReference(t[i], id) \in Task
  BY DEF WithoutReference, IsTaskMap, Task
<1> QED BY <1>1 DEF IsTaskMap, ChangedByDelete

\* A valid graph with an open task has one that no open task blocks.
LEMMA ValidHasReadyTask ==
  ASSUME NEW t, ValidStoredDependencies(t),
         \E i \in DOMAIN t : t[i].status # "completed"
  PROVE  \E i \in DOMAIN t : t[i].status # "completed" /\ ActiveBlockers(t, i) = {}
<1> DEFINE Open == {i \in DOMAIN t : t[i].status # "completed"}
<1>1. PICK i \in Open : t[i].blockedBy \cap Open = {}
  BY DEF ValidStoredDependencies, Acyclic
<1>2. t[i].blockedBy \subseteq DOMAIN t
  BY DEF ValidStoredDependencies, References
<1>3. ActiveBlockers(t, i) = {}
  BY <1>1, <1>2 DEF ActiveBlockers
<1> QED BY <1>1, <1>3
---------------------------------------------------------------------------
(* The inductive invariant.                                                *)

InCS(p) == pc[p] \notin {"idle", "wait"}

\* One goroutine at most is in the critical section, and holders knows it.
MutexInv ==
  /\ \A p \in Proc : InCS(p) <=> p \in holders
  /\ \A p, q \in holders : p = q

\* Where a call can be, given what it asked; a Store exists only once the
\* watermark file does.
CallInv ==
  /\ opened # {} => mark # NoMark
  /\ \A p \in Proc :
       /\ pc[p] = "idle" <=> req[p] = NoRequest
       /\ pc[p] \in {"open", "openload"} => req[p].op = "open"
       /\ pc[p] = "load" => req[p].op \in {"list", "update", "delete"}
       /\ pc[p] = "batch" => req[p].op \in {"update", "delete"}
       /\ pc[p] \in {"deletemark", "remove"} => req[p].op = "delete"
       /\ mark = NoMark => pc[p] \in {"idle", "open"} \/ (pc[p] = "wait" /\ req[p].op = "open")

\* The watermark is above every id spent, and the id a Create has claimed is
\* one that nothing has had.
IDInv ==
  /\ \A i \in DOMAIN file \cup retired : i <= mark
  /\ DOMAIN file \cap retired = {}
  /\ \A p \in Proc :
       /\ pc[p] = "createmark" => newID[p] = mark + 1 /\ newID[p] \in TaskID
       /\ pc[p] = "createfile" => newID[p] = mark /\ newID[p] \in TaskID
                                  /\ newID[p] \notin DOMAIN file \cup retired
       /\ pc[p] = "deletemark" => newID[p] = mark

\* What the files will be once the batch of p is written and, for a delete,
\* the task's own file removed.
Goal(p) == IF req[p].op = "update" THEN AfterUpdate(req[p], snap[p])
                                   ELSE AfterDelete(req[p].id, snap[p])

BatchInvOf(p) ==
  /\ ValidStoredDependencies(snap[p])
  /\ ValidStoredDependencies(Goal(p))
  /\ DOMAIN file = DOMAIN snap[p]
  /\ req[p].op = "delete" => req[p].id \in DOMAIN file
  /\ DOMAIN batch[p] \subseteq DOMAIN Goal(p)
  /\ \A i \in DOMAIN Goal(p) :
       Goal(p)[i] = IF i \in DOMAIN batch[p] THEN batch[p][i] ELSE file[i]
  /\ pc[p] = "remove" => batch[p] = NoTasks
BatchInv ==
  \A p \in Proc : pc[p] \in {"deletemark", "batch", "remove"} => BatchInvOf(p)

\* Unless a batch was cut short, the files form a valid graph at every moment
\* at which no operation is between its first and its last file.
GraphInv ==
  (~interrupted /\ \A p \in Proc : ~Uncommitted(p)) => ValidStoredDependencies(file)

CorruptInv == CorruptOnlyIfInterrupted

IInv == TypeOK /\ MutexInv /\ CallInv /\ IDInv /\ BatchInv /\ GraphInv /\ CorruptInv

LEMMA InitIInv == ASSUME Init PROVE IInv
<1> USE DEF Init
<1>1. TypeOK
  <2>1. IsTaskMap(file) /\ mark \in NoMark .. MaxTaskID
    BY EmptyListValid, MaxTaskIDAssumption DEF NoMark
  <2>2. /\ DOMAIN snap = Proc /\ \A p \in Proc : IsTaskMap(snap[p])
        /\ DOMAIN batch = Proc /\ \A p \in Proc : IsTaskMap(batch[p])
    BY EmptyListValid
  <2>3. newID \in [Proc -> 0 .. MaxTaskID]
    BY MaxTaskIDAssumption
  <2> QED BY <2>1, <2>2, <2>3 DEF TypeOK, PC, Outcome
<1>2. MutexInv /\ CallInv /\ BatchInv /\ CorruptInv
  BY DEF MutexInv, InCS, CallInv, BatchInv, CorruptInv, CorruptOnlyIfInterrupted
<1>3. IDInv
  BY DEF IDInv, NoTasks
<1>4. GraphInv
  BY EmptyListValid DEF GraphInv
<1> QED BY <1>1, <1>2, <1>3, <1>4 DEF IInv

\* What holds of a call inside the critical section, and after it returns.
LEMMA AloneInside ==
  ASSUME MutexInv, NEW p \in Proc, InCS(p)
  PROVE  holders = {p} /\ \A q \in Proc : q # p => ~InCS(q)
  BY DEF MutexInv

LEMMA ReturnLeaves ==
  ASSUME TypeOK, MutexInv, NEW p \in Proc, InCS(p), NEW result, Return(p, result)
  PROVE  /\ holders' = {}
         /\ \A q \in Proc : pc'[q] \in {"idle", "wait"}
         /\ \A q \in Proc \ {p} : pc'[q] = pc[q] /\ req'[q] = req[q] /\ outcome'[q] = outcome[q]
         /\ pc'[p] = "idle" /\ req'[p] = NoRequest /\ outcome'[p] = result
         /\ MutexInv' /\ BatchInv'
<1>1. holders = {p} /\ \A q \in Proc : q # p => ~InCS(q)
  BY AloneInside
<1>2. holders' = {} /\ \A q \in Proc : pc'[q] \in {"idle", "wait"}
  BY <1>1 DEF Return, TypeOK, InCS
<1>3. /\ \A q \in Proc \ {p} : pc'[q] = pc[q] /\ req'[q] = req[q] /\ outcome'[q] = outcome[q]
      /\ pc'[p] = "idle" /\ req'[p] = NoRequest /\ outcome'[p] = result
  BY DEF Return, TypeOK
<1>4. MutexInv' /\ BatchInv'
  BY <1>2 DEF MutexInv, BatchInv, InCS
<1> QED BY <1>2, <1>3, <1>4

\* The type of the state once a call has returned.
LEMMA ReturnType ==
  ASSUME TypeOK, NEW p \in Proc, NEW result \in Outcome, Return(p, result),
         IsTaskMap(file'), mark' \in NoMark .. MaxTaskID, opened' \subseteq Proc,
         retired' \subseteq TaskID, interrupted' \in BOOLEAN
  PROVE  TypeOK'
<1>1. IsTaskMap(NoTasks)
  BY EmptyListValid
<1>2. /\ DOMAIN snap' = Proc /\ \A q \in Proc : IsTaskMap(snap'[q])
      /\ DOMAIN batch' = Proc /\ \A q \in Proc : IsTaskMap(batch'[q])
  BY <1>1 DEF TypeOK, Return
<1>3. newID' \in [Proc -> 0 .. MaxTaskID]
  BY MaxTaskIDAssumption DEF TypeOK, Return
<1>4. pc' \in [Proc -> PC] /\ req' \in [Proc -> Requests \cup {NoRequest}]
      /\ outcome' \in [Proc -> Outcome] /\ holders' \subseteq Proc
  BY DEF TypeOK, Return, PC
<1> QED BY <1>2, <1>3, <1>4 DEF TypeOK

\* The invariant after a return that leaves the disk alone.
LEMMA ReturnKeepsIInv ==
  ASSUME IInv, NEW p \in Proc, InCS(p), NEW result \in Outcome, Return(p, result),
         UNCHANGED disk, retired' \subseteq TaskID, interrupted' \in BOOLEAN,
         opened' = opened \/ (opened' = opened \cup {p} /\ mark # NoMark),
         \A i \in retired' : i <= mark /\ i \notin DOMAIN file,
         interrupted => interrupted',
         result = "corrupt" => interrupted',
         ~interrupted' => ValidStoredDependencies(file)
  PROVE  IInv'
<1> USE DEF IInv, disk
<1>1. TypeOK'
  BY ReturnType DEF TypeOK
<1>2. MutexInv' /\ BatchInv'
  BY ReturnLeaves
<1>3. CallInv'
  BY ReturnLeaves DEF CallInv
<1>4. IDInv'
  BY ReturnLeaves DEF IDInv
<1>5. GraphInv'
  BY DEF GraphInv
<1>6. CorruptInv'
  BY ReturnLeaves DEF CorruptInv, CorruptOnlyIfInterrupted
<1> QED BY <1>1, <1>2, <1>3, <1>4, <1>5, <1>6

---------------------------------------------------------------------------
(* One lemma per action.                                                   *)

LEMMA RequestShape ==
  ASSUME NEW r \in Requests
  PROVE  /\ r.op \in {"open", "create", "list", "update", "delete"}
         /\ r # NoRequest
         /\ r.op = "update" => r \in UpdateRequest
         /\ r.op = "delete" => r.id \in TaskID
  BY StoreAssumption DEF Request, UpdateRequest, NoRequest

LEMMA CallKeepsIInv ==
  ASSUME IInv, NEW p \in Proc, NEW r \in Requests, Call(p, r)
  PROVE  IInv'
<1> USE DEF IInv, Call, disk, local, history
<1>1. TypeOK'
  BY DEF TypeOK, PC, Outcome, IsTaskMap
<1>2. \A q \in Proc : q # p => pc'[q] = pc[q] /\ req'[q] = req[q] /\ outcome'[q] = outcome[q]
  BY DEF TypeOK
<1>3. pc[p] = "idle" /\ pc'[p] = "wait" /\ req'[p] = r /\ outcome'[p] = "none"
  BY DEF TypeOK
<1>4. MutexInv'
  BY <1>2, <1>3 DEF MutexInv, InCS
<1>5. CallInv'
  BY <1>2, <1>3, RequestShape DEF CallInv
<1>6. IDInv'
  BY <1>2, <1>3 DEF IDInv
<1>7. BatchInv'
  BY <1>2, <1>3 DEF BatchInv, BatchInvOf, Goal
<1>8. GraphInv'
  BY <1>2, <1>3 DEF GraphInv, Uncommitted
<1>9. CorruptInv'
  BY <1>2, <1>3 DEF CorruptInv, CorruptOnlyIfInterrupted
<1> QED BY <1>1, <1>4, <1>5, <1>6, <1>7, <1>8, <1>9

LEMMA LockKeepsIInv ==
  ASSUME IInv, NEW p \in Proc, Lock(p)
  PROVE  IInv'
<1> USE DEF IInv, Lock, disk, local, history
<1> DEFINE label == CASE req[p].op = "open"   -> "open"
                      [] req[p].op = "create" -> "create"
                      [] OTHER                -> "load"
<1>0. req[p] \in Requests
  BY DEF CallInv, TypeOK
<1>1. label \in {"open", "create", "load"}
  OBVIOUS
<1>2. \A q \in Proc : q # p => pc'[q] = pc[q] /\ ~InCS(q)
  BY DEF TypeOK, MutexFree, MutexInv
<1>3. pc[p] = "wait" /\ pc'[p] = label
  BY DEF TypeOK
<1>4. TypeOK'
  BY <1>1 DEF TypeOK, PC
<1>5. MutexInv'
  BY <1>1, <1>2, <1>3 DEF MutexInv, InCS, MutexFree
<1>6. CallInv'
  BY <1>0, <1>1, <1>2, <1>3, RequestShape DEF CallInv
<1>7. IDInv'
  BY <1>1, <1>2, <1>3 DEF IDInv
<1>8. BatchInv'
  BY <1>1, <1>2, <1>3 DEF BatchInv, InCS
<1>9. GraphInv'
  BY <1>1, <1>2, <1>3 DEF GraphInv, Uncommitted
<1>10. CorruptInv'
  BY DEF CorruptInv, CorruptOnlyIfInterrupted
<1> QED BY <1>4, <1>5, <1>6, <1>7, <1>8, <1>9, <1>10

\* What a step within the critical section shares with every other one.
LEMMA GoToInside ==
  ASSUME TypeOK, MutexInv, NEW p \in Proc, InCS(p),
         NEW label \in PC \ {"idle", "wait"}, GoTo(p, label)
  PROVE  /\ MutexInv'
         /\ pc' \in [Proc -> PC] /\ pc'[p] = label
         /\ \A q \in Proc : q # p => pc'[q] = pc[q] /\ ~InCS(q)
<1>1. pc' \in [Proc -> PC] /\ pc'[p] = label
  BY DEF GoTo, TypeOK
<1>2. \A q \in Proc : q # p => pc'[q] = pc[q] /\ ~InCS(q)
  BY AloneInside DEF GoTo, TypeOK
<1>3. MutexInv'
  BY <1>1, <1>2 DEF GoTo, MutexInv, InCS
<1> QED BY <1>1, <1>2, <1>3

LEMMA OpenMarkKeepsIInv ==
  ASSUME IInv, NEW p \in Proc, OpenMark(p)
  PROVE  IInv'
<1> USE DEF IInv, OpenMark, disk, local, history
<1>1. InCS(p)
  BY DEF InCS
<1>2. /\ MutexInv' /\ pc' \in [Proc -> PC] /\ pc'[p] = "openload"
      /\ \A q \in Proc : q # p => pc'[q] = pc[q] /\ ~InCS(q)
  BY <1>1, GoToInside DEF PC
<1>3. UNCHANGED <<req, outcome, holders>>
  BY DEF GoTo
<1>4. mark' \in 0 .. MaxTaskID /\ mark <= mark'
  BY MaxTaskIDAssumption DEF TypeOK, NoMark
<1>5. TypeOK'
  BY <1>2, <1>3, <1>4 DEF TypeOK, NoMark
<1>6. CallInv'
  BY <1>2, <1>3, <1>4 DEF CallInv, InCS, NoMark
<1>7. IDInv'
  BY <1>2, <1>3, <1>4 DEF IDInv, InCS, TypeOK, IsTaskMap, TaskID, NoMark
<1>8. BatchInv'
  BY <1>2 DEF BatchInv, InCS
<1>9. GraphInv'
  BY <1>2, <1>3 DEF GraphInv, Uncommitted, InCS
<1>10. CorruptInv'
  BY <1>3 DEF CorruptInv, CorruptOnlyIfInterrupted
<1> QED BY <1>2, <1>5, <1>6, <1>7, <1>8, <1>9, <1>10

LEMMA OpenLoadKeepsIInv ==
  ASSUME IInv, NEW p \in Proc, OpenLoad(p)
  PROVE  IInv'
<1> USE DEF IInv, OpenLoad, history
<1>1. InCS(p) /\ mark # NoMark
  BY DEF InCS, CallInv
<1>2. ~interrupted => ValidStoredDependencies(file)
  BY <1>1, AloneInside DEF GraphInv, Uncommitted, InCS
<1>3. \A i \in retired' : i <= mark /\ i \notin DOMAIN file
  BY DEF IDInv
<1> QED BY <1>1, <1>2, <1>3, ReturnKeepsIInv DEF Outcome, TypeOK

LEMMA LoadListKeepsIInv ==
  ASSUME IInv, NEW p \in Proc, LoadList(p)
  PROVE  IInv'
<1> USE DEF IInv, LoadList, history
<1>1. InCS(p)
  BY DEF InCS
<1>2. ~interrupted => ValidStoredDependencies(file)
  BY <1>1, AloneInside DEF GraphInv, Uncommitted, InCS
<1>3. \A i \in retired' : i <= mark /\ i \notin DOMAIN file
  BY DEF IDInv
<1> QED BY <1>1, <1>2, <1>3, ReturnKeepsIInv DEF Outcome, TypeOK

LEMMA LoadRejectKeepsIInv ==
  ASSUME IInv, NEW p \in Proc, LoadReject(p)
  PROVE  IInv'
<1> USE DEF IInv, LoadReject, history
<1>1. InCS(p)
  BY DEF InCS
<1>2. ~interrupted => ValidStoredDependencies(file)
  BY <1>1, AloneInside DEF GraphInv, Uncommitted, InCS
<1>3. \A i \in retired' : i <= mark /\ i \notin DOMAIN file
  BY DEF IDInv
<1> QED BY <1>1, <1>2, <1>3, ReturnKeepsIInv DEF Outcome, TypeOK

\* Under the invariant the highest id in use is the watermark.
LEMMA LastIDIsMark ==
  ASSUME TypeOK, IDInv
  PROVE  LastID = mark
  BY DEF TypeOK, IDInv, LastID, IsTaskMap, TaskID, NoMark

LEMMA CreatePlanKeepsIInv ==
  ASSUME IInv, NEW p \in Proc, CreatePlan(p)
  PROVE  IInv'
<1> USE DEF IInv, CreatePlan, disk, history
<1>1. InCS(p) /\ mark # NoMark /\ LastID = mark
  BY LastIDIsMark DEF InCS, CallInv
<1>2. ~interrupted => ValidStoredDependencies(file)
  BY <1>1, AloneInside DEF GraphInv, Uncommitted, InCS
<1>3. CASE LastID = MaxTaskID /\ Return(p, "rejected")
  <2>1. \A i \in retired' : i <= mark /\ i \notin DOMAIN file
    BY DEF IDInv
  <2> QED BY <1>1, <1>2, <1>3, <2>1, ReturnKeepsIInv DEF Outcome, TypeOK
<1>4. CASE /\ LastID < MaxTaskID
           /\ newID' = [newID EXCEPT ![p] = LastID + 1]
           /\ GoTo(p, "createmark")
           /\ UNCHANGED <<snap, batch>>
  <2>1. /\ MutexInv' /\ pc' \in [Proc -> PC] /\ pc'[p] = "createmark"
        /\ \A q \in Proc : q # p => pc'[q] = pc[q] /\ ~InCS(q)
    BY <1>1, <1>4, GoToInside DEF PC
  <2>2. UNCHANGED <<req, outcome, holders>>
    BY <1>4 DEF GoTo
  <2>3. mark + 1 \in TaskID
    BY <1>1, <1>4, MaxTaskIDAssumption DEF TypeOK, NoMark, TaskID
  <2>4. newID' \in [Proc -> 0 .. MaxTaskID] /\ newID'[p] = mark + 1
    BY <1>1, <1>4, <2>3 DEF TypeOK, TaskID
  <2>5. TypeOK'
    BY <1>4, <2>1, <2>2, <2>4 DEF TypeOK
  <2>6. CallInv'
    BY <1>1, <2>1, <2>2 DEF CallInv, InCS
  <2>7. IDInv'
    BY <2>1, <2>3, <2>4 DEF IDInv, InCS
  <2>8. BatchInv'
    BY <2>1 DEF BatchInv, InCS
  <2>9. GraphInv'
    BY <1>2 DEF GraphInv
  <2>10. CorruptInv'
    BY <2>2 DEF CorruptInv, CorruptOnlyIfInterrupted
  <2> QED BY <2>1, <2>5, <2>6, <2>7, <2>8, <2>9, <2>10
<1> QED BY <1>3, <1>4

LEMMA CreateMarkKeepsIInv ==
  ASSUME IInv, NEW p \in Proc, CreateMark(p)
  PROVE  IInv'
<1> USE DEF IInv, CreateMark, local, history
<1>1. InCS(p) /\ newID[p] = mark + 1 /\ newID[p] \in TaskID
  BY DEF InCS, IDInv
<1>2. /\ MutexInv' /\ pc' \in [Proc -> PC] /\ pc'[p] = "createfile"
      /\ \A q \in Proc : q # p => pc'[q] = pc[q] /\ ~InCS(q)
  BY <1>1, GoToInside DEF PC
<1>3. UNCHANGED <<req, outcome, holders>>
  BY DEF GoTo
<1>4. mark' = mark + 1 /\ mark' \in 1 .. MaxTaskID
  BY <1>1 DEF TaskID
<1>5. TypeOK'
  BY <1>2, <1>3, <1>4, MaxTaskIDAssumption DEF TypeOK, NoMark
<1>6. CallInv'
  BY <1>2, <1>3, <1>4, MaxTaskIDAssumption DEF CallInv, NoMark
<1>7. \A i \in DOMAIN file \cup retired : i \in Nat /\ i <= mark
  BY DEF IDInv, TypeOK, IsTaskMap, TaskID
<1>8. IDInv'
  BY <1>1, <1>2, <1>4, <1>7 DEF IDInv, InCS, TypeOK, NoMark
<1>9. BatchInv'
  BY <1>2 DEF BatchInv, InCS
<1>10. GraphInv'
  BY <1>2, <1>3 DEF GraphInv, Uncommitted, InCS
<1>11. CorruptInv'
  BY <1>3 DEF CorruptInv, CorruptOnlyIfInterrupted
<1> QED BY <1>2, <1>5, <1>6, <1>8, <1>9, <1>10, <1>11

LEMMA CreateFileKeepsIInv ==
  ASSUME IInv, NEW p \in Proc, CreateFile(p)
  PROVE  IInv'
<1> USE DEF IInv, CreateFile, history
<1>1. /\ InCS(p) /\ newID[p] = mark /\ newID[p] \in TaskID
      /\ newID[p] \notin DOMAIN file \cup retired
  BY DEF InCS, IDInv
<1>2. ~interrupted => ValidStoredDependencies(file)
  BY <1>1, AloneInside DEF GraphInv, Uncommitted, InCS
<1>3. DOMAIN file' = DOMAIN file \cup {newID[p]}
  BY DEF Put
<1>4. TypeOK'
  BY <1>1, PutType, NewTaskType, ReturnType DEF TypeOK, Outcome
<1>5. MutexInv' /\ BatchInv'
  BY <1>1, ReturnLeaves
<1>6. CallInv'
  BY <1>1, ReturnLeaves DEF CallInv
<1>7. IDInv'
  BY <1>1, <1>3, ReturnLeaves DEF IDInv, TypeOK, NoMark
<1>8. GraphInv'
  BY <1>1, <1>2, CreateKeepsValid DEF GraphInv
<1>9. CorruptInv'
  BY <1>1, ReturnLeaves DEF CorruptInv, CorruptOnlyIfInterrupted
<1> QED BY <1>4, <1>5, <1>6, <1>7, <1>8, <1>9

LEMMA LoadUpdateKeepsIInv ==
  ASSUME IInv, NEW p \in Proc, LoadUpdate(p)
  PROVE  IInv'
<1> USE DEF IInv, LoadUpdate, disk, history
<1>1. InCS(p) /\ req[p] \in Requests
  BY DEF InCS, CallInv, TypeOK
<1>2. /\ MutexInv' /\ pc' \in [Proc -> PC] /\ pc'[p] = "batch"
      /\ \A q \in Proc : q # p => pc'[q] = pc[q] /\ ~InCS(q)
  BY <1>1, GoToInside DEF PC
<1>3. UNCHANGED <<req, outcome, holders>>
  BY DEF GoTo
<1>4. req[p] \in UpdateRequest
  BY <1>1, RequestShape
<1>5. IsTaskMap(ChangedByUpdate(req[p], file))
  BY <1>4, UpdateType DEF TypeOK, UpdateRequest
<1>6. snap'[p] = file /\ batch'[p] = ChangedByUpdate(req[p], file)
  BY DEF TypeOK
<1>7. TypeOK'
  BY <1>2, <1>3, <1>5 DEF TypeOK
<1>8. CallInv'
  BY <1>2, <1>3 DEF CallInv, InCS
<1>9. IDInv'
  BY <1>2 DEF IDInv, InCS
<1>10. BatchInv'
  <2>1. Goal(p)' = AfterUpdate(req[p], file)
    BY <1>3, <1>6 DEF Goal
  <2>2. BatchInvOf(p)'
    BY <1>2, <1>3, <1>6, <2>1 DEF BatchInvOf, ChangedByUpdate, AfterUpdate
  <2> QED BY <1>2, <2>2 DEF BatchInv, InCS
<1>11. GraphInv'
  BY DEF GraphInv
<1>12. CorruptInv'
  BY <1>3 DEF CorruptInv, CorruptOnlyIfInterrupted
<1> QED BY <1>2, <1>7, <1>8, <1>9, <1>10, <1>11, <1>12

LEMMA LoadDeleteKeepsIInv ==
  ASSUME IInv, NEW p \in Proc, LoadDelete(p)
  PROVE  IInv'
<1> USE DEF IInv, LoadDelete, disk, history
<1>1. InCS(p) /\ mark # NoMark /\ LastID = mark
  BY LastIDIsMark DEF InCS, CallInv
<1>2. /\ MutexInv' /\ pc' \in [Proc -> PC] /\ pc'[p] = "deletemark"
      /\ \A q \in Proc : q # p => pc'[q] = pc[q] /\ ~InCS(q)
  BY <1>1, GoToInside DEF PC
<1>3. UNCHANGED <<req, outcome, holders>>
  BY DEF GoTo
<1>4. IsTaskMap(ChangedByDelete(req[p].id, file))
  BY DeleteType DEF TypeOK
<1>5. newID' \in [Proc -> 0 .. MaxTaskID] /\ newID'[p] = mark
  BY <1>1, MaxTaskIDAssumption DEF TypeOK, NoMark
<1>6. snap'[p] = file /\ batch'[p] = ChangedByDelete(req[p].id, file)
  BY DEF TypeOK
<1>7. TypeOK'
  BY <1>2, <1>3, <1>4, <1>5 DEF TypeOK
<1>8. CallInv'
  BY <1>1, <1>2, <1>3 DEF CallInv, InCS
<1>9. IDInv'
  BY <1>2, <1>5 DEF IDInv, InCS
<1>10. BatchInv'
  <2> DEFINE id == req[p].id
  <2>1. Goal(p)' = AfterDelete(id, file)
    BY <1>3, <1>6 DEF Goal
  <2>2. ASSUME NEW i \in DOMAIN file \ {id}, id \notin file[i].blocks \cup file[i].blockedBy
        PROVE  WithoutReference(file[i], id) = file[i]
    <3>1. file[i] \in Task
      BY DEF TypeOK, IsTaskMap
    <3>2. file[i].blocks \ {id} = file[i].blocks /\ file[i].blockedBy \ {id} = file[i].blockedBy
      BY <2>2
    <3> QED BY <3>1, <3>2 DEF WithoutReference, Task
  <2>3. DOMAIN AfterDelete(id, file) = DOMAIN file \ {id}
    BY DEF AfterDelete
  <2>4. \A i \in DOMAIN file \ {id} :
          AfterDelete(id, file)[i] = IF i \in DOMAIN ChangedByDelete(id, file)
                                     THEN ChangedByDelete(id, file)[i] ELSE file[i]
    BY <2>2 DEF AfterDelete, ChangedByDelete
  <2>5. DOMAIN ChangedByDelete(id, file) \subseteq DOMAIN file \ {id}
    BY DEF ChangedByDelete
  <2>6. ValidStoredDependencies(AfterDelete(id, file))
    BY DeleteKeepsValid DEF TypeOK
  <2>7. BatchInvOf(p)'
    BY <1>2, <1>3, <1>6, <2>1, <2>3, <2>4, <2>5, <2>6 DEF BatchInvOf
  <2> QED BY <1>2, <2>7 DEF BatchInv, InCS
<1>11. GraphInv'
  BY DEF GraphInv
<1>12. CorruptInv'
  BY <1>3 DEF CorruptInv, CorruptOnlyIfInterrupted
<1> QED BY <1>2, <1>7, <1>8, <1>9, <1>10, <1>11, <1>12

LEMMA DeleteMarkKeepsIInv ==
  ASSUME IInv, NEW p \in Proc, DeleteMark(p)
  PROVE  IInv'
<1> USE DEF IInv, DeleteMark, local, history
<1>1. InCS(p) /\ newID[p] = mark
  BY DEF InCS, IDInv
<1>2. /\ MutexInv' /\ pc' \in [Proc -> PC] /\ pc'[p] = "batch"
      /\ \A q \in Proc : q # p => pc'[q] = pc[q] /\ ~InCS(q)
  BY <1>1, GoToInside DEF PC
<1>3. UNCHANGED <<req, outcome, holders, mark>>
  BY <1>1 DEF GoTo
<1>4. TypeOK'
  BY <1>2, <1>3 DEF TypeOK
<1>5. CallInv'
  BY <1>2, <1>3 DEF CallInv, InCS
<1>6. IDInv'
  BY <1>2, <1>3 DEF IDInv, InCS
<1>7. BatchInv'
  <2>1. BatchInvOf(p)
    BY DEF BatchInv
  <2>2. BatchInvOf(p)'
    BY <1>2, <1>3, <2>1 DEF BatchInvOf, Goal
  <2> QED BY <1>2, <2>2 DEF BatchInv, InCS
<1>8. GraphInv'
  <2>1. \A q \in Proc : ~Uncommitted(q)
    BY <1>2 DEF Uncommitted, InCS
  <2> QED BY <2>1 DEF GraphInv
<1>9. CorruptInv'
  BY <1>3 DEF CorruptInv, CorruptOnlyIfInterrupted
<1> QED BY <1>2, <1>4, <1>5, <1>6, <1>7, <1>8, <1>9

LEMMA WriteBatchKeepsIInv ==
  ASSUME IInv, NEW p \in Proc, WriteBatch(p)
  PROVE  IInv'
<1> USE DEF IInv, WriteBatch, history
<1>1. InCS(p) /\ BatchInvOf(p)
  BY DEF InCS, BatchInv
<1>2. /\ MutexInv' /\ pc' \in [Proc -> PC] /\ pc'[p] = "batch"
      /\ \A q \in Proc : q # p => pc'[q] = pc[q] /\ ~InCS(q)
  BY <1>1, GoToInside DEF PC
<1>3. UNCHANGED <<req, outcome, holders>>
  BY DEF GoTo
<1>4. PICK i \in DOMAIN batch[p] :
        /\ file' = Put(file, i, batch[p][i])
        /\ batch' = [batch EXCEPT ![p] = Restrict(@, DOMAIN @ \ {i})]
  OBVIOUS
<1>5. batch'[p] = Restrict(batch[p], DOMAIN batch[p] \ {i})
  BY <1>4 DEF TypeOK
<1>6. i \in DOMAIN file /\ DOMAIN file' = DOMAIN file
  BY <1>1, <1>4 DEF BatchInvOf, Goal, AfterUpdate, AfterDelete, Put
<1>7. TypeOK'
  <2>1. IsTaskMap(file')
    BY <1>4, PutType DEF TypeOK, IsTaskMap
  <2>2. IsTaskMap(batch'[p])
    BY <1>5, RestrictType DEF TypeOK
  <2>3. DOMAIN batch' = Proc /\ \A q \in Proc : IsTaskMap(batch'[q])
    BY <1>4, <2>2 DEF TypeOK
  <2> QED BY <1>2, <1>3, <2>1, <2>3 DEF TypeOK
<1>8. CallInv'
  BY <1>2, <1>3 DEF CallInv, InCS
<1>9. IDInv'
  BY <1>2, <1>6 DEF IDInv, InCS
<1>10. BatchInv'
  <2>1. Goal(p)' = Goal(p)
    BY <1>3 DEF Goal
  <2>2. \A j \in DOMAIN Goal(p) :
          Goal(p)[j] = IF j \in DOMAIN batch'[p] THEN batch'[p][j] ELSE file'[j]
    <3> SUFFICES ASSUME NEW j \in DOMAIN Goal(p)
                 PROVE  Goal(p)[j] = IF j \in DOMAIN batch'[p] THEN batch'[p][j] ELSE file'[j]
      OBVIOUS
    <3>1. Goal(p)[j] = IF j \in DOMAIN batch[p] THEN batch[p][j] ELSE file[j]
      BY <1>1 DEF BatchInvOf
    <3>2. j \in DOMAIN file
      BY <1>1 DEF BatchInvOf, Goal, AfterUpdate, AfterDelete
    <3>3. file'[j] = IF j = i THEN batch[p][i] ELSE file[j]
      BY <1>4, <3>2 DEF Put
    <3>4. DOMAIN batch'[p] = DOMAIN batch[p] \ {i}
          /\ \A k \in DOMAIN batch[p] \ {i} : batch'[p][k] = batch[p][k]
      BY <1>5 DEF Restrict
    <3> QED BY <3>1, <3>3, <3>4
  <2>3. DOMAIN batch'[p] \subseteq DOMAIN Goal(p)
    BY <1>1, <1>5 DEF BatchInvOf, Restrict
  <2>4. BatchInvOf(p)'
    BY <1>1, <1>2, <1>3, <1>6, <2>1, <2>2, <2>3 DEF BatchInvOf
  <2> QED BY <1>2, <2>4 DEF BatchInv, InCS
<1>11. GraphInv'
  <2>1. CASE Uncommitted(p)'
    BY <2>1 DEF GraphInv
  <2>2. CASE ~Uncommitted(p)'
    <3>1. req[p].op = "update" /\ DOMAIN batch'[p] = {}
      BY <1>2, <1>3, <2>2 DEF Uncommitted, CallInv
    <3>2. BatchInvOf(p)' /\ file' \in [DOMAIN file' -> Task]
      BY <1>2, <1>7, <1>10 DEF BatchInv, TypeOK, IsTaskMap
    <3>3. file' = Goal(p)'
      BY <1>3, <3>1, <3>2 DEF BatchInvOf, Goal, AfterUpdate
    <3> QED BY <3>2, <3>3 DEF GraphInv, BatchInvOf
  <2> QED BY <2>1, <2>2
<1>12. CorruptInv'
  BY <1>3 DEF CorruptInv, CorruptOnlyIfInterrupted
<1> QED BY <1>2, <1>7, <1>8, <1>9, <1>10, <1>11, <1>12

LEMMA BatchDoneKeepsIInv ==
  ASSUME IInv, NEW p \in Proc, BatchDone(p)
  PROVE  IInv'
<1> USE DEF IInv, BatchDone, disk, local, history
<1>1. InCS(p) /\ BatchInvOf(p)
  BY DEF InCS, BatchInv
<1>2. CASE req[p].op = "update" /\ Return(p, "ok")
  <2>1. \A q \in Proc : ~Uncommitted(q)
    BY <1>1, <1>2, AloneInside DEF Uncommitted, InCS
  <2>2. ~interrupted => ValidStoredDependencies(file)
    BY <2>1 DEF GraphInv
  <2>3. \A i \in retired' : i <= mark /\ i \notin DOMAIN file
    BY DEF IDInv
  <2> QED BY <1>1, <1>2, <2>2, <2>3, ReturnKeepsIInv DEF Outcome, TypeOK
<1>3. CASE req[p].op = "delete" /\ GoTo(p, "remove") /\ UNCHANGED local
  <2>1. /\ MutexInv' /\ pc' \in [Proc -> PC] /\ pc'[p] = "remove"
        /\ \A q \in Proc : q # p => pc'[q] = pc[q] /\ ~InCS(q)
    BY <1>1, <1>3, GoToInside DEF PC
  <2>2. UNCHANGED <<req, outcome, holders>>
    BY <1>3 DEF GoTo
  <2>3. TypeOK'
    BY <1>3, <2>1, <2>2 DEF TypeOK
  <2>4. CallInv'
    BY <1>3, <2>1, <2>2 DEF CallInv, InCS
  <2>5. IDInv'
    BY <2>1 DEF IDInv, InCS
  <2>6. BatchInv'
    <3>1. batch[p] = NoTasks
      BY DEF TypeOK, IsTaskMap, NoTasks
    <3>2. BatchInvOf(p)'
      BY <1>1, <1>3, <2>1, <2>2, <3>1 DEF BatchInvOf, Goal
    <3> QED BY <2>1, <3>2 DEF BatchInv, InCS
  <2>7. GraphInv'
    BY <2>1, <2>2 DEF GraphInv, Uncommitted
  <2>8. CorruptInv'
    BY <2>2 DEF CorruptInv, CorruptOnlyIfInterrupted
  <2> QED BY <2>1, <2>3, <2>4, <2>5, <2>6, <2>7, <2>8
<1> QED BY <1>2, <1>3

LEMMA RemoveFileKeepsIInv ==
  ASSUME IInv, NEW p \in Proc, RemoveFile(p)
  PROVE  IInv'
<1> USE DEF IInv, RemoveFile
<1>1. InCS(p) /\ BatchInvOf(p) /\ req[p].op = "delete"
  BY DEF InCS, BatchInv, CallInv
<1>2. DOMAIN file' = DOMAIN file \ {req[p].id} /\ req[p].id \in DOMAIN file
  BY <1>1 DEF Restrict, BatchInvOf
<1>3. IsTaskMap(file') /\ retired' \subseteq TaskID
  BY <1>2, RestrictType DEF TypeOK, IsTaskMap
<1>4. TypeOK'
  BY <1>3, ReturnType DEF TypeOK, Outcome
<1>5. MutexInv' /\ BatchInv'
  BY <1>1, ReturnLeaves
<1>6. CallInv'
  BY <1>1, ReturnLeaves DEF CallInv
<1>7. IDInv'
  BY <1>1, <1>2, ReturnLeaves DEF IDInv
<1>8. ValidStoredDependencies(file')
  <2>1. file' = Goal(p)
    BY <1>1 DEF BatchInvOf, Goal, AfterDelete, Restrict, NoTasks
  <2> QED BY <1>1, <2>1 DEF BatchInvOf
<1>9. GraphInv'
  BY <1>8 DEF GraphInv
<1>10. CorruptInv'
  BY <1>1, ReturnLeaves DEF CorruptInv, CorruptOnlyIfInterrupted
<1> QED BY <1>4, <1>5, <1>6, <1>7, <1>9, <1>10

\* If no batch is being cut short, the files are valid as they stand.
LEMMA NotCutShort ==
  ASSUME IInv, ~interrupted, \A p \in Proc : ~CutShort(p)
  PROVE  ValidStoredDependencies(file)
<1>1. CASE \A p \in Proc : ~Uncommitted(p)
  BY <1>1 DEF IInv, GraphInv
<1>2. CASE \E p \in Proc : Uncommitted(p)
  <2>1. PICK p \in Proc : Uncommitted(p)
    BY <1>2
  <2>2. file = snap[p]
    BY <2>1 DEF CutShort
  <2> QED BY <2>1, <2>2 DEF IInv, BatchInv, BatchInvOf, Uncommitted
<1> QED BY <1>1, <1>2

LEMMA WriteErrorKeepsIInv ==
  ASSUME IInv, NEW p \in Proc, WriteError(p)
  PROVE  IInv'
<1> USE DEF WriteError
<1>1. InCS(p)
  BY DEF InCS, WritePC
<1>2. retired' \subseteq TaskID /\ interrupted' \in BOOLEAN
  BY DEF IInv, TypeOK, IDInv, LostID
<1>3. \A i \in retired' : i <= mark /\ i \notin DOMAIN file
  BY DEF IInv, IDInv, LostID, TypeOK, NoMark
<1>4. ~interrupted' => ValidStoredDependencies(file)
  <2> SUFFICES ASSUME ~interrupted, ~CutShort(p) PROVE ValidStoredDependencies(file)
    OBVIOUS
  <2>1. \A q \in Proc : ~CutShort(q)
    BY <1>1, AloneInside DEF CutShort, Uncommitted, InCS, IInv
  <2> QED BY <2>1, NotCutShort
<1> QED BY <1>1, <1>2, <1>3, <1>4, ReturnKeepsIInv DEF Outcome

LEMMA CrashKeepsIInv ==
  ASSUME IInv, Crash
  PROVE  IInv'
<1> USE DEF Crash, disk
<1>1. retired' \subseteq TaskID /\ interrupted' \in BOOLEAN
  BY DEF IInv, TypeOK, IDInv, LostID
<1>2. TypeOK'
  <2>1. /\ DOMAIN snap' = Proc /\ \A p \in Proc : IsTaskMap(snap'[p])
        /\ DOMAIN batch' = Proc /\ \A p \in Proc : IsTaskMap(batch'[p])
    BY EmptyListValid
  <2>2. newID' \in [Proc -> 0 .. MaxTaskID]
    BY MaxTaskIDAssumption
  <2> QED BY <1>1, <2>1, <2>2 DEF IInv, TypeOK, PC, Outcome
<1>3. MutexInv' /\ CallInv' /\ BatchInv' /\ CorruptInv'
  BY DEF MutexInv, InCS, CallInv, BatchInv, CorruptInv, CorruptOnlyIfInterrupted
<1>4. IDInv'
  BY DEF IInv, IDInv, LostID, TypeOK, NoMark
<1>5. GraphInv'
  BY NotCutShort DEF GraphInv
<1> QED BY <1>2, <1>3, <1>4, <1>5 DEF IInv

---------------------------------------------------------------------------
(* The theorems.                                                           *)

LEMMA StutterKeepsIInv ==
  ASSUME IInv, UNCHANGED vars
  PROVE  IInv'
BY DEF IInv, vars, TypeOK, MutexInv, InCS, CallInv, IDInv, BatchInv, BatchInvOf, Goal,
       GraphInv, Uncommitted, CorruptInv, CorruptOnlyIfInterrupted

LEMMA StepKeepsIInv ==
  ASSUME IInv, [Next]_vars
  PROVE  IInv'
<1>1. ASSUME NEW p \in Proc, NEW r \in Requests, Call(p, r) PROVE IInv'
  BY <1>1, CallKeepsIInv
<1>2. ASSUME NEW p \in Proc, Step(p) PROVE IInv'
  BY <1>2, LockKeepsIInv, OpenMarkKeepsIInv, OpenLoadKeepsIInv, CreatePlanKeepsIInv,
     CreateMarkKeepsIInv, CreateFileKeepsIInv, LoadListKeepsIInv, LoadRejectKeepsIInv,
     LoadUpdateKeepsIInv, LoadDeleteKeepsIInv, DeleteMarkKeepsIInv, WriteBatchKeepsIInv,
     BatchDoneKeepsIInv, RemoveFileKeepsIInv DEF Step
<1>3. ASSUME NEW p \in Proc, WriteError(p) PROVE IInv'
  BY <1>3, WriteErrorKeepsIInv
<1>4. CASE Crash
  BY <1>4, CrashKeepsIInv
<1>5. CASE UNCHANGED vars
  BY <1>5, StutterKeepsIInv
<1> QED BY <1>1, <1>2, <1>3, <1>4, <1>5 DEF Next

\* The inductive invariant holds of every behaviour of the store.
THEOREM InductiveInvariant == Spec => []IInv
<1>1. Init => IInv
  BY InitIInv
<1>2. IInv /\ [Next]_vars => IInv'
  BY StepKeepsIInv
<1> QED BY <1>1, <1>2, PTL DEF Spec

\* The variables of the store keep their types.
THEOREM TypeCorrect == Spec => []TypeOK
<1>1. IInv => TypeOK
  BY DEF IInv
<1> QED BY <1>1, InductiveInvariant, PTL

\* An id that was deleted or lost never names a task file again.
THEOREM IDsNeverReused == Spec => []RetiredNeverReturn
<1>1. IInv => RetiredNeverReturn
  BY DEF IInv, IDInv, RetiredNeverReturn
<1> QED BY <1>1, InductiveInvariant, PTL

\* At rest the task files form a valid graph unless a batch was cut short.
THEOREM GraphStaysValid == Spec => []GraphValidAtRest
<1>1. IInv => GraphValidAtRest
  BY DEF IInv, MutexInv, InCS, GraphInv, Uncommitted, GraphValidAtRest
<1> QED BY <1>1, InductiveInvariant, PTL

\* No call reports a corrupt list unless a batch was cut short.
THEOREM CorruptionNeedsInterruption == Spec => []CorruptOnlyIfInterrupted
<1>1. IInv => CorruptOnlyIfInterrupted
  BY DEF IInv, CorruptInv
<1> QED BY <1>1, InductiveInvariant, PTL

\* At rest a plan with an open task always has one that can be started.
THEOREM PlanCanGoOn == Spec => []SomeTaskReady
<1>1. IInv => SomeTaskReady
  BY ValidHasReadyTask DEF IInv, MutexInv, InCS, GraphInv, Uncommitted, SomeTaskReady
<1> QED BY <1>1, InductiveInvariant, PTL

---------------------------------------------------------------------------
(* The refinement.  An operation takes effect with the last of its files:  *)
(* every other step leaves the mapped state alone.  Only a fault that cuts *)
(* a batch of several files short has no counterpart in TaskGraph.         *)

\* An update still being written passed its checks on the snapshot it edits,
\* and a delete that has its watermark to write has written nothing else.
EditInv ==
  \A p \in Proc :
    /\ (pc[p] = "batch" /\ req[p].op = "update") => ValidUpdate(req[p], snap[p])
    /\ pc[p] = "deletemark" => file = snap[p]

GraphStep == Promise!Next \/ UNCHANGED <<Committed, DOMAIN file \cup retired>>

LEMMA SameOperators ==
  /\ Promise!TaskID = TaskID /\ Promise!NewTask = NewTask
  /\ \A t, i, task : Promise!Put(t, i, task) = Put(t, i, task)
  /\ \A t : Promise!ValidStoredDependencies(t) = ValidStoredDependencies(t)
  /\ \A r, t : Promise!ValidUpdate(r, t) = ValidUpdate(r, t)
  /\ \A r, t : Promise!AfterUpdate(r, t) = AfterUpdate(r, t)
  /\ \A t, i : Promise!AfterDelete(i, t) = AfterDelete(i, t)
<1>1. Promise!TaskID = TaskID /\ Promise!NewTask = NewTask
  BY DEF Promise!TaskID, TaskID, Promise!NewTask, NewTask
<1>2. \A t, i, task : Promise!Put(t, i, task) = Put(t, i, task)
  BY DEF Promise!Put, Put
<1>3. \A t : Promise!ValidStoredDependencies(t) = ValidStoredDependencies(t)
  BY DEF Promise!ValidStoredDependencies, ValidStoredDependencies, Promise!References,
         References, Promise!Acyclic, Acyclic
<1>4. \A r, t : Promise!ValidUpdate(r, t) = ValidUpdate(r, t)
  BY DEF Promise!ValidUpdate, ValidUpdate, Promise!KeepStatus, KeepStatus
<1>5. \A r, t : Promise!AfterUpdate(r, t) = AfterUpdate(r, t)
  BY DEF Promise!AfterUpdate, AfterUpdate, Promise!UpdatedTask, UpdatedTask,
         Promise!KeepStatus, KeepStatus
<1>6. \A t, i : Promise!AfterDelete(i, t) = AfterDelete(i, t)
  BY DEF Promise!AfterDelete, AfterDelete, Promise!WithoutReference, WithoutReference
<1> QED BY <1>1, <1>2, <1>3, <1>4, <1>5, <1>6

\* Before and after a step, as the pcs tell them, what the callers may believe.
LEMMA CommittedIsFile ==
  ASSUME \A q \in Proc : ~Uncommitted(q)
  PROVE  Committed = file
  BY DEF Committed

LEMMA CommittedIsSnap ==
  ASSUME NEW p \in Proc, Uncommitted(p), \A q \in Proc : q # p => ~Uncommitted(q)
  PROVE  Committed = snap[p]
<1>1. (CHOOSE q \in Proc : Uncommitted(q)) = p
  OBVIOUS
<1> QED BY <1>1 DEF Committed

LEMMA CommittedIsFileNext ==
  ASSUME \A q \in Proc : ~Uncommitted(q)'
  PROVE  Committed' = file'
  BY DEF Committed

LEMMA CommittedIsSnapNext ==
  ASSUME NEW p \in Proc, Uncommitted(p)', \A q \in Proc : q # p => ~Uncommitted(q)'
  PROVE  Committed' = snap'[p]
<1>1. (CHOOSE q \in Proc : Uncommitted(q)') = p
  OBVIOUS
<1> QED BY <1>1 DEF Committed

LEMMA OutsideIsCommitted ==
  ASSUME NEW q \in Proc, ~InCS(q)
  PROVE  ~Uncommitted(q)
  BY DEF InCS, Uncommitted

\* After a return nobody is between the first and the last file of a batch.
LEMMA ReturnCommits ==
  ASSUME IInv, NEW p \in Proc, InCS(p), NEW result, Return(p, result)
  PROVE  Committed' = file' /\ EditInv'
<1>1. \A q \in Proc : pc'[q] \in {"idle", "wait"}
  BY ReturnLeaves DEF IInv
<1>2. \A q \in Proc : ~Uncommitted(q)'
  BY <1>1 DEF Uncommitted
<1> QED BY <1>1, <1>2, CommittedIsFileNext DEF EditInv

\* So does a return that finds no batch begun: it changes nothing.
LEMMA ReturnStutters ==
  ASSUME IInv, NEW p \in Proc, InCS(p), NEW result, Return(p, result),
         ~Uncommitted(p), file' = file, retired' = retired
  PROVE  GraphStep /\ EditInv'
<1>1. \A q \in Proc : ~Uncommitted(q)
  BY AloneInside, OutsideIsCommitted DEF IInv
<1>2. Committed = file
  BY <1>1, CommittedIsFile
<1> QED BY <1>2, ReturnCommits DEF GraphStep

\* And a step that begins no batch.
LEMMA MoveStutters ==
  ASSUME IInv, NEW p \in Proc, InCS(p), ~Uncommitted(p),
         NEW label \in {"openload", "createmark", "createfile"}, GoTo(p, label),
         file' = file, retired' = retired
  PROVE  GraphStep /\ EditInv'
<1>1. \A q \in Proc : q # p => ~InCS(q)
  BY AloneInside DEF IInv
<1>2. pc'[p] = label /\ \A q \in Proc : q # p => pc'[q] = pc[q]
  BY DEF GoTo, IInv, TypeOK
<1>3. \A q \in Proc : ~Uncommitted(q) /\ ~Uncommitted(q)'
  BY <1>1, <1>2, OutsideIsCommitted DEF Uncommitted, InCS
<1>4. Committed = file /\ Committed' = file'
  BY <1>3, CommittedIsFile, CommittedIsFileNext
<1>5. EditInv'
  BY <1>1, <1>2 DEF EditInv, InCS
<1> QED BY <1>4, <1>5 DEF GraphStep

LEMMA CallMapped ==
  ASSUME IInv, EditInv, NEW p \in Proc, NEW r \in Requests, Call(p, r)
  PROVE  GraphStep /\ EditInv'
<1> USE DEF Call, disk, local, history
<1>1. /\ pc[p] = "idle" /\ pc'[p] = "wait"
      /\ \A q \in Proc : q # p => pc'[q] = pc[q] /\ req'[q] = req[q]
  BY DEF IInv, TypeOK
<1>2. \A q \in Proc : Uncommitted(q)' <=> Uncommitted(q)
  BY <1>1 DEF Uncommitted
<1>3. Committed' = Committed
  <2>1. CASE \A q \in Proc : ~Uncommitted(q)
    BY <1>2, <2>1, CommittedIsFile, CommittedIsFileNext
  <2>2. CASE \E q \in Proc : Uncommitted(q)
    <3>1. PICK q \in Proc : Uncommitted(q)
      BY <2>2
    <3>2. InCS(q) /\ \A s \in Proc : s # q => ~InCS(s)
      BY <3>1, OutsideIsCommitted, AloneInside DEF IInv
    <3>3. \A s \in Proc : s # q => ~Uncommitted(s)
      BY <3>2, OutsideIsCommitted
    <3> QED BY <1>2, <3>1, <3>3, CommittedIsSnap, CommittedIsSnapNext
  <2> QED BY <2>1, <2>2
<1>4. EditInv'
  BY <1>1 DEF EditInv
<1> QED BY <1>3, <1>4 DEF GraphStep

LEMMA LockMapped ==
  ASSUME IInv, EditInv, NEW p \in Proc, Lock(p)
  PROVE  GraphStep /\ EditInv'
<1> USE DEF Lock, disk, local, history
<1>1. \A q \in Proc : ~InCS(q)
  BY DEF MutexFree, IInv, MutexInv
<1>2. pc'[p] \in {"open", "create", "load"} /\ \A q \in Proc : q # p => pc'[q] = pc[q]
  BY DEF IInv, TypeOK
<1>3. \A q \in Proc : ~Uncommitted(q) /\ ~Uncommitted(q)'
  BY <1>1, <1>2 DEF Uncommitted, InCS
<1>4. Committed = file /\ Committed' = file'
  BY <1>3, CommittedIsFile, CommittedIsFileNext
<1>5. EditInv'
  BY <1>1, <1>2 DEF EditInv, InCS
<1> QED BY <1>4, <1>5 DEF GraphStep

\* Create takes effect when the new task's file is written.
LEMMA CreateFileMapped ==
  ASSUME IInv, EditInv, NEW p \in Proc, CreateFile(p)
  PROVE  GraphStep /\ EditInv'
<1> USE DEF CreateFile, history
<1>1. /\ InCS(p) /\ ~Uncommitted(p) /\ newID[p] = mark /\ newID[p] \in TaskID
      /\ newID[p] \notin DOMAIN file \cup retired
  BY DEF InCS, Uncommitted, IInv, IDInv
<1>2. \A q \in Proc : ~Uncommitted(q)
  BY <1>1, AloneInside, OutsideIsCommitted DEF IInv
<1>3. Committed = file /\ Committed' = file' /\ EditInv'
  BY <1>1, <1>2, CommittedIsFile, ReturnCommits
<1>4. Promise!Fresh(newID[p])
  <2>1. \A s \in DOMAIN file \cup retired : s \in Nat /\ s <= mark /\ s # mark
    BY <1>1 DEF IInv, IDInv, TypeOK, IsTaskMap, TaskID
  <2>2. \A s \in DOMAIN file \cup retired : s < newID[p]
    BY <1>1, <2>1 DEF TaskID
  <2> QED BY <1>1, <2>2, SameOperators DEF Promise!Fresh
<1>5. DOMAIN file' \cup retired' = (DOMAIN file \cup retired) \cup {newID[p]}
  BY DEF Put
<1>6. Promise!Create(newID[p])
  BY <1>3, <1>4, <1>5, SameOperators DEF Promise!Create
<1> QED BY <1>1, <1>3, <1>6, SameOperators DEF GraphStep, Promise!Next

LEMMA LoadUpdateMapped ==
  ASSUME IInv, EditInv, NEW p \in Proc, LoadUpdate(p)
  PROVE  GraphStep /\ EditInv'
<1> USE DEF LoadUpdate, disk, history
<1>1. InCS(p) /\ ~Uncommitted(p)
  BY DEF InCS, Uncommitted
<1>2. \A q \in Proc : q # p => ~InCS(q)
  BY <1>1, AloneInside DEF IInv
<1>3. /\ pc'[p] = "batch" /\ snap'[p] = file /\ batch'[p] = ChangedByUpdate(req[p], file)
      /\ req' = req /\ \A q \in Proc : q # p => pc'[q] = pc[q]
  BY DEF GoTo, IInv, TypeOK
<1>4. Uncommitted(p)'
  <2>1. req[p].id \in DOMAIN batch'[p]
    BY <1>3 DEF ValidUpdate, ChangedByUpdate
  <2> QED BY <1>3, <2>1 DEF Uncommitted
<1>5. \A q \in Proc : ~Uncommitted(q) /\ (q # p => ~Uncommitted(q)')
  BY <1>1, <1>2, <1>3, OutsideIsCommitted DEF Uncommitted, InCS
<1>6. Committed = file /\ Committed' = file
  BY <1>3, <1>4, <1>5, CommittedIsFile, CommittedIsSnapNext
<1>7. EditInv'
  BY <1>2, <1>3 DEF EditInv, InCS
<1> QED BY <1>6, <1>7 DEF GraphStep

LEMMA LoadDeleteMapped ==
  ASSUME IInv, EditInv, NEW p \in Proc, LoadDelete(p)
  PROVE  GraphStep /\ EditInv'
<1> USE DEF LoadDelete, disk, history
<1>1. InCS(p) /\ ~Uncommitted(p)
  BY DEF InCS, Uncommitted
<1>2. \A q \in Proc : q # p => ~InCS(q)
  BY <1>1, AloneInside DEF IInv
<1>3. /\ pc'[p] = "deletemark" /\ snap'[p] = file
      /\ req' = req /\ \A q \in Proc : q # p => pc'[q] = pc[q]
  BY DEF GoTo, IInv, TypeOK
<1>4. \A q \in Proc : ~Uncommitted(q) /\ ~Uncommitted(q)'
  BY <1>1, <1>2, <1>3, OutsideIsCommitted DEF Uncommitted, InCS
<1>5. Committed = file /\ Committed' = file
  BY <1>4, CommittedIsFile, CommittedIsFileNext
<1>6. EditInv'
  BY <1>2, <1>3 DEF EditInv, InCS
<1> QED BY <1>5, <1>6 DEF GraphStep

LEMMA DeleteMarkMapped ==
  ASSUME IInv, EditInv, NEW p \in Proc, DeleteMark(p)
  PROVE  GraphStep /\ EditInv'
<1> USE DEF DeleteMark, local, history
<1>1. InCS(p) /\ ~Uncommitted(p) /\ req[p].op = "delete" /\ file = snap[p]
  BY DEF InCS, Uncommitted, EditInv, IInv, CallInv
<1>2. \A q \in Proc : q # p => ~InCS(q)
  BY <1>1, AloneInside DEF IInv
<1>3. /\ pc'[p] = "batch" /\ snap' = snap /\ req' = req
      /\ \A q \in Proc : q # p => pc'[q] = pc[q]
  BY DEF GoTo, IInv, TypeOK
<1>4. Uncommitted(p)' /\ \A q \in Proc : ~Uncommitted(q) /\ (q # p => ~Uncommitted(q)')
  BY <1>1, <1>2, <1>3, OutsideIsCommitted DEF Uncommitted, InCS
<1>5. Committed = file /\ Committed' = snap[p]
  BY <1>3, <1>4, CommittedIsFile, CommittedIsSnapNext
<1>6. EditInv'
  BY <1>1, <1>2, <1>3 DEF EditInv, InCS
<1> QED BY <1>1, <1>5, <1>6 DEF GraphStep

\* Update takes effect with the last file of its batch.
LEMMA WriteBatchMapped ==
  ASSUME IInv, EditInv, NEW p \in Proc, WriteBatch(p)
  PROVE  GraphStep /\ EditInv'
<1> USE DEF WriteBatch, history
<1>1. /\ InCS(p) /\ BatchInvOf(p) /\ DOMAIN batch[p] # {}
      /\ req[p].op \in {"update", "delete"}
  BY DEF InCS, IInv, BatchInv, CallInv
<1>2. \A q \in Proc : q # p => ~InCS(q)
  BY <1>1, AloneInside DEF IInv
<1>3. /\ pc'[p] = "batch" /\ snap' = snap /\ req' = req
      /\ \A q \in Proc : q # p => pc'[q] = pc[q]
  BY DEF GoTo, IInv, TypeOK
<1>4. Uncommitted(p) /\ \A q \in Proc : q # p => ~Uncommitted(q) /\ ~Uncommitted(q)'
  BY <1>1, <1>2, <1>3, OutsideIsCommitted DEF Uncommitted, InCS
<1>5. Committed = snap[p]
  BY <1>4, CommittedIsSnap
<1>6. EditInv'
  BY <1>2, <1>3 DEF EditInv, InCS
<1>7. DOMAIN file' = DOMAIN file
  BY <1>1 DEF BatchInvOf, Goal, AfterUpdate, AfterDelete, Put
<1>8. CASE Uncommitted(p)'
  <2>1. Committed' = snap[p]
    BY <1>3, <1>4, <1>8, CommittedIsSnapNext
  <2> QED BY <1>5, <1>6, <1>7, <2>1 DEF GraphStep
<1>9. CASE ~Uncommitted(p)'
  <2>1. req[p].op = "update" /\ DOMAIN batch'[p] = {}
    BY <1>1, <1>3, <1>9 DEF Uncommitted
  <2>2. Committed' = file'
    BY <1>4, <1>9, CommittedIsFileNext
  <2>3. IInv'
    BY WriteBatchKeepsIInv
  <2>4. BatchInvOf(p)' /\ file' \in [DOMAIN file' -> Task]
    BY <1>3, <2>3 DEF IInv, BatchInv, TypeOK, IsTaskMap
  <2>5. file' = AfterUpdate(req[p], snap[p])
    BY <1>3, <2>1, <2>4 DEF BatchInvOf, Goal, AfterUpdate
  <2>6. ValidUpdate(req[p], snap[p]) /\ ValidStoredDependencies(AfterUpdate(req[p], snap[p]))
    BY <1>1, <2>1 DEF EditInv, BatchInvOf, Goal
  <2>7. Promise!Update(req[p])
    BY <1>5, <1>7, <2>2, <2>5, <2>6, SameOperators DEF Promise!Update
  <2>8. req[p] \in Requests
    BY DEF IInv, CallInv, TypeOK
  <2> QED BY <1>6, <2>1, <2>7, <2>8 DEF GraphStep, Promise!Next
<1> QED BY <1>8, <1>9

LEMMA BatchDoneMapped ==
  ASSUME IInv, EditInv, NEW p \in Proc, BatchDone(p)
  PROVE  GraphStep /\ EditInv'
<1> USE DEF BatchDone, disk, local, history
<1>1. InCS(p)
  BY DEF InCS
<1>2. CASE req[p].op = "update" /\ Return(p, "ok")
  BY <1>1, <1>2, ReturnStutters DEF Uncommitted
<1>3. CASE req[p].op = "delete" /\ GoTo(p, "remove") /\ UNCHANGED local
  <2>1. \A q \in Proc : q # p => ~InCS(q)
    BY <1>1, AloneInside DEF IInv
  <2>2. /\ pc'[p] = "remove" /\ snap' = snap /\ req' = req
        /\ \A q \in Proc : q # p => pc'[q] = pc[q]
    BY <1>3 DEF GoTo, IInv, TypeOK
  <2>3. /\ Uncommitted(p) /\ Uncommitted(p)'
        /\ \A q \in Proc : q # p => ~Uncommitted(q) /\ ~Uncommitted(q)'
    BY <1>3, <2>1, <2>2, OutsideIsCommitted DEF Uncommitted, InCS
  <2>4. Committed = snap[p] /\ Committed' = snap[p]
    BY <2>2, <2>3, CommittedIsSnap, CommittedIsSnapNext
  <2>5. EditInv'
    BY <2>1, <2>2 DEF EditInv, InCS
  <2> QED BY <2>4, <2>5 DEF GraphStep
<1> QED BY <1>2, <1>3

\* A delete takes effect when the task's own file goes.
LEMMA RemoveFileMapped ==
  ASSUME IInv, EditInv, NEW p \in Proc, RemoveFile(p)
  PROVE  GraphStep /\ EditInv'
<1> USE DEF RemoveFile
<1> DEFINE id == req[p].id
<1>1. InCS(p) /\ BatchInvOf(p) /\ req[p].op = "delete" /\ Uncommitted(p)
  BY DEF InCS, IInv, BatchInv, CallInv, Uncommitted
<1>2. \A q \in Proc : q # p => ~Uncommitted(q)
  BY <1>1, AloneInside, OutsideIsCommitted DEF IInv
<1>3. Committed = snap[p] /\ Committed' = file' /\ EditInv'
  BY <1>1, <1>2, CommittedIsSnap, ReturnCommits
<1>4. file' = AfterDelete(id, snap[p])
  BY <1>1 DEF BatchInvOf, Goal, AfterDelete, Restrict, NoTasks
<1>5. id \in DOMAIN snap[p] /\ id \in TaskID
  BY <1>1 DEF BatchInvOf, IInv, TypeOK, IsTaskMap
<1>6. DOMAIN file' \cup retired' = DOMAIN file \cup retired
  BY <1>1, <1>5 DEF BatchInvOf, Restrict
<1>7. Promise!Delete(id)
  BY <1>3, <1>4, <1>5, <1>6, SameOperators DEF Promise!Delete
<1> QED BY <1>3, <1>5, <1>7, SameOperators DEF GraphStep, Promise!Next

\* A fault that cuts no batch short stutters, or costs a Create its id.
LEMMA LostIDBurns ==
  ASSUME IInv, NEW p \in Proc, pc[p] = "createfile",
         file' = file, retired' = retired \cup {newID[p]}, Committed' = Committed
  PROVE  GraphStep
<1>1. newID[p] = mark /\ newID[p] \in TaskID /\ newID[p] \notin DOMAIN file \cup retired
  BY DEF IInv, IDInv
<1>2. \A s \in DOMAIN file \cup retired : s \in Nat /\ s <= mark /\ s # mark
  BY <1>1 DEF IInv, IDInv, TypeOK, IsTaskMap, TaskID
<1>3. \A s \in DOMAIN file \cup retired : s < newID[p]
  BY <1>1, <1>2 DEF TaskID
<1>4. Promise!Burn(newID[p])
  BY <1>1, <1>3, SameOperators DEF Promise!Burn, Promise!Fresh
<1> QED BY <1>1, <1>4, SameOperators DEF GraphStep, Promise!Next

LEMMA WriteErrorMapped ==
  ASSUME IInv, EditInv, NEW p \in Proc, WriteError(p)
  PROVE  (interrupted' \/ GraphStep) /\ EditInv'
<1> USE DEF WriteError, disk
<1>1. InCS(p)
  BY DEF InCS, WritePC
<1>2. Committed' = file /\ EditInv'
  BY <1>1, ReturnCommits
<1>3. ASSUME ~interrupted' PROVE GraphStep
  <2>1. ~CutShort(p)
    BY <1>3
  <2>2. \A q \in Proc : q # p => ~Uncommitted(q)
    BY <1>1, AloneInside, OutsideIsCommitted DEF IInv
  <2>3. Committed = file
    BY <2>1, <2>2, CommittedIsFile, CommittedIsSnap DEF CutShort
  <2>4. CASE pc[p] = "createfile"
    BY <1>2, <2>3, <2>4, LostIDBurns DEF LostID
  <2>5. CASE pc[p] # "createfile"
    BY <1>2, <2>3, <2>5 DEF LostID, GraphStep
  <2> QED BY <2>4, <2>5
<1> QED BY <1>2, <1>3

LEMMA CrashMapped ==
  ASSUME IInv, EditInv, Crash
  PROVE  (interrupted' \/ GraphStep) /\ EditInv'
<1> USE DEF Crash, disk
<1>1. \A q \in Proc : pc'[q] = "idle"
  OBVIOUS
<1>2. Committed' = file /\ EditInv'
  <2>1. \A q \in Proc : ~Uncommitted(q)'
    BY <1>1 DEF Uncommitted
  <2> QED BY <1>1, <2>1, CommittedIsFileNext DEF EditInv
<1>3. ASSUME ~interrupted' PROVE GraphStep
  <2>1. \A q \in Proc : ~CutShort(q)
    BY <1>3
  <2>2. Committed = file
    <3>1. CASE \A q \in Proc : ~Uncommitted(q)
      BY <3>1, CommittedIsFile
    <3>2. CASE \E q \in Proc : Uncommitted(q)
      <4>1. PICK q \in Proc : Uncommitted(q)
        BY <3>2
      <4>2. \A s \in Proc : s # q => ~Uncommitted(s)
        BY <4>1, OutsideIsCommitted, AloneInside DEF IInv
      <4> QED BY <2>1, <4>1, <4>2, CommittedIsSnap DEF CutShort
    <3> QED BY <3>1, <3>2
  <2>3. CASE \E p \in Proc : pc[p] = "createfile"
    <3>1. PICK p \in Proc : pc[p] = "createfile"
      BY <2>3
    <3>2. \A q \in Proc : q # p => pc[q] # "createfile"
      BY <3>1, AloneInside DEF IInv, InCS
    <3>3. UNION {LostID(q) : q \in Proc} = {newID[p]}
      BY <3>1, <3>2 DEF LostID
    <3> QED BY <1>2, <2>2, <3>1, <3>3, LostIDBurns
  <2>4. CASE \A p \in Proc : pc[p] # "createfile"
    <3>1. UNION {LostID(q) : q \in Proc} = {}
      BY <2>4 DEF LostID
    <3> QED BY <1>2, <2>2, <3>1 DEF GraphStep
  <2> QED BY <2>3, <2>4
<1> QED BY <1>2, <1>3

LEMMA StepMapped ==
  ASSUME IInv, EditInv, [Next]_vars
  PROVE  (interrupted' \/ GraphStep) /\ EditInv'
<1>1. ASSUME NEW p \in Proc, NEW r \in Requests, Call(p, r) PROVE GraphStep /\ EditInv'
  BY <1>1, CallMapped
<1>2. ASSUME NEW p \in Proc,
             OpenMark(p) \/ OpenLoad(p) \/ CreatePlan(p) \/ CreateMark(p) \/ LoadList(p)
               \/ LoadReject(p)
      PROVE  GraphStep /\ EditInv'
  <2>1. InCS(p) /\ ~Uncommitted(p) /\ file' = file /\ retired' = retired
    BY <1>2 DEF OpenMark, OpenLoad, CreatePlan, CreateMark, LoadList, LoadReject, InCS,
                Uncommitted, disk, history
  <2>2. \/ \E result : Return(p, result)
        \/ \E label \in {"openload", "createmark", "createfile"} : GoTo(p, label)
    BY <1>2 DEF OpenMark, OpenLoad, CreatePlan, CreateMark, LoadList, LoadReject
  <2> QED BY <2>1, <2>2, ReturnStutters, MoveStutters
<1>3. ASSUME NEW p \in Proc, Step(p) PROVE GraphStep /\ EditInv'
  BY <1>2, <1>3, LockMapped, CreateFileMapped, LoadUpdateMapped, LoadDeleteMapped,
     DeleteMarkMapped, WriteBatchMapped, BatchDoneMapped, RemoveFileMapped DEF Step
<1>4. ASSUME NEW p \in Proc, WriteError(p) PROVE (interrupted' \/ GraphStep) /\ EditInv'
  BY <1>4, WriteErrorMapped
<1>5. CASE Crash
  BY <1>5, CrashMapped
<1>6. CASE UNCHANGED vars
  BY <1>6 DEF vars, GraphStep, Committed, Uncommitted, EditInv
<1> QED BY <1>1, <1>3, <1>4, <1>5, <1>6 DEF Next

LEMMA InitMapped == ASSUME Init PROVE Promise!Init /\ EditInv
<1>1. \A q \in Proc : ~Uncommitted(q)
  BY DEF Init, Uncommitted
<1>2. Committed = NoTasks
  BY <1>1, CommittedIsFile DEF Init
<1> QED BY <1>2, SameOperators DEF Init, Promise!Init, NoTasks, EditInv

\* Whatever fails, the store takes the steps of TaskGraph as long as no batch
\* of several files has been cut short.
THEOREM UntornStoreIsAGraph ==
  Spec => Promise!Init /\ [][interrupted' \/ Promise!Next]_<<Committed, DOMAIN file \cup retired>>
<1>1. Init => Promise!Init /\ EditInv
  BY InitMapped
<1>2. IInv /\ EditInv /\ [Next]_vars =>
        EditInv' /\ [interrupted' \/ Promise!Next]_<<Committed, DOMAIN file \cup retired>>
  BY StepMapped DEF GraphStep
<1> QED BY <1>1, <1>2, InductiveInvariant, PTL DEF Spec

\* Without faults the store implements TaskGraph: every operation takes effect
\* at one instant, on a valid graph, under an id above all ids spent.
THEOREM StoreImplementsGraph ==
  ASSUME Faults = {}
  PROVE  Spec => ImplementsTaskGraph
<1>1. Init => ~interrupted
  BY DEF Init
<1>2. ~interrupted /\ [Next]_vars => ~interrupted'
  BY DEF Next, vars, history, Call, Step, Lock, OpenMark, OpenLoad, CreatePlan, CreateMark,
         CreateFile, LoadList, LoadReject, LoadUpdate, LoadDelete, DeleteMark, WriteBatch,
         BatchDone, RemoveFile, WriteError, Crash
<1>3. /\ ~interrupted'
      /\ [interrupted' \/ Promise!Next]_<<Committed, DOMAIN file \cup retired>>
      => [Promise!Next]_<<Committed, DOMAIN file \cup retired>>
  OBVIOUS
<1> QED BY <1>1, <1>2, <1>3, UntornStoreIsAGraph, PTL DEF Spec, ImplementsTaskGraph, Promise!Spec
=============================================================================
