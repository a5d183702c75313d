------------------------- MODULE ResearchSwarmProofs -------------------------
(***************************************************************************)
(* What the research swarm guarantees for any number of runs on one file   *)
(* and any of the faults.  The argument follows a task through the swarm:  *)
(* its row is created, its message waits in the mailbox of its assignee,   *)
(* one process takes it and works on it, and then it is past.  A task that *)
(* is past is never touched again, so what an idle notification or the     *)
(* leader's verdict says about it stays true.                              *)
(***************************************************************************)
EXTENDS ResearchSwarm, TLAPS, WellFoundedInduction

Spawning == {"starting", "exec", "mark", "task", "enqueue"}

\* A message of task t is in the mailbox of w.
Mail(w, t) == \E i \in DOMAIN inbox[w] : inbox[w][i].type = "task" /\ inbox[w][i].task = t

\* No process has taken task t yet: its message is in a mailbox, or it is about
\* to be put there.
Waiting(t) == \/ \E w \in Worker : Mail(w, t)
              \/ lpc = "enqueue" /\ t = Len(task)

\* Nobody will touch task t any more.
Past(t) == ~Waiting(t) /\ \A p \in Process : held[p] = t => wpc[p] = "giveup"

InArtifact(t) == \E k \in DOMAIN artifact : artifact[k] = t

\* The leader goes through its runs one by one; a process is started in the run
\* it belongs to, once.
LeaderInv ==
  /\ lpc # "off" => run \in Run
  /\ \A r \in Run : r > run => verdict[r] = "none" /\ \A w \in Worker : wpc[<<w, r>>] = "none"
  /\ lpc \in Lifecycle => /\ verdict[run] = "none"
                          /\ \A w \in Worker \ spawned : wpc[<<w, run>>] = "none"
  /\ lpc \in Closing => verdict[run] \in {"done", "error"}
  /\ lpc \in Spawning => target \in spawned
  /\ lpc \in {"starting", "exec"} => wpc[<<target, run>>] = "none"

\* Nobody lives when the leader is about to say that it has stopped, nor later.
OverInv ==
  /\ lpc = "stopped" => LiveProcesses = {}
  /\ NoWorkerLeftBehind

\* A worker's mailbox has requests to stop and tasks of that worker, each of
\* them once.
Fits(w, m) ==
  \/ m.type = "shutdown" /\ m.task = 0
  \/ m.type = "task" /\ m.task \in 1 .. Len(task) /\ task[m.task].assignee = w
Once(q) ==
  \A i, j \in DOMAIN q : q[i].type = "task" /\ q[i].task = q[j].task => i = j
MailInv ==
  /\ \A w \in Worker : \A i \in DOMAIN inbox[w] : Fits(w, inbox[w][i])
  /\ \A w \in Worker : Once(inbox[w])
  /\ lpc = "enqueue" => /\ Len(task) > 0
                        /\ task[Len(task)].assignee = target
                        /\ \A w \in Worker : ~Mail(w, Len(task))

\* A process holds a task of its own agent exactly while it works on it, no other
\* process holds it, and no task that waits is held or has its artifact.
HeldInv ==
  /\ \A p \in Process :
       /\ wpc[p] \in Working => held[p] # 0
       /\ held[p] # 0 => /\ wpc[p] \in Working \cup {"giveup"}
                         /\ task[held[p]].assignee = p[1]
                         /\ ~Waiting(held[p])
  /\ \A p, q \in Process : p # q /\ held[p] # 0 => held[p] # held[q]

\* An artifact is saved once, at the step "save" of its task, and before the
\* task can be completed.
ArtifactInv ==
  /\ \A t \in 1 .. Len(task) : Waiting(t) => ~InArtifact(t)
  /\ \A p \in Process : wpc[p] \in {"begin", "save"} => ~InArtifact(held[p])
  /\ \A p \in Process : wpc[p] = "update" => InArtifact(held[p])
  /\ \A t \in 1 .. Len(task) : task[t].status = "completed" => InArtifact(t)
  /\ \A j, k \in DOMAIN artifact : artifact[j] = artifact[k] => j = k

\* What a message to the leader says is true and stays true.
Truthful(m) ==
  /\ m.type \in {"start", "message", "idle"}
  /\ m.type = "message" => m.from \in Worker /\ Saved(m.from)
  /\ m.type = "idle" => /\ m.task \in 1 .. Len(task)
                        /\ Past(m.task)
                        /\ m.status = CompletedStatusForTask(m.task)
NewsInv ==
  /\ \A k \in DOMAIN inbox["leader"] : Truthful(inbox["leader"][k])
  /\ \A k \in DOMAIN todo : Truthful(todo[k])
  /\ writerIdle # 0 => Past(writerIdle)

\* Nobody is spawned, and no task is created, before the work it builds on is
\* saved; the report of a worker follows its artifact.
Ready(w) == \A u \in Promise!Before[w] : Saved(u)
PipelineInv ==
  /\ \A w \in spawned : Ready(w)
  /\ \A t \in 1 .. Len(task) : Ready(task[t].assignee)
  /\ \A p \in Process : wpc[p] = "report" => Saved(p[1])

\* A run creates one task for an agent, after it has spawned it.
OneTaskEach ==
  /\ \A t \in 1 .. Len(task) : task[t].run <= run
  /\ \A t, u \in 1 .. Len(task) :
       task[t].assignee = task[u].assignee /\ task[t].run = task[u].run => t = u
  /\ lpc \in Lifecycle => \A t \in 1 .. Len(task) :
       task[t].run = run => task[t].assignee \in spawned
  /\ lpc \in {"starting", "exec", "mark", "task"} => \A t \in 1 .. Len(task) :
       task[t].run = run => task[t].assignee # target

\* A run that is done has a writer's task that is completed and past.
Reported(t) == task[t].assignee = "writer" /\ task[t].status = "completed" /\ Past(t)
VerdictInv ==
  \A r \in Run : verdict[r] = "done" => \E t \in 1 .. Len(task) : Reported(t)

SwarmInv ==
  /\ TypeOK /\ LeaderInv /\ OverInv /\ MailInv /\ HeldInv /\ ArtifactInv
  /\ NewsInv /\ PipelineInv /\ OneTaskEach /\ VerdictInv

---------------------------------------------------------------------------
(* Sequences of messages.                                                  *)

\* A set of numbers that has an element has a least one.
LEMMA LeastElement ==
  ASSUME NEW T \in SUBSET Nat, T # {}
  PROVE  \E x \in T : \A y \in T : x <= y
<1> DEFINE R == OpToRel(<, Nat)
<1>1. R = {ss \in Nat \X Nat : ss[1] < ss[2]}
  BY ZenonT(20) DEF OpToRel
<1>2. IsWellFoundedOn(R, Nat)
  BY NatLessThanWellFounded, ZenonT(10)
<1> HIDE DEF R
<1>3. \E x \in T : \A y \in T : ~ (<<y, x>> \in R)
  BY <1>2, WFMin
<1>4. PICK x \in T : \A y \in T : ~ (<<y, x>> \in R)
  BY <1>3
<1>5. \A y \in T : ~ (y < x)
  BY <1>1, <1>4
<1> QED BY <1>5

\* ConsumeMessages finds a first message in every mailbox that is not empty: the
\* oldest of those with the least priority number.
LEMMA FirstExists ==
  ASSUME NEW S, NEW q \in Seq(S), q # <<>>
  PROVE  First(q) \in DOMAIN q
<1> DEFINE Kind(n) == {i \in DOMAIN q : Priority(q[i]) = n}
<1>1. \A i \in DOMAIN q : Priority(q[i]) \in {0, 1, 2}
  <2> SUFFICES ASSUME NEW i \in DOMAIN q PROVE Priority(q[i]) \in {0, 1, 2}
    OBVIOUS
  <2>1. CASE q[i].type = "shutdown"
    BY <2>1 DEF Priority
  <2>2. CASE q[i].type = "task"
    BY <2>2 DEF Priority
  <2>3. CASE q[i].type # "shutdown" /\ q[i].type # "task"
    BY <2>3 DEF Priority
  <2> QED BY <2>1, <2>2, <2>3
<1>2. \A n : Kind(n) \in SUBSET Nat
  OBVIOUS
<1>3. 1 \in DOMAIN q
  OBVIOUS
<1>4. \E n \in {0, 1, 2} : Kind(n) # {} /\ \A k \in {0, 1, 2} : k < n => Kind(k) = {}
  BY <1>1, <1>3
<1>5. PICK n \in {0, 1, 2} : Kind(n) # {} /\ \A k \in {0, 1, 2} : k < n => Kind(k) = {}
  BY <1>4
<1>6. PICK i \in Kind(n) : \A j \in Kind(n) : i <= j
  BY <1>2, <1>5, LeastElement
<1>7. ASSUME NEW j \in DOMAIN q \ {i}
      PROVE  \/ Priority(q[i]) < Priority(q[j])
             \/ Priority(q[i]) = Priority(q[j]) /\ i < j
  <2>1. Priority(q[j]) \in {0, 1, 2} /\ Priority(q[i]) = n
    BY <1>1, <1>6
  <2>2. CASE Priority(q[j]) = n
    BY <1>6, <2>1, <2>2
  <2>3. CASE Priority(q[j]) < n
    BY <1>5, <2>1, <2>3
  <2> QED BY <2>1, <2>2, <2>3
<1>8. \E k \in DOMAIN q : \A j \in DOMAIN q \ {k} :
        \/ Priority(q[k]) < Priority(q[j])
        \/ Priority(q[k]) = Priority(q[j]) /\ k < j
  BY <1>6, <1>7
<1> QED BY <1>8 DEF First

\* Taking the message at i out of a mailbox leaves the others, in their order.
LEMMA WithoutIsShorter ==
  ASSUME NEW S, NEW q \in Seq(S), NEW i \in DOMAIN q
  PROVE  /\ Without(q, i) \in Seq(S)
         /\ Len(Without(q, i)) = Len(q) - 1
         /\ \A k \in 1 .. Len(q) - 1 : Without(q, i)[k] = IF k < i THEN q[k] ELSE q[k + 1]
<1> DEFINE a == SubSeq(q, 1, i - 1)
           b == SubSeq(q, i + 1, Len(q))
<1>1. /\ a \in Seq(S) /\ Len(a) = i - 1
      /\ \A k \in 1 .. i - 1 : a[k] = q[k]
  OBVIOUS
<1>2. /\ b \in Seq(S) /\ Len(b) = Len(q) - i
      /\ \A k \in 1 .. Len(q) - i : b[k] = q[k + i]
  OBVIOUS
<1> HIDE DEF a, b
<1>3. /\ a \o b \in Seq(S) /\ Len(a \o b) = Len(q) - 1
      /\ \A k \in 1 .. Len(q) - 1 : (a \o b)[k] = IF k < i THEN q[k] ELSE q[k + 1]
  <2>1. a \o b \in Seq(S) /\ Len(a \o b) = Len(q) - 1
    BY <1>1, <1>2
  <2>2. ASSUME NEW k \in 1 .. Len(q) - 1
        PROVE  (a \o b)[k] = IF k < i THEN q[k] ELSE q[k + 1]
    <3>1. (a \o b)[k] = IF k <= Len(a) THEN a[k] ELSE b[k - Len(a)]
      BY <1>1, <1>2
    <3>2. CASE k < i
      BY <1>1, <3>1, <3>2
    <3>3. CASE ~(k < i)
      <4>1. k - Len(a) \in 1 .. Len(q) - i /\ (k - Len(a)) + i = k + 1
        BY <1>1, <3>3
      <4> QED BY <1>1, <1>2, <3>1, <3>3, <4>1
    <3> QED BY <3>2, <3>3
  <2> QED BY <2>1, <2>2
<1> QED BY <1>3 DEF Without, a, b

LEMMA WithoutElements ==
  ASSUME NEW S, NEW q \in Seq(S), NEW i \in DOMAIN q, NEW k \in DOMAIN Without(q, i)
  PROVE  \E j \in DOMAIN q \ {i} : Without(q, i)[k] = q[j]
<1>1. k \in 1 .. Len(q) - 1
  BY WithoutIsShorter
<1>2. Without(q, i)[k] = IF k < i THEN q[k] ELSE q[k + 1]
  BY <1>1, WithoutIsShorter
<1>3. k \in DOMAIN q /\ k + 1 \in DOMAIN q
  BY <1>1
<1> QED BY <1>2, <1>3

LEMMA AppendElements ==
  ASSUME NEW S, NEW q \in Seq(S), NEW m \in S
  PROVE  /\ Append(q, m) \in Seq(S) /\ DOMAIN Append(q, m) = DOMAIN q \cup {Len(q) + 1}
         /\ \A k \in DOMAIN q : Append(q, m)[k] = q[k]
         /\ Append(q, m)[Len(q) + 1] = m
         /\ Len(q) + 1 \notin DOMAIN q
OBVIOUS

LEMMA AppendCases ==
  ASSUME NEW S, NEW q \in Seq(S), NEW m \in S
  PROVE  \A k \in DOMAIN Append(q, m) :
           (k \in DOMAIN q /\ Append(q, m)[k] = q[k]) \/ (k = Len(q) + 1 /\ Append(q, m)[k] = m)
<1> DEFINE r == Append(q, m)
<1>1. r \in Seq(S) /\ Len(r) = Len(q) + 1
  OBVIOUS
<1>2. \A k \in 1 .. Len(q) : r[k] = q[k]
  OBVIOUS
<1>3. r[Len(q) + 1] = m
  OBVIOUS
<1> HIDE DEF r
<1>4. \A k \in DOMAIN r : (k \in DOMAIN q /\ r[k] = q[k]) \/ (k = Len(q) + 1 /\ r[k] = m)
  BY <1>1, <1>2, <1>3
<1> QED BY <1>4 DEF r

\* A new task message may join a mailbox that has none of that task, and any
\* request to stop may.
LEMMA OnceAppend ==
  ASSUME NEW S, NEW q \in Seq(S), NEW m \in S, Once(q),
         \A i \in DOMAIN q : q[i].type = "task" \/ m.type = "task" => q[i].task # m.task
  PROVE  Once(Append(q, m))
<1> DEFINE a == Append(q, m)
<1>1. /\ DOMAIN a = DOMAIN q \cup {Len(q) + 1} /\ a[Len(q) + 1] = m
      /\ \A k \in DOMAIN q : a[k] = q[k]
  BY AppendElements
<1> HIDE DEF a
<1>2. \A i, j \in DOMAIN a : a[i].type = "task" /\ a[i].task = a[j].task => i = j
  BY <1>1 DEF Once
<1>3. Once(a)
  BY <1>2 DEF Once
<1> QED BY <1>3 DEF a

LEMMA OnceWithout ==
  ASSUME NEW S, NEW q \in Seq(S), NEW f \in DOMAIN q, Once(q)
  PROVE  Once(Without(q, f))
<1> DEFINE b == Without(q, f)
           At(i) == IF i < f THEN i ELSE i + 1
<1>1. /\ b \in Seq(S) /\ Len(b) = Len(q) - 1
      /\ \A k \in 1 .. Len(q) - 1 : b[k] = IF k < f THEN q[k] ELSE q[k + 1]
  BY WithoutIsShorter
<1> HIDE DEF b
<1>2. \A i \in DOMAIN b : At(i) \in DOMAIN q /\ b[i] = q[At(i)]
  BY <1>1
<1>3. \A i, j \in DOMAIN b : At(i) = At(j) => i = j
  BY <1>1
<1> HIDE DEF At
<1>4. Once(b)
  BY <1>2, <1>3 DEF Once
<1> QED BY <1>4 DEF b

---------------------------------------------------------------------------
(* Types.                                                                  *)

LEMMA MessagesGrow ==
  ASSUME Len(task) \in Nat, Len(task') \in Nat, Len(task) <= Len(task')
  PROVE  TaskIDs \subseteq TaskIDs' /\ Message \subseteq Message'
<1>1. TaskIDs \subseteq TaskIDs'
  BY DEF TaskIDs
<1> QED BY <1>1 DEF Message


LEMMA MessageTypes ==
  /\ StartInput \in Message /\ Shutdown \in Message
  /\ \A w \in Worker : Report(w) \in Message
  /\ \A t \in TaskIDs : TaskMessage(t) \in Message
  /\ \A w \in Worker, t \in TaskIDs, s \in {"", "resolved", "failed"} : Idle(w, t, s) \in Message
BY DEF Message, TaskIDs, StartInput, Shutdown, Report, TaskMessage, Idle, Agent, NoWorker

LEMMA MessageFields ==
  ASSUME NEW m \in Message
  PROVE  m.task \in TaskIDs
BY DEF Message

LEMMA NoTaskID ==
  ASSUME TypeOK
  PROVE  0 \in TaskIDs
BY DEF TaskIDs, TypeOK

LEMMA StatusWords ==
  ASSUME NEW t
  PROVE  CompletedStatusForTask(t) \in {"", "resolved", "failed"}
<1>1. CASE GetTask(t).status = "completed"
  BY <1>1 DEF CompletedStatusForTask
<1>2. CASE GetTask(t).status = "failed"
  BY <1>2 DEF CompletedStatusForTask
<1>3. CASE GetTask(t).status # "completed" /\ GetTask(t).status # "failed"
  BY <1>3 DEF CompletedStatusForTask
<1> QED BY <1>1, <1>2, <1>3

LEMMA ChoiceIsWorker ==
  ASSUME NEW m
  PROVE  Choice(m) \in Worker \cup {NoWorker}
<1>1. CASE m.type = "start"
  BY <1>1 DEF Choice, Worker
<1>2. CASE m.type = "message" /\ m.from = "searcher"
  BY <1>2 DEF Choice, Worker
<1>3. CASE m.type = "message" /\ m.from = "analyst"
  BY <1>3 DEF Choice, Worker
<1>4. CASE /\ m.type # "start" /\ ~(m.type = "message" /\ m.from = "searcher")
           /\ ~(m.type = "message" /\ m.from = "analyst")
  BY <1>4 DEF Choice
<1> QED BY <1>1, <1>2, <1>3, <1>4

\* The tasks that the invariants speak of exist.
LEMMA HeldTaskExists ==
  ASSUME TypeOK, HeldInv, NEW p \in Process, wpc[p] \in Working
  PROVE  held[p] \in 1 .. Len(task)
BY DEF TypeOK, HeldInv, TaskIDs

LEMMA Enqueued ==
  ASSUME TypeOK, NEW a \in Agent, NEW m \in Message
  PROVE  [inbox EXCEPT ![a] = Append(@, m)] \in [Agent -> Seq(Message)]
<1>1. \A b \in Agent : inbox[b] \in Seq(Message)
  BY DEF TypeOK
<1>2. Append(inbox[a], m) \in Seq(Message)
  BY <1>1
<1> QED BY <1>1, <1>2 DEF TypeOK

\* What Consume takes is a message of the type its mailbox has.
LEMMA ConsumedMessage ==
  ASSUME TypeOK, NEW p \in Process, inbox[p[1]] # <<>>
  PROVE  /\ p[1] \in Worker
         /\ inbox[p[1]] \in Seq(Message)
         /\ First(inbox[p[1]]) \in DOMAIN inbox[p[1]]
         /\ inbox[p[1]][First(inbox[p[1]])] \in Message
         /\ inbox[p[1]][First(inbox[p[1]])].task \in TaskIDs
<1>1. p[1] \in Worker /\ inbox[p[1]] \in Seq(Message)
  BY DEF TypeOK, Process, Agent
<1>2. First(inbox[p[1]]) \in DOMAIN inbox[p[1]]
  BY <1>1, FirstExists
<1>3. inbox[p[1]][First(inbox[p[1]])] \in Message
  BY <1>1, <1>2
<1> QED BY <1>1, <1>2, <1>3, MessageFields

LEMMA InitType == Init => TypeOK
<1> SUFFICES ASSUME Init PROVE TypeOK
  OBVIOUS
<1>1. task = <<>> /\ artifact = <<>> /\ todo = <<>> /\ team = <<>>
  BY DEF Init
<1>2. /\ member \in [Agent -> WorkerStatus] /\ inbox \in [Agent -> Seq(Message)]
      /\ task \in Seq([assignee : Worker, status : TaskStatus, run : Run])
      /\ artifact \in Seq(1 .. Len(task)) /\ todo \in Seq(Message) /\ team \in Seq(Worker)
  BY DEF Init, WorkerStatus
<1>3. /\ TaskIDs = {0}
      /\ verdict \in [Run -> {"none", "done", "error", "crashed"}]
      /\ wpc \in [Process -> Live \cup {"none", "dead"}]
      /\ spawned \subseteq Worker /\ target \in Worker \cup {NoWorker}
      /\ lpc \in Lifecycle \cup Closing \cup {"off"}
  BY <1>1 DEF Init, TaskIDs
<1>4. run \in 0 .. MaxRuns
  BY SwarmAssumption DEF Init
<1>5. /\ returned \in [Run -> TaskIDs] /\ held \in [Process -> TaskIDs] /\ writerIdle \in TaskIDs
  BY <1>3 DEF Init
<1> QED BY <1>2, <1>3, <1>4, <1>5 DEF TypeOK

\* The steps of the leader keep the types.
LEMMA LeaderType ==
  ASSUME TypeOK, LeaderInv, MailInv
  PROVE  /\ CreateTeam \/ LeaderStep => TypeOK'
         /\ SpawnError \/ LeaderError \/ Timeout \/ ShutdownTimeout \/ LeaderCrash => TypeOK'
<1> USE SwarmAssumption
<1>1. UNCHANGED task => Message' = Message /\ TaskIDs' = TaskIDs
  BY DEF Message, TaskIDs
<1>2. ASSUME CreateTeam PROVE TypeOK'
  <2>1. UNCHANGED task
    BY <1>2 DEF CreateTeam
  <2>2. todo' \in Seq(Message)
    <3>1. todo' = <<StartInput>> /\ StartInput \in Message
      BY <1>2, MessageTypes DEF CreateTeam
    <3> QED BY <3>1
  <2> QED BY <1>1, <1>2, <2>1, <2>2
    DEF CreateTeam, TypeOK, UpsertMember, Agent, WorkerStatus, Lifecycle, resultVars, workerVars, TaskIDs
<1>3. ASSUME Poll PROVE TypeOK'
  <2>1. UNCHANGED task
    BY <1>3 DEF Poll
  <2> QED BY <1>1, <1>3, <2>1 DEF Poll, TypeOK, Agent, Lifecycle, resultVars, workerVars
<1>4. ASSUME Handle PROVE TypeOK'
  <2>1. UNCHANGED task /\ Head(todo) \in Message /\ Tail(todo) \in Seq(Message)
    BY <1>4 DEF Handle, storeVars, TypeOK
  <2>2. WriterIdleAfter(Head(todo)) \in TaskIDs
    BY <2>1, MessageFields DEF WriterIdleAfter, TypeOK
  <2> QED BY <1>1, <1>4, <2>1, <2>2, ChoiceIsWorker
    DEF Handle, TypeOK, Lifecycle, storeVars, resultVars, workerVars
<1>5. ASSUME EndOfBatch PROVE TypeOK'
  BY <1>1, <1>5 DEF EndOfBatch, TypeOK, Lifecycle, Closing, storeVars, loopVars, workerVars
<1>6. ASSUME MarkStarting \/ MarkIdle PROVE TypeOK'
  <2>1. target \in Agent
    BY <1>6 DEF MarkStarting, MarkIdle, SpawnStep, LeaderInv, Spawning, TypeOK, Agent
  <2> QED BY <1>1, <1>6, <2>1
    DEF MarkStarting, MarkIdle, SpawnStep, SpawnOrder, UpsertMember, WorkerStatus, TypeOK, Lifecycle, loopVars,
        resultVars, workerVars
<1>7. ASSUME Exec PROVE TypeOK'
  <2>1. target \in Worker /\ run \in Run
    BY <1>7 DEF Exec, SpawnStep, LeaderInv, Spawning, TypeOK
  <2>2. team' \in Seq(Worker)
    BY <1>7, <2>1 DEF Exec, TypeOK
  <2> QED BY <1>1, <1>7, <2>1, <2>2
    DEF Exec, SpawnStep, SpawnOrder, TypeOK, Lifecycle, Live, storeVars, resultVars, Process
<1>8. ASSUME CreateTask PROVE TypeOK'
  <2>1. target \in Worker /\ run \in Run
    BY <1>8 DEF CreateTask, SpawnStep, LeaderInv, Spawning, TypeOK
  <2> DEFINE row == [assignee |-> target, status |-> "pending", run |-> run]
  <2>2. row \in [assignee : Worker, status : TaskStatus, run : Run]
    BY <2>1 DEF TaskStatus
  <2>3. task' = Append(task, row)
    BY <1>8 DEF CreateTask
  <2> HIDE DEF row
  <2>4. /\ task' \in Seq([assignee : Worker, status : TaskStatus, run : Run])
        /\ Len(task') = Len(task) + 1
    BY <2>2, <2>3 DEF TypeOK
  <2>5. TaskIDs \subseteq TaskIDs' /\ Message \subseteq Message'
    BY <2>4, MessagesGrow DEF TypeOK
  <2>6. \A a \in Agent : inbox[a] \in Seq(Message')
    BY <2>5 DEF TypeOK
  <2>7. todo \in Seq(Message') /\ artifact \in Seq(1 .. Len(task'))
    BY <2>4, <2>5 DEF TypeOK
  <2> QED BY <1>8, <2>4, <2>5, <2>6, <2>7
    DEF CreateTask, SpawnStep, SpawnOrder, TypeOK, Lifecycle, loopVars, resultVars, workerVars
<1>9. ASSUME EnqueueTask PROVE TypeOK'
  <2>1. target \in Worker /\ target \in Agent /\ UNCHANGED task /\ Len(task) \in TaskIDs
    BY <1>9 DEF EnqueueTask, SpawnStep, LeaderInv, Spawning, TypeOK, Agent, TaskIDs
  <2>2. inbox' \in [Agent -> Seq(Message)]
    BY <1>9, <2>1, MessageTypes, Enqueued DEF EnqueueTask, EnqueueMessage
  <2> QED BY <1>1, <1>9, <2>1, <2>2
    DEF EnqueueTask, SpawnStep, SpawnOrder, TypeOK, Lifecycle, loopVars, resultVars, workerVars
<1>10. ASSUME PartialLeaderResult PROVE TypeOK'
  <2>1. FinalReport \in TaskIDs
    <3> DEFINE T == {k \in ListReportSections : IsFinalReport(k)}
    <3>1. CASE HasFinalReport
      <4>1. T \in SUBSET Nat /\ T # {}
        BY <3>1 DEF HasFinalReport, ListReportSections, TypeOK
      <4>2. PICK x \in T : \A y \in T : x <= y
        BY <4>1, LeastElement
      <4>3. \E k \in ListReportSections :
              IsFinalReport(k) /\ \A j \in ListReportSections : IsFinalReport(j) => k <= j
        BY <4>2
      <4>4. \E k \in ListReportSections : FinalReport = artifact[k]
        BY <3>1, <4>3 DEF FinalReport
      <4> QED BY <4>4 DEF ListReportSections, TypeOK, TaskIDs
    <3>2. CASE ~HasFinalReport
      BY <3>2 DEF FinalReport, TaskIDs, TypeOK
    <3> QED BY <3>1, <3>2
  <2> QED BY <1>1, <1>10, <2>1 DEF PartialLeaderResult, TypeOK, Closing, storeVars, loopVars, workerVars
<1>11. ASSUME SendShutdown PROVE TypeOK'
  <2>1. Head(team) \in Worker /\ Head(team) \in Agent /\ Tail(team) \in Seq(Worker) /\ UNCHANGED task
    BY <1>11 DEF SendShutdown, TypeOK, Agent
  <2>2. inbox' \in [Agent -> Seq(Message)]
    <3>1. inbox' = [inbox EXCEPT ![Head(team)] = Append(@, Shutdown)] \/ inbox' = inbox
      BY <1>11 DEF SendShutdown, EnqueueMessage
    <3>2. [inbox EXCEPT ![Head(team)] = Append(@, Shutdown)] \in [Agent -> Seq(Message)]
      BY <2>1, MessageTypes, Enqueued
    <3> QED BY <3>1, <3>2 DEF TypeOK
  <2> QED BY <1>1, <1>11, <2>1, <2>2 DEF SendShutdown, TypeOK, resultVars, workerVars
<1>12. ASSUME WorkersExited \/ LeaderStopped PROVE TypeOK'
  BY <1>1, <1>12
  DEF WorkersExited, LeaderStopped, UpsertMember, Agent, WorkerStatus, TypeOK, Closing, storeVars, loopVars,
      resultVars, workerVars
<1>13. ASSUME SpawnError \/ LeaderError \/ Timeout PROVE TypeOK'
  <2>1. UNCHANGED task /\ lpc' = "finish" /\ verdict' \in [Run -> {"none", "done", "error", "crashed"}]
    BY <1>13 DEF SpawnError, LeaderError, Timeout, LifecycleError, TypeOK
  <2>2. member' \in [Agent -> WorkerStatus]
    BY <1>13 DEF SpawnError, LeaderError, Timeout, UpsertMember, WorkerStatus, TypeOK
  <2> QED BY <1>1, <1>13, <2>1, <2>2
    DEF SpawnError, LeaderError, Timeout, LifecycleError, TypeOK, Closing, loopVars, workerVars
<1>14. ASSUME ShutdownTimeout PROVE TypeOK'
  <2>1. UNCHANGED task /\ 0 \in TaskIDs
    BY <1>14 DEF ShutdownTimeout, storeVars, TaskIDs, TypeOK
  <2> QED BY <1>1, <1>14, <2>1 DEF ShutdownTimeout, TypeOK, Closing, storeVars, loopVars, resultVars
<1>15. ASSUME LeaderCrash PROVE TypeOK'
  BY <1>1, <1>15 DEF LeaderCrash, TypeOK, storeVars, loopVars, workerVars
<1> QED BY <1>2, <1>3, <1>4, <1>5, <1>6, <1>7, <1>8, <1>9, <1>10, <1>11, <1>12, <1>13, <1>14, <1>15
  DEF LeaderStep

Row == [assignee : Worker, status : TaskStatus, run : Run]

LEMMA RowUpdate ==
  ASSUME NEW q \in Seq(Row), NEW t \in 1 .. Len(q), NEW s \in TaskStatus
  PROVE  /\ [q EXCEPT ![t].status = s] \in Seq(Row)
         /\ Len([q EXCEPT ![t].status = s]) = Len(q)
         /\ \A u \in 1 .. Len(q) :
              /\ [q EXCEPT ![t].status = s][u].assignee = q[u].assignee
              /\ [q EXCEPT ![t].status = s][u].run = q[u].run
              /\ [q EXCEPT ![t].status = s][u].status = IF u = t THEN s ELSE q[u].status
              /\ u # t => [q EXCEPT ![t].status = s][u] = q[u]
<1>1. q[t] \in Row
  OBVIOUS
<1> DEFINE r == [q[t] EXCEPT !.status = s]
<1>2. r \in Row /\ r.assignee = q[t].assignee /\ r.run = q[t].run /\ r.status = s
  BY <1>1 DEF Row
<1>3. [q EXCEPT ![t].status = s] = [q EXCEPT ![t] = r]
  OBVIOUS
<1> HIDE DEF r
<1>4. /\ [q EXCEPT ![t] = r] \in Seq(Row) /\ Len([q EXCEPT ![t] = r]) = Len(q)
      /\ \A u \in 1 .. Len(q) : [q EXCEPT ![t] = r][u] = IF u = t THEN r ELSE q[u]
  BY <1>2
<1> QED BY <1>2, <1>3, <1>4

\* The process that holds a task writes its status and nothing else of the row.
LEMMA StatusMoves ==
  ASSUME TypeOK, HeldInv, NEW p \in Process, CompleteTask(p) \/ FailTask(p)
  PROVE  /\ wpc[p] \in {"update", "failtask"} /\ held[p] \in 1 .. Len(task)
         /\ task' \in Seq(Row) /\ Len(task') = Len(task)
         /\ \A t \in 1 .. Len(task) :
              /\ task'[t].assignee = task[t].assignee
              /\ task'[t].run = task[t].run
              /\ task'[t].status = "completed" =>
                   task[t].status = "completed" \/ (CompleteTask(p) /\ t = held[p])
              /\ t # held[p] => task'[t] = task[t]
<1>1. wpc[p] \in {"update", "failtask"}
  BY DEF CompleteTask, FailTask, RoleCall, WorkerGoto
<1>2. task \in Seq(Row) /\ held[p] \in 1 .. Len(task)
  BY <1>1, HeldTaskExists DEF Working, Live, TypeOK, Row
<1>3. \/ CompleteTask(p) /\ task' = [task EXCEPT ![held[p]].status = "completed"]
      \/ task' = [task EXCEPT ![held[p]].status = "failed"]
      \/ task' = task
  BY DEF CompleteTask, FailTask, BestEffort, UpdateTask
<1>4. "completed" \in TaskStatus /\ "failed" \in TaskStatus
  BY DEF TaskStatus
<1>5. CASE CompleteTask(p) /\ task' = [task EXCEPT ![held[p]].status = "completed"]
  BY <1>1, <1>2, <1>4, <1>5, RowUpdate
<1>6. CASE task' = [task EXCEPT ![held[p]].status = "failed"]
  BY <1>1, <1>2, <1>4, <1>6, RowUpdate
<1>7. CASE task' = task
  BY <1>1, <1>2, <1>7
<1> QED BY <1>3, <1>5, <1>6, <1>7

\* The steps of a worker keep the types.
LEMMA WorkerType ==
  ASSUME TypeOK, HeldInv, NEW p \in Process, WorkerStep(p) \/ WorkerError(p) \/ Killed(p)
  PROVE  TypeOK'
<1> USE DEF WorkerGoto, RoleCall, RoleCalls, BestEffort
<1>1. UNCHANGED task => Message' = Message /\ TaskIDs' = TaskIDs
  BY DEF Message, TaskIDs
<1>2. p[1] \in Worker /\ p[1] \in Agent /\ "leader" \in Agent
  BY DEF Process, Agent
<1>3. UNCHANGED leaderVars /\ wpc' \in [Process -> Live \cup {"none", "dead"}]
  BY DEF WorkerStep, WorkerError, Killed, Boot, Consume, Stop, Begin, Save, CompleteTask, SendMessage, Settle,
         Notify, FailTask, FailMember, FailNotify, GiveUp, Live, TypeOK
<1>4. ASSUME UNCHANGED task,
             member' \in [Agent -> WorkerStatus], inbox' \in [Agent -> Seq(Message)],
             artifact' \in Seq(1 .. Len(task)), held' \in [Process -> TaskIDs]
      PROVE  TypeOK'
  BY <1>1, <1>3, <1>4 DEF TypeOK, leaderVars, loopVars, resultVars
<1>5. ASSUME Boot(p) \/ Stop(p) \/ Begin(p) \/ Settle(p) \/ FailMember(p) PROVE TypeOK'
  BY <1>2, <1>4, <1>5
  DEF Boot, Stop, Begin, Settle, FailMember, UpsertMember, WorkerStatus, TypeOK
<1>6. ASSUME Consume(p) PROVE TypeOK'
  <2> DEFINE q == inbox[p[1]]
             i == First(q)
  <2>1. q \in Seq(Message) /\ i \in DOMAIN q /\ q[i].task \in TaskIDs
    BY <1>6, ConsumedMessage DEF Consume
  <2>2. Without(q, i) \in Seq(Message)
    BY <2>1, WithoutIsShorter
  <2>3. inbox' = [inbox EXCEPT ![p[1]] = Without(q, i)] /\ held' = [held EXCEPT ![p] = q[i].task]
    BY <1>6 DEF Consume
  <2> HIDE DEF q, i
  <2>4. inbox' \in [Agent -> Seq(Message)] /\ held' \in [Process -> TaskIDs]
    BY <1>2, <2>1, <2>2, <2>3 DEF TypeOK
  <2> QED BY <1>4, <1>6, <2>4 DEF Consume, TypeOK
<1>7. ASSUME Save(p) PROVE TypeOK'
  <2>1. held[p] \in 1 .. Len(task)
    BY <1>7, HeldTaskExists DEF Save, Working, Live
  <2> QED BY <1>4, <1>7, <2>1 DEF Save, SaveReportSection, TypeOK
<1>8. ASSUME CompleteTask(p) \/ FailTask(p) PROVE TypeOK'
  <2>1. /\ task' \in Seq([assignee : Worker, status : TaskStatus, run : Run])
        /\ Len(task') = Len(task)
    BY <1>8, StatusMoves DEF Row
  <2>2. Message' = Message /\ TaskIDs' = TaskIDs /\ 1 .. Len(task') = 1 .. Len(task)
    BY <2>1 DEF Message, TaskIDs
  <2> QED BY <1>3, <1>8, <2>1, <2>2
    DEF CompleteTask, FailTask, TypeOK, leaderVars, loopVars, resultVars
<1>9. ASSUME SendMessage(p) PROVE TypeOK'
  <2>1. inbox' \in [Agent -> Seq(Message)]
    BY <1>2, <1>9, MessageTypes, Enqueued DEF SendMessage, EnqueueMessage
  <2> QED BY <1>4, <1>9, <2>1 DEF SendMessage, TypeOK
<1>10. ASSUME Notify(p) \/ FailNotify(p) PROVE TypeOK'
  <2>1. Idle(p[1], held[p], CompletedStatusForTask(held[p])) \in Message
    BY <1>2, MessageTypes, StatusWords DEF TypeOK
  <2>2. inbox' \in [Agent -> Seq(Message)]
    <3>1. \/ inbox' = [inbox EXCEPT !["leader"] =
                         Append(@, Idle(p[1], held[p], CompletedStatusForTask(held[p])))]
          \/ inbox' = inbox
      BY <1>10 DEF Notify, FailNotify, NotifyLeaderIdle, EnqueueMessage
    <3>2. [inbox EXCEPT !["leader"] =
             Append(@, Idle(p[1], held[p], CompletedStatusForTask(held[p])))]
            \in [Agent -> Seq(Message)]
      BY <1>2, <2>1, Enqueued
    <3> QED BY <3>1, <3>2 DEF TypeOK
  <2>3. held' \in [Process -> TaskIDs] /\ UNCHANGED <<task, member, artifact>>
    BY <1>10, NoTaskID DEF Notify, FailNotify, TypeOK
  <2> QED BY <1>4, <2>2, <2>3 DEF TypeOK
<1>11. ASSUME GiveUp(p) \/ Killed(p) \/ WorkerError(p) PROVE TypeOK'
  <2>1. held' \in [Process -> TaskIDs]
    BY <1>11, NoTaskID DEF GiveUp, Killed, WorkerError, TypeOK
  <2>2. UNCHANGED <<task, inbox, artifact>> /\ member' \in [Agent -> WorkerStatus]
    BY <1>2, <1>11
    DEF GiveUp, Killed, WorkerError, UpsertMember, WorkerStatus, storeVars, TypeOK
  <2> QED BY <1>4, <2>1, <2>2 DEF TypeOK
<1> QED BY <1>5, <1>6, <1>7, <1>8, <1>9, <1>10, <1>11 DEF WorkerStep

---------------------------------------------------------------------------
(* Which steps write which variable.                                       *)

WorkerMove(p) == WorkerStep(p) \/ WorkerError(p) \/ Killed(p)
LeaderMove ==
  CreateTeam \/ LeaderStep \/ SpawnError \/ LeaderError \/ Timeout \/ ShutdownTimeout \/ LeaderCrash

LEMMA Moves == Next => LeaderMove \/ \E p \in Process : WorkerMove(p)
BY DEF Next, LeaderMove, WorkerMove

\* A step of a worker leaves the leader and the other processes alone.
LEMMA WorkerMoves ==
  ASSUME TypeOK, NEW p \in Process, WorkerMove(p)
  PROVE  /\ UNCHANGED leaderVars
         /\ wpc[p] \in Live /\ wpc'[p] \in Live \cup {"dead"}
         /\ \A q \in Process : q # p => wpc'[q] = wpc[q] /\ held'[q] = held[q]
         /\ UNCHANGED held \/ Consume(p) \/ held'[p] = 0
         /\ UNCHANGED task \/ CompleteTask(p) \/ FailTask(p)
         /\ UNCHANGED artifact \/ Save(p)
         /\ UNCHANGED inbox \/ Consume(p) \/ SendMessage(p) \/ Notify(p) \/ FailNotify(p)
<1> USE DEF WorkerGoto, RoleCall, RoleCalls, BestEffort, TypeOK, storeVars
<1>1. CASE Boot(p) \/ Consume(p) \/ Stop(p) \/ Begin(p) \/ Save(p) \/ CompleteTask(p) \/ SendMessage(p)
  BY <1>1 DEF Boot, Consume, Stop, Begin, Save, CompleteTask, SendMessage, Live
<1>2. CASE Settle(p) \/ Notify(p) \/ FailTask(p) \/ FailMember(p) \/ FailNotify(p) \/ GiveUp(p)
  BY <1>2 DEF Settle, Notify, FailTask, FailMember, FailNotify, GiveUp, Live
<1>3. CASE WorkerError(p) \/ Killed(p)
  BY <1>3 DEF WorkerError, Killed, Live
<1> QED BY <1>1, <1>2, <1>3 DEF WorkerMove, WorkerStep

\* What a step of the leader does to what it shares with the workers.
LEMMA LeaderMoves ==
  ASSUME LeaderMove
  PROVE  /\ UNCHANGED artifact
         /\ UNCHANGED task \/ CreateTask
         /\ UNCHANGED inbox \/ Poll \/ EnqueueTask \/ SendShutdown
         /\ UNCHANGED wpc \/ Exec \/ ShutdownTimeout
         /\ UNCHANGED held \/ ShutdownTimeout
         /\ lpc' = "enqueue" => CreateTask
<1> USE DEF storeVars, workerVars, SpawnStep, SpawnOrder
<1>1. CASE CreateTeam \/ Poll \/ Handle \/ EndOfBatch \/ MarkStarting \/ Exec
  BY <1>1 DEF CreateTeam, Poll, Handle, EndOfBatch, MarkStarting, Exec
<1>2. CASE MarkIdle \/ CreateTask \/ EnqueueTask \/ PartialLeaderResult
  BY <1>2 DEF MarkIdle, CreateTask, EnqueueTask, PartialLeaderResult
<1>3. CASE SendShutdown \/ WorkersExited \/ LeaderStopped
  BY <1>3 DEF SendShutdown, WorkersExited, LeaderStopped
<1>4. CASE SpawnError \/ LeaderError \/ Timeout \/ ShutdownTimeout \/ LeaderCrash
  BY <1>4 DEF SpawnError, LeaderError, Timeout, LifecycleError, ShutdownTimeout, LeaderCrash
<1> QED BY <1>1, <1>2, <1>3, <1>4 DEF LeaderMove, LeaderStep

---------------------------------------------------------------------------
(* What stays: rows, artifacts, and that a task has been taken.            *)

\* Rows are only added, and only the process that holds a task changes its status.
LEMMA TasksStay ==
  ASSUME TypeOK, HeldInv, Next
  PROVE  /\ Len(task) <= Len(task')
         /\ \A t \in 1 .. Len(task) :
              /\ task'[t].assignee = task[t].assignee
              /\ task'[t].run = task[t].run
              /\ (\A p \in Process : held[p] = t => wpc[p] \notin Working) => task'[t] = task[t]
<1>1. CASE UNCHANGED task
  BY <1>1 DEF TypeOK
<1>2. CASE CreateTask
  BY <1>2 DEF CreateTask, TypeOK
<1>3. ASSUME NEW p \in Process, CompleteTask(p) \/ FailTask(p)
      PROVE  /\ Len(task) <= Len(task')
             /\ \A t \in 1 .. Len(task) :
                  /\ task'[t].assignee = task[t].assignee
                  /\ task'[t].run = task[t].run
                  /\ t # held[p] => task'[t] = task[t]
  BY <1>3, StatusMoves DEF TypeOK
<1>4. ASSUME NEW p \in Process, CompleteTask(p) \/ FailTask(p)
      PROVE  wpc[p] \in Working
  BY <1>4 DEF CompleteTask, FailTask, RoleCall, WorkerGoto, Working, Live
<1>5. UNCHANGED task \/ CreateTask \/ \E p \in Process : CompleteTask(p) \/ FailTask(p)
  BY Moves, LeaderMoves, WorkerMoves
<1> QED BY <1>1, <1>2, <1>3, <1>4, <1>5

LEMMA ArtifactsStay ==
  ASSUME TypeOK, HeldInv, Next
  PROVE  /\ \A t : InArtifact(t) => InArtifact(t)'
         /\ \A w \in Worker : Saved(w) => Saved(w)'
         /\ \A w \in Worker : Ready(w) => Ready(w)'
<1>1. UNCHANGED artifact \/ \E p \in Process : Save(p)
  BY Moves, LeaderMoves, WorkerMoves
<1>2. \A k \in DOMAIN artifact : k \in DOMAIN artifact' /\ artifact'[k] = artifact[k]
  <2>1. ASSUME NEW p \in Process, Save(p)
        PROVE  \A k \in DOMAIN artifact : k \in DOMAIN artifact' /\ artifact'[k] = artifact[k]
    <3>1. held[p] \in 1 .. Len(task) /\ artifact \in Seq(1 .. Len(task))
      BY <2>1, HeldTaskExists DEF Save, RoleCall, WorkerGoto, Working, Live, TypeOK
    <3>2. artifact' = Append(artifact, held[p])
      BY <2>1 DEF Save, SaveReportSection
    <3> QED BY <3>1, <3>2, AppendElements
  <2> QED BY <1>1, <2>1
<1>3. \A t : InArtifact(t) => InArtifact(t)'
  BY <1>2 DEF InArtifact
<1>4. \A k \in DOMAIN artifact : task'[artifact[k]].assignee = task[artifact[k]].assignee
  <2>1. \A k \in DOMAIN artifact : artifact[k] \in 1 .. Len(task)
    BY DEF TypeOK
  <2> QED BY <2>1, TasksStay
<1>5. \A w \in Worker : Saved(w) => Saved(w)'
  BY <1>2, <1>4 DEF Saved
<1>6. \A w \in Worker : Promise!Before[w] \subseteq Worker
  BY DEF Promise!Before, Worker
<1>7. \A w \in Worker : Ready(w) => Ready(w)'
  BY <1>5, <1>6 DEF Ready
<1> QED BY <1>3, <1>5, <1>7

\* What a mailbox has after a step is what it had, or the shutdown request, or the
\* task that EnqueueTask puts there.
LEMMA MailMoves ==
  ASSUME TypeOK, LeaderInv, MailInv, Next, NEW w \in Worker
  PROVE  \/ inbox'[w] = inbox[w]
         \/ inbox'[w] = Append(inbox[w], Shutdown)
         \/ EnqueueTask /\ w = target /\ inbox'[w] = Append(inbox[w], TaskMessage(Len(task)))
         \/ \E p \in Process : /\ p[1] = w /\ Consume(p)
                               /\ inbox'[w] = Without(inbox[w], First(inbox[w]))
<1>1. w \in Agent /\ w # "leader"
  BY DEF Agent, Worker
<1>2. CASE LeaderMove
  <2>1. CASE UNCHANGED inbox \/ Poll
    BY <1>1, <2>1 DEF Poll, TypeOK
  <2>2. CASE EnqueueTask \/ SendShutdown
    BY <1>1, <2>2 DEF EnqueueTask, SendShutdown, EnqueueMessage, TypeOK
  <2> QED BY <1>2, <2>1, <2>2, LeaderMoves
<1>3. ASSUME NEW p \in Process, WorkerMove(p)
      PROVE  \/ inbox'[w] = inbox[w]
             \/ /\ p[1] = w /\ Consume(p)
                /\ inbox'[w] = Without(inbox[w], First(inbox[w]))
  <2>1. CASE UNCHANGED inbox \/ SendMessage(p) \/ Notify(p) \/ FailNotify(p)
    BY <1>1, <2>1
    DEF SendMessage, Notify, FailNotify, BestEffort, NotifyLeaderIdle, EnqueueMessage, TypeOK
  <2>2. CASE Consume(p)
    BY <1>1, <2>2 DEF Consume, TypeOK
  <2> QED BY <1>3, <2>1, <2>2, WorkerMoves
<1> QED BY <1>2, <1>3, Moves

\* A task that somebody has taken does not come back to a mailbox.
LEMMA WaitingShrinks ==
  ASSUME TypeOK, LeaderInv, MailInv, HeldInv, Next, NEW t \in 1 .. Len(task)
  PROVE  Waiting(t)' => Waiting(t)
<1>1. ASSUME lpc' = "enqueue", t = Len(task') PROVE Waiting(t)
  <2>1. CASE LeaderMove
    <3>1. CreateTask
      BY <1>1, <2>1, LeaderMoves
    <3> QED BY <1>1, <3>1 DEF CreateTask, TypeOK
  <2>2. ASSUME NEW p \in Process, WorkerMove(p) PROVE Waiting(t)
    <3>1. lpc = "enqueue"
      BY <1>1, <2>2, WorkerMoves DEF leaderVars
    <3>2. Len(task') = Len(task)
      <4>1. UNCHANGED task \/ CompleteTask(p) \/ FailTask(p)
        BY <2>2, WorkerMoves
      <4> QED BY <4>1, StatusMoves
    <3> QED BY <1>1, <3>1, <3>2 DEF Waiting
  <2> QED BY <2>1, <2>2, Moves
<1>2. ASSUME NEW w \in Worker, Mail(w, t)' PROVE Waiting(t)
  <2>1. PICK i \in DOMAIN inbox'[w] : inbox'[w][i].type = "task" /\ inbox'[w][i].task = t
    BY <1>2 DEF Mail
  <2>2. inbox[w] \in Seq(Message)
    BY DEF TypeOK, Agent
  <2>3. CASE inbox'[w] = inbox[w]
    BY <2>1, <2>3 DEF Waiting, Mail
  <2>4. CASE inbox'[w] = Append(inbox[w], Shutdown)
    <3>1. \A k \in DOMAIN inbox'[w] : (k \in DOMAIN inbox[w] /\ inbox'[w][k] = inbox[w][k])
                                     \/ inbox'[w][k] = Shutdown
      BY <2>2, <2>4, MessageTypes, AppendCases
    <3>2. Shutdown.type # "task"
      BY DEF Shutdown
    <3> QED BY <2>1, <3>1, <3>2 DEF Waiting, Mail
  <2>5. CASE EnqueueTask /\ inbox'[w] = Append(inbox[w], TaskMessage(Len(task)))
    <3>1. Len(task) \in TaskIDs
      BY DEF TaskIDs, TypeOK
    <3>2. \A k \in DOMAIN inbox'[w] : (k \in DOMAIN inbox[w] /\ inbox'[w][k] = inbox[w][k])
                                     \/ inbox'[w][k] = TaskMessage(Len(task))
      BY <2>2, <2>5, <3>1, MessageTypes, AppendCases
    <3>3. CASE inbox'[w][i] = TaskMessage(Len(task))
      <4>1. t = Len(task)
        <5>1. TaskMessage(Len(task)).task = Len(task)
          BY DEF TaskMessage
        <5> QED BY <2>1, <3>3, <5>1
      <4> QED BY <2>5, <4>1 DEF Waiting, TaskMessage, EnqueueTask, SpawnStep
    <3> QED BY <2>1, <3>2, <3>3 DEF Waiting, Mail
  <2>6. CASE \E p \in Process : /\ p[1] = w /\ Consume(p)
                                /\ inbox'[w] = Without(inbox[w], First(inbox[w]))
    <3>1. First(inbox[w]) \in DOMAIN inbox[w]
      BY <2>6, <2>2, FirstExists DEF Consume
    <3>2. \E j \in DOMAIN inbox[w] : inbox'[w][i] = inbox[w][j]
      BY <2>1, <2>2, <2>6, <3>1, WithoutElements
    <3> QED BY <2>1, <3>2 DEF Waiting, Mail
  <2> QED BY <2>3, <2>4, <2>5, <2>6, MailMoves
<1> QED BY <1>1, <1>2 DEF Waiting

LEMMA MailStep ==
  ASSUME TypeOK, LeaderInv, MailInv, HeldInv, Next
  PROVE  MailInv'
<1>1. \A w \in Worker : inbox[w] \in Seq(Message) /\ Len(task) \in Nat
  BY DEF TypeOK, Agent
<1>2. \A w \in Worker : \A m : Fits(w, m) => Fits(w, m)'
  <2>1. ASSUME NEW w \in Worker, NEW m, Fits(w, m)
        PROVE  \/ m.type = "shutdown" /\ m.task = 0
               \/ m.type = "task" /\ m.task \in 1 .. Len(task') /\ task'[m.task].assignee = w
    BY <1>1, <2>1, TasksStay DEF Fits
  <2> QED BY <2>1 DEF Fits
<1>3. ASSUME NEW w \in Worker
      PROVE  /\ \A i \in DOMAIN inbox'[w] : \E m : m = inbox'[w][i] /\ Fits(w, m)
             /\ Once(inbox'[w])
  <2>1. \A i \in DOMAIN inbox[w] : Fits(w, inbox[w][i])
    BY DEF MailInv
  <2>2. Once(inbox[w])
    BY DEF MailInv
  <2>3. CASE inbox'[w] = inbox[w]
    BY <2>1, <2>2, <2>3
  <2>4. CASE inbox'[w] = Append(inbox[w], Shutdown)
    <3>1. Fits(w, Shutdown) /\ Shutdown.type # "task" /\ Shutdown.task = 0
      BY DEF Shutdown, Fits
    <3>2. \A i \in DOMAIN inbox[w] : inbox[w][i].type = "task" => inbox[w][i].task # 0
      BY <1>1, <2>1 DEF Fits
    <3>3. Once(inbox'[w])
      BY <1>1, <2>2, <2>4, <3>1, <3>2, MessageTypes, OnceAppend
    <3>4. \A i \in DOMAIN inbox'[w] : \/ inbox'[w][i] = Shutdown
                                   \/ \E j \in DOMAIN inbox[w] : inbox'[w][i] = inbox[w][j]
      <4>1. inbox[w] \in Seq(Message) /\ Shutdown \in Message
        BY <1>1, MessageTypes
      <4>2. \A i \in DOMAIN inbox'[w] : (i \in DOMAIN inbox[w] /\ inbox'[w][i] = inbox[w][i])
                                       \/ inbox'[w][i] = Shutdown
        BY <2>4, <4>1, AppendCases
      <4> QED BY <4>2
    <3> QED BY <2>1, <3>1, <3>3, <3>4
  <2>5. CASE EnqueueTask /\ w = target /\ inbox'[w] = Append(inbox[w], TaskMessage(Len(task)))
    <3> DEFINE m == TaskMessage(Len(task))
    <3>1. m.type = "task" /\ m.task = Len(task)
      BY DEF TaskMessage
    <3> HIDE DEF m
    <3>2. Fits(w, m) /\ ~Mail(w, Len(task))
      BY <1>1, <2>5, <3>1 DEF EnqueueTask, SpawnStep, MailInv, Fits
    <3>3. m \in Message
      <4>1. Len(task) \in TaskIDs
        BY <1>1 DEF TaskIDs
      <4> QED BY <4>1, MessageTypes DEF m
    <3>4. \A i \in DOMAIN inbox[w] : inbox[w][i].task # m.task
      BY <1>1, <2>1, <3>1, <3>2 DEF Mail, Fits
    <3>5. inbox'[w] = Append(inbox[w], m)
      BY <2>5 DEF m
    <3>6. Once(inbox'[w])
      BY <1>1, <2>2, <3>3, <3>4, <3>5, OnceAppend
    <3> QED BY <1>1, <2>1, <3>2, <3>3, <3>5, <3>6, AppendElements
  <2>6. CASE \E p \in Process : /\ p[1] = w /\ Consume(p)
                                /\ inbox'[w] = Without(inbox[w], First(inbox[w]))
    <3>1. First(inbox[w]) \in DOMAIN inbox[w] /\ inbox'[w] = Without(inbox[w], First(inbox[w]))
      BY <1>1, <2>6, FirstExists DEF Consume
    <3>2. Once(inbox'[w])
      BY <1>1, <2>2, <3>1, OnceWithout
    <3>3. \A i \in DOMAIN inbox'[w] : \E j \in DOMAIN inbox[w] : inbox'[w][i] = inbox[w][j]
      BY <1>1, <3>1, WithoutElements
    <3> QED BY <2>1, <3>2, <3>3
  <2> QED BY <2>3, <2>4, <2>5, <2>6, MailMoves
<1>4. \A w \in Worker : \A i \in DOMAIN inbox'[w] : Fits(w, inbox[w][i])'
  BY <1>2, <1>3 DEF Fits
<1>5. \A w \in Worker : Once(inbox[w])'
  BY <1>3 DEF Once
<1>6. ASSUME lpc' = "enqueue"
      PROVE  /\ Len(task') > 0
             /\ task'[Len(task')].assignee = target'
             /\ \A w \in Worker : ~Mail(w, Len(task))'
  <2>1. CASE LeaderMove
    <3>1. CreateTask
      BY <1>6, <2>1, LeaderMoves
    <3>2. Len(task') = Len(task) + 1 /\ task'[Len(task')].assignee = target' /\ UNCHANGED inbox
      BY <3>1, <1>1 DEF CreateTask, loopVars, TypeOK
    <3>3. ASSUME NEW w \in Worker, Mail(w, Len(task')) PROVE FALSE
      BY <1>1, <3>2, <3>3 DEF MailInv, Mail, Fits
    <3> QED BY <1>1, <3>2, <3>3 DEF Mail
  <2>2. ASSUME NEW p \in Process, WorkerMove(p)
        PROVE  /\ Len(task') > 0
               /\ task'[Len(task')].assignee = target'
               /\ \A w \in Worker : ~Mail(w, Len(task))'
    <3>1. lpc = "enqueue" /\ target' = target /\ ~EnqueueTask
      BY <1>6, <2>2, WorkerMoves DEF leaderVars, loopVars, EnqueueTask, SpawnStep, SpawnOrder
    <3>2. Len(task') = Len(task)
      <4>1. UNCHANGED task \/ CompleteTask(p) \/ FailTask(p)
        BY <2>2, WorkerMoves
      <4> QED BY <4>1, StatusMoves
    <3>3. Len(task) > 0 /\ task[Len(task)].assignee = target /\ \A w \in Worker : ~Mail(w, Len(task))
      BY <3>1 DEF MailInv
    <3>4. task'[Len(task')].assignee = target'
      BY <1>1, <3>1, <3>2, <3>3, TasksStay
    <3>5. ASSUME NEW w \in Worker, Mail(w, Len(task))' PROVE FALSE
      <4>1. PICK i \in DOMAIN inbox'[w] : inbox'[w][i].type = "task" /\ inbox'[w][i].task = Len(task)
        BY <3>2, <3>5 DEF Mail
      <4>2. CASE inbox'[w] = inbox[w]
        BY <3>3, <4>1, <4>2 DEF Mail
      <4>3. CASE inbox'[w] = Append(inbox[w], Shutdown)
        <5>1. (i \in DOMAIN inbox[w] /\ inbox'[w][i] = inbox[w][i]) \/ inbox'[w][i] = Shutdown
          <6>1. inbox[w] \in Seq(Message) /\ Shutdown \in Message
            BY <1>1, MessageTypes
          <6>2. \A k \in DOMAIN inbox'[w] : (k \in DOMAIN inbox[w] /\ inbox'[w][k] = inbox[w][k])
                                           \/ inbox'[w][k] = Shutdown
            BY <4>3, <6>1, AppendCases
          <6> QED BY <4>1, <6>2
        <5>2. Shutdown.type # "task"
          BY DEF Shutdown
        <5> QED BY <3>3, <4>1, <5>1, <5>2 DEF Mail
      <4>4. CASE \E r \in Process : /\ r[1] = w /\ Consume(r)
                                    /\ inbox'[w] = Without(inbox[w], First(inbox[w]))
        <5>1. First(inbox[w]) \in DOMAIN inbox[w]
          BY <1>1, <4>4, FirstExists DEF Consume
        <5>2. \E j \in DOMAIN inbox[w] : inbox'[w][i] = inbox[w][j]
          BY <1>1, <4>1, <4>4, <5>1, WithoutElements
        <5> QED BY <3>3, <4>1, <5>2 DEF Mail
      <4> QED BY <3>1, <4>2, <4>3, <4>4, MailMoves
    <3> QED BY <3>2, <3>3, <3>4, <3>5
  <2> QED BY <2>1, <2>2, Moves
<1> QED BY <1>6, <1>4, <1>5 DEF MailInv

---------------------------------------------------------------------------
(* The task that a process holds.                                          *)

\* A worker takes a task of its own agent, and takes it from every other worker.
LEMMA Taken ==
  ASSUME TypeOK, MailInv, NEW p \in Process, Consume(p)
  PROVE  \/ held'[p] = 0 /\ wpc'[p] = "stop"
         \/ \E t \in 1 .. Len(task) : /\ held'[p] = t /\ wpc'[p] = "begin"
                                      /\ task[t].assignee = p[1]
                                      /\ Mail(p[1], t)
                                      /\ ~Waiting(t)'
<1> DEFINE q == inbox[p[1]]
           f == First(q)
           t == q[f].task
<1>1. /\ p[1] \in Worker /\ p[1] \in Agent /\ q \in Seq(Message)
      /\ f \in DOMAIN q /\ Fits(p[1], q[f]) /\ Once(q)
  BY ConsumedMessage DEF Consume, MailInv, Agent
<1>2. /\ held' = [held EXCEPT ![p] = t]
      /\ inbox' = [inbox EXCEPT ![p[1]] = Without(q, f)]
      /\ wpc' = [wpc EXCEPT ![p] = IF q[f].type = "shutdown" THEN "stop" ELSE "begin"]
      /\ UNCHANGED <<task, lpc>>
  BY DEF Consume, WorkerGoto, leaderVars
<1>3. /\ held'[p] = t /\ inbox'[p[1]] = Without(q, f)
      /\ wpc'[p] = IF q[f].type = "shutdown" THEN "stop" ELSE "begin"
      /\ \A w \in Worker : w # p[1] => inbox'[w] = inbox[w]
  BY <1>1, <1>2 DEF TypeOK, Agent
<1>4. CASE q[f].type = "shutdown"
  BY <1>1, <1>3, <1>4 DEF Fits
<1>5. CASE q[f].type = "task"
  <2>1. /\ t \in 1 .. Len(task) /\ task[t].assignee = p[1] /\ wpc'[p] = "begin" /\ Mail(p[1], t)
    BY <1>1, <1>3, <1>5 DEF Fits, Mail
  <2>2. \A k \in DOMAIN inbox'[p[1]] : \E j \in DOMAIN q \ {f} : inbox'[p[1]][k] = q[j]
    BY <1>1, <1>3, WithoutElements
  <2> HIDE DEF q, f
  <2>3. ASSUME NEW k \in DOMAIN inbox'[p[1]], inbox'[p[1]][k].type = "task" PROVE inbox'[p[1]][k].task # t
    <3>1. PICK j \in DOMAIN q \ {f} : inbox'[p[1]][k] = q[j]
      BY <2>2
    <3>2. q[j].type = "task" /\ q[j].task = q[f].task => j = f
      BY <1>1 DEF Once
    <3> QED BY <2>3, <3>1, <3>2
  <2>4. ASSUME NEW w \in Worker, w # p[1], NEW k \in DOMAIN inbox[w], inbox[w][k].type = "task"
        PROVE  inbox[w][k].task # t
    BY <2>1, <2>4 DEF MailInv, Fits
  <2>5. lpc = "enqueue" => t # Len(task)
    BY <1>1, <2>1 DEF MailInv
  <2>6. held'[p] = t
    BY <1>3
  <2> HIDE DEF t
  <2>7. PICK u \in 1 .. Len(task) : u = t
    BY <2>1
  <2>8. \A w \in Worker : \A k \in DOMAIN inbox'[w] :
          inbox'[w][k].type = "task" => inbox'[w][k].task # u
    BY <1>3, <2>3, <2>4, <2>7
  <2>9. ~Waiting(u)'
    BY <1>2, <2>5, <2>7, <2>8 DEF Waiting, Mail
  <2> QED BY <2>1, <2>6, <2>7, <2>9
<1> QED BY <1>1, <1>4, <1>5 DEF Fits

\* What a process does with the task it holds: it keeps it to the end of the
\* message and then drops it.
LEMMA HeldSteps ==
  ASSUME TypeOK, HeldInv, NEW p \in Process, WorkerMove(p), ~Consume(p)
  PROVE  /\ wpc'[p] \in Working => held'[p] = held[p] /\ wpc[p] \in Working
         /\ held'[p] # 0 => held'[p] = held[p] /\ wpc'[p] \in Working \cup {"giveup"}
         /\ wpc'[p] \in {"begin", "save"} => wpc[p] = "begin"
         /\ wpc'[p] = "update" => Save(p)
         /\ wpc'[p] = "report" => CompleteTask(p)
<1> USE DEF WorkerGoto, RoleCall, RoleCalls, BestEffort, TypeOK, Working, Live, HeldInv
<1>1. CASE Boot(p) \/ Stop(p) \/ Begin(p) \/ Save(p) \/ CompleteTask(p) \/ SendMessage(p)
  BY <1>1 DEF Boot, Stop, Begin, Save, CompleteTask, SendMessage
<1>2. CASE Settle(p) \/ Notify(p) \/ FailTask(p) \/ FailMember(p) \/ FailNotify(p) \/ GiveUp(p)
  BY <1>2 DEF Settle, Notify, FailTask, FailMember, FailNotify, GiveUp
<1>3. CASE WorkerError(p) \/ Killed(p)
  BY <1>3 DEF WorkerError, Killed
<1> QED BY <1>1, <1>2, <1>3 DEF WorkerMove, WorkerStep

LEMMA HeldStep ==
  ASSUME TypeOK, LeaderInv, MailInv, HeldInv, Next
  PROVE  HeldInv'
<1>1. \A t \in 1 .. Len(task) : ~Waiting(t) => ~Waiting(t)'
  BY WaitingShrinks
<1>2. \A q \in Process : held[q] # 0 => held[q] \in 1 .. Len(task)
  BY DEF TypeOK, TaskIDs
<1> DEFINE Holds(q) == /\ wpc'[q] \in Working => held'[q] # 0
                       /\ \A t : held'[q] = t /\ t # 0 =>
                            /\ wpc'[q] \in Working \cup {"giveup"}
                            /\ task'[t].assignee = q[1]
                            /\ ~Waiting(t)'
<1>3. ASSUME NEW q \in Process,
             wpc'[q] \in Working => wpc[q] \in Working /\ held'[q] = held[q],
             held'[q] # 0 => held'[q] = held[q] /\ wpc'[q] \in Working \cup {"giveup"}
      PROVE  Holds(q)
  BY <1>1, <1>2, <1>3, TasksStay DEF HeldInv
<1>4. CASE LeaderMove
  <2>1. CASE UNCHANGED workerVars
    <3>1. \A q \in Process : Holds(q)
      BY <1>3, <2>1 DEF workerVars, HeldInv
    <3> QED BY <2>1, <3>1 DEF workerVars, HeldInv
  <2>2. CASE Exec
    <3>1. \A q \in Process : held'[q] = held[q] /\ (wpc'[q] = wpc[q] \/ (wpc[q] = "none" /\ wpc'[q] = "boot"))
      <4>1. lpc = "exec" /\ wpc' = [wpc EXCEPT ![<<target, run>>] = "boot"] /\ held' = held
        BY <2>2 DEF Exec, SpawnStep
      <4>2. wpc[<<target, run>>] = "none"
        BY <4>1 DEF LeaderInv
      <4> QED BY <4>1, <4>2 DEF TypeOK
    <3>2. \A q \in Process : Holds(q)
      BY <1>3, <3>1 DEF HeldInv, Working, Live
    <3> QED BY <3>1, <3>2 DEF HeldInv
  <2>3. CASE ShutdownTimeout
    <3>1. \A q \in Process : \/ held'[q] = held[q] /\ wpc'[q] = wpc[q]
                             \/ held'[q] = 0 /\ wpc'[q] = "dead"
      BY <2>3 DEF ShutdownTimeout
    <3>2. \A q \in Process : Holds(q)
      BY <1>3, <3>1 DEF HeldInv, Working, Live
    <3> QED BY <3>1, <3>2 DEF HeldInv
  <2> QED BY <1>4, <2>1, <2>2, <2>3, LeaderMoves DEF workerVars
<1>5. ASSUME NEW p \in Process, WorkerMove(p) PROVE HeldInv'
  <2>1. \A q \in Process : q # p => held'[q] = held[q] /\ wpc'[q] = wpc[q]
    BY <1>5, WorkerMoves
  <2>2. \A q \in Process : q # p => Holds(q)
    BY <1>3, <2>1 DEF HeldInv
  <2>3. CASE Consume(p)
    <3>1. CASE held'[p] = 0 /\ wpc'[p] = "stop"
      BY <2>1, <2>2, <3>1 DEF HeldInv, Working, Live
    <3>2. ASSUME NEW t \in 1 .. Len(task), held'[p] = t, wpc'[p] = "begin", task[t].assignee = p[1],
                 Mail(p[1], t), ~Waiting(t)'
          PROVE  HeldInv'
      <4>1. Waiting(t)
        BY <3>2 DEF Waiting, Process
      <4>2. \A q \in Process : held[q] # t
        BY <4>1 DEF HeldInv
      <4>3. Holds(p)
        BY <3>2, TasksStay DEF Working, Live
      <4> QED BY <2>1, <2>2, <3>2, <4>2, <4>3 DEF HeldInv
    <3> QED BY <2>3, <3>1, <3>2, Taken
  <2>4. CASE ~Consume(p)
    <3>1. Holds(p)
      BY <1>3, <1>5, <2>4, HeldSteps
    <3>2. held'[p] # 0 => held'[p] = held[p]
      BY <1>5, <2>4, HeldSteps
    <3> QED BY <2>1, <2>2, <3>1, <3>2 DEF HeldInv
  <2> QED BY <2>3, <2>4
<1> QED BY <1>4, <1>5, Moves

\* A task that is past stays past, and its row stays as it is.
LEMMA PastStays ==
  ASSUME TypeOK, LeaderInv, MailInv, HeldInv, Next, NEW t \in 1 .. Len(task), Past(t)
  PROVE  Past(t)' /\ task'[t] = task[t]
<1>1. ~Waiting(t)'
  BY WaitingShrinks DEF Past
<1>2. \A p \in Process : held[p] = t => wpc[p] = "giveup"
  BY DEF Past
<1>3. "giveup" \notin Working /\ "giveup" # "none" /\ t # 0
  BY DEF Working
<1>4. ASSUME NEW p \in Process, held'[p] = t PROVE wpc'[p] = "giveup"
  <2>1. CASE LeaderMove
    <3>1. CASE UNCHANGED workerVars
      BY <1>2, <1>4, <3>1 DEF workerVars
    <3>2. CASE Exec
      <4>1. lpc = "exec" /\ wpc' = [wpc EXCEPT ![<<target, run>>] = "boot"] /\ held' = held
        BY <3>2 DEF Exec, SpawnStep
      <4>2. wpc[<<target, run>>] = "none"
        BY <4>1 DEF LeaderInv
      <4> QED BY <1>2, <1>3, <1>4, <4>1, <4>2 DEF TypeOK
    <3>3. CASE ShutdownTimeout
      BY <1>2, <1>3, <1>4, <3>3 DEF ShutdownTimeout
    <3> QED BY <2>1, <3>1, <3>2, <3>3, LeaderMoves DEF workerVars
  <2>2. ASSUME NEW q \in Process, WorkerMove(q) PROVE wpc'[p] = "giveup"
    <3>1. CASE q # p
      BY <1>2, <1>4, <2>2, <3>1, WorkerMoves
    <3>2. CASE q = p /\ Consume(p)
      <4>1. Waiting(t)
        BY <1>3, <1>4, <3>2, Taken DEF Waiting, Process
      <4> QED BY <4>1 DEF Past
    <3>3. CASE q = p /\ ~Consume(p)
      BY <1>2, <1>3, <1>4, <2>2, <3>3, HeldSteps
    <3> QED BY <3>1, <3>2, <3>3
  <2> QED BY <2>1, <2>2, Moves
<1>5. task'[t] = task[t]
  BY <1>2, <1>3, TasksStay
<1> QED BY <1>1, <1>4, <1>5 DEF Past

---------------------------------------------------------------------------
(* Artifacts.                                                              *)

\* Save puts the task that the process holds behind the artifacts there are.
LEMMA SaveAppends ==
  ASSUME TypeOK, HeldInv, ArtifactInv, NEW p \in Process, Save(p)
  PROVE  /\ held[p] \in 1 .. Len(task) /\ ~Waiting(held[p])
         /\ DOMAIN artifact' = DOMAIN artifact \cup {Len(artifact) + 1}
         /\ Len(artifact) + 1 \notin DOMAIN artifact /\ artifact'[Len(artifact) + 1] = held[p]
         /\ \A k \in DOMAIN artifact : artifact'[k] = artifact[k]
         /\ \A t : InArtifact(t)' <=> InArtifact(t) \/ t = held[p]
         /\ ~InArtifact(held[p])
<1>1. wpc[p] = "save" /\ artifact' = Append(artifact, held[p])
  BY DEF Save, RoleCall, WorkerGoto, SaveReportSection
<1>2. held[p] \in 1 .. Len(task) /\ artifact \in Seq(1 .. Len(task))
  BY <1>1, HeldTaskExists DEF Working, Live, TypeOK
<1>3. /\ DOMAIN artifact' = DOMAIN artifact \cup {Len(artifact) + 1}
      /\ Len(artifact) + 1 \notin DOMAIN artifact /\ artifact'[Len(artifact) + 1] = held[p]
      /\ \A k \in DOMAIN artifact : artifact'[k] = artifact[k]
  BY <1>1, <1>2, AppendElements
<1>4. \A t : InArtifact(t)' <=> InArtifact(t) \/ t = held[p]
  BY <1>3 DEF InArtifact
<1>5. ~Waiting(held[p]) /\ ~InArtifact(held[p])
  BY <1>1, <1>2 DEF HeldInv, ArtifactInv
<1> QED BY <1>2, <1>3, <1>4, <1>5

LEMMA ArtifactStep ==
  ASSUME TypeOK, LeaderInv, MailInv, HeldInv, ArtifactInv, Next
  PROVE  ArtifactInv'
<1>1. UNCHANGED artifact \/ \E p \in Process : WorkerMove(p) /\ Save(p)
  BY Moves, LeaderMoves, WorkerMoves
<1>2. /\ \A t : InArtifact(t) => InArtifact(t)'
      /\ \A t : InArtifact(t)' => InArtifact(t) \/ \E p \in Process : Save(p) /\ t = held[p]
  BY <1>1, ArtifactsStay, SaveAppends DEF InArtifact
<1>3. ASSUME NEW t \in 1 .. Len(task'), Waiting(t)' PROVE ~InArtifact(t)'
  <2>1. CASE t \in 1 .. Len(task)
    BY <1>2, <1>3, <2>1, WaitingShrinks, SaveAppends DEF ArtifactInv
  <2>2. CASE t \notin 1 .. Len(task)
    <3>1. ~InArtifact(t)
      BY <2>2 DEF TypeOK, InArtifact
    <3> QED BY <1>2, <2>2, <3>1, SaveAppends
  <2> QED BY <2>1, <2>2
<1>4. ASSUME NEW p \in Process
      PROVE  /\ \A t : held'[p] = t /\ wpc'[p] \in {"begin", "save"} => ~InArtifact(t)'
             /\ \A t : held'[p] = t /\ wpc'[p] = "update" => InArtifact(t)'
  <2>1. ASSUME wpc'[p] = wpc[p] \/ (wpc[p] = "none" /\ wpc'[p] = "boot") \/ wpc'[p] = "dead",
               wpc'[p] = wpc[p] => held'[p] = held[p],
               ~Save(p)
        PROVE  /\ \A t : held'[p] = t /\ wpc'[p] \in {"begin", "save"} => ~InArtifact(t)'
               /\ \A t : held'[p] = t /\ wpc'[p] = "update" => InArtifact(t)'
    <3>1. wpc'[p] \in {"begin", "save"} => held[p] # 0 /\ held'[p] = held[p] /\ wpc[p] = wpc'[p]
      BY <2>1 DEF HeldInv, Working, Live
    <3>2. \A q \in Process : Save(q) /\ held[p] # 0 => held[q] # held[p]
      BY <2>1 DEF HeldInv
    <3> QED BY <1>2, <2>1, <3>1, <3>2 DEF ArtifactInv
  <2>2. CASE LeaderMove
    <3>1. CASE UNCHANGED workerVars
      <4>1. wpc' = wpc /\ held' = held
        BY <3>1 DEF workerVars
      <4>2. ~Save(p)
        BY <4>1 DEF Save, RoleCall, RoleCalls, WorkerGoto, TypeOK
      <4> QED BY <2>1, <4>1, <4>2
    <3>2. CASE Exec
      <4>1. lpc = "exec" /\ wpc' = [wpc EXCEPT ![<<target, run>>] = "boot"] /\ held' = held
        BY <3>2 DEF Exec, SpawnStep
      <4>2. wpc[<<target, run>>] = "none" /\ lpc' # lpc
        BY <3>2, <4>1 DEF LeaderInv, Exec, SpawnStep, SpawnOrder
      <4>3. ~Save(p)
        BY <4>2 DEF Save, RoleCall, WorkerGoto, leaderVars
      <4> QED BY <2>1, <4>1, <4>2, <4>3 DEF TypeOK
    <3>3. CASE ShutdownTimeout
      <4>1. ~Save(p)
        BY <3>3 DEF ShutdownTimeout, Save, RoleCall, WorkerGoto, leaderVars
      <4> QED BY <2>1, <3>3, <4>1 DEF ShutdownTimeout
    <3> QED BY <2>2, <3>1, <3>2, <3>3, LeaderMoves DEF workerVars
  <2>3. ASSUME NEW q \in Process, WorkerMove(q), q # p
        PROVE  /\ \A t : held'[p] = t /\ wpc'[p] \in {"begin", "save"} => ~InArtifact(t)'
               /\ \A t : held'[p] = t /\ wpc'[p] = "update" => InArtifact(t)'
    <3>1. wpc'[p] = wpc[p] /\ held'[p] = held[p]
      BY <2>3, WorkerMoves
    <3>2. ~Save(p)
      BY <3>1 DEF Save, RoleCall, RoleCalls, WorkerGoto, TypeOK
    <3> QED BY <2>1, <3>1, <3>2
  <2>4. ASSUME WorkerMove(p)
        PROVE  /\ \A t : held'[p] = t /\ wpc'[p] \in {"begin", "save"} => ~InArtifact(t)'
               /\ \A t : held'[p] = t /\ wpc'[p] = "update" => InArtifact(t)'
    <3>1. CASE Consume(p)
      <4>1. UNCHANGED artifact
        BY <3>1 DEF Consume
      <4>2. \A t \in 1 .. Len(task) : Mail(p[1], t) => ~InArtifact(t)
        BY DEF ArtifactInv, Waiting, Process
      <4> QED BY <3>1, <4>1, <4>2, Taken DEF InArtifact
    <3>2. CASE Save(p)
      <4>1. wpc'[p] = "update" /\ held'[p] = held[p]
        BY <3>2 DEF Save, RoleCall, RoleCalls, WorkerGoto, TypeOK
      <4> QED BY <3>2, <4>1, SaveAppends
    <3>3. CASE ~Consume(p) /\ ~Save(p)
      <4>1. wpc'[p] # "update" /\ (wpc'[p] \in {"begin", "save"} => wpc[p] = "begin" /\ held'[p] = held[p])
        BY <2>4, <3>3, HeldSteps DEF Working, Live
      <4>2. wpc[p] = "begin" => held[p] # 0 /\ ~InArtifact(held[p])
        BY DEF HeldInv, ArtifactInv, Working, Live
      <4>3. \A q \in Process : Save(q) /\ held[p] # 0 => held[q] # held[p]
        BY <3>3 DEF HeldInv
      <4> QED BY <1>2, <4>1, <4>2, <4>3
    <3> QED BY <3>1, <3>2, <3>3
  <2> QED BY <2>2, <2>3, <2>4, Moves
<1>5. ASSUME NEW t \in 1 .. Len(task'), task'[t].status = "completed" PROVE InArtifact(t)'
  <2>1. CASE UNCHANGED task
    BY <1>2, <1>5, <2>1 DEF ArtifactInv
  <2>2. CASE CreateTask
    <3>1. t \in 1 .. Len(task) /\ task'[t] = task[t]
      BY <1>5, <2>2 DEF CreateTask, TypeOK
    <3> QED BY <1>2, <1>5, <3>1 DEF ArtifactInv
  <2>3. ASSUME NEW p \in Process, CompleteTask(p) \/ FailTask(p) PROVE InArtifact(t)'
    <3>1. \/ task[t].status = "completed"
          \/ CompleteTask(p) /\ t = held[p]
      BY <1>5, <2>3, StatusMoves
    <3>2. CompleteTask(p) => InArtifact(held[p])
      BY DEF CompleteTask, RoleCall, WorkerGoto, ArtifactInv
    <3>3. t \in 1 .. Len(task)
      BY <1>5, <2>3, StatusMoves
    <3> QED BY <1>2, <3>1, <3>2, <3>3 DEF ArtifactInv
  <2> QED BY <2>1, <2>2, <2>3, Moves, LeaderMoves, WorkerMoves
<1>6. \A j, k \in DOMAIN artifact' : artifact'[j] = artifact'[k] => j = k
  <2>1. ASSUME NEW p \in Process, Save(p)
        PROVE  \A j, k \in DOMAIN artifact' : artifact'[j] = artifact'[k] => j = k
    BY <2>1, SaveAppends DEF ArtifactInv, InArtifact
  <2> QED BY <1>1, <2>1 DEF ArtifactInv
<1> QED BY <1>3, <1>4, <1>5, <1>6 DEF ArtifactInv

---------------------------------------------------------------------------
(* The leader and its runs.                                                *)

LEMMA LeaderInvStep ==
  ASSUME TypeOK, LeaderInv, Next
  PROVE  LeaderInv'
<1> USE SwarmAssumption DEF Lifecycle, Closing, Spawning
<1>1. ASSUME NEW p \in Process, WorkerMove(p) PROVE LeaderInv'
  <2>1. \A q \in Process : wpc[q] = "none" => wpc'[q] = "none"
    BY <1>1, WorkerMoves DEF Live
  <2>2. UNCHANGED <<run, lpc, spawned, target, verdict>>
    BY <1>1, WorkerMoves DEF leaderVars, loopVars, resultVars
  <2>3. \A w \in Worker, r \in Run : <<w, r>> \in Process
    BY DEF Process
  <2>4. lpc # "off" => run \in Run
    BY DEF LeaderInv
  <2>5. target \in spawned => target \in Worker
    BY DEF TypeOK
  <2> QED BY <2>1, <2>2, <2>3, <2>4, <2>5 DEF LeaderInv
<1>2. ASSUME CreateTeam PROVE LeaderInv'
  <2>1. /\ run' = run + 1 /\ run + 1 \in Run /\ lpc' = "handle" /\ spawned' = {}
        /\ UNCHANGED <<wpc, verdict, target>>
    BY <1>2 DEF CreateTeam, resultVars, workerVars, Run, TypeOK
  <2>2. \A r \in Run : r > run + 1 => r > run
    BY DEF Run, TypeOK
  <2>3. run + 1 > run
    BY DEF TypeOK
  <2> QED BY <2>1, <2>2, <2>3 DEF LeaderInv
<1>3. ASSUME Poll \/ EndOfBatch \/ MarkStarting \/ MarkIdle \/ CreateTask \/ EnqueueTask PROVE LeaderInv'
  <2>1. /\ UNCHANGED <<run, spawned, target, wpc>> /\ lpc # "off" /\ lpc \in Lifecycle
        /\ \/ lpc' \in Lifecycle /\ verdict' = verdict
           \/ lpc' = "finish" /\ verdict' = [verdict EXCEPT ![run] = "done"]
        /\ lpc' \in Spawning => lpc \in Spawning
        /\ lpc' \in {"starting", "exec"} => lpc \in {"starting", "exec"}
    BY <1>3
    DEF Poll, EndOfBatch, MarkStarting, MarkIdle, CreateTask, EnqueueTask, SpawnStep, SpawnOrder, storeVars,
        loopVars, resultVars, workerVars
  <2>2. \A r \in Run : r > run => verdict'[r] = verdict[r]
    BY <2>1 DEF TypeOK, Run
  <2> QED BY <2>1, <2>2 DEF LeaderInv, TypeOK
<1>4. ASSUME Handle PROVE LeaderInv'
  <2>1. /\ UNCHANGED <<run, wpc, verdict>> /\ lpc = "handle"
        /\ \/ UNCHANGED <<target, spawned, lpc>>
           \/ \E w \in Worker \ spawned : target' = w /\ spawned' = spawned \cup {w} /\ lpc' = "starting"
    BY <1>4 DEF Handle, storeVars, resultVars, workerVars
  <2> QED BY <2>1 DEF LeaderInv
<1>5. ASSUME Exec PROVE LeaderInv'
  <2>1. /\ UNCHANGED <<run, spawned, target, verdict>> /\ lpc = "exec" /\ lpc' = "mark"
        /\ wpc' = [wpc EXCEPT ![<<target, run>>] = "boot"]
    BY <1>5 DEF Exec, SpawnStep, SpawnOrder, resultVars
  <2>2. run \in Run /\ target \in spawned /\ target \in Worker
    BY <2>1 DEF LeaderInv, TypeOK
  <2>3. \A w \in Worker, r \in Run : w # target \/ r # run => wpc'[<<w, r>>] = wpc[<<w, r>>]
    BY <2>1 DEF TypeOK, Process
  <2>4. \A r \in Run : r > run => r # run
    BY DEF Run, TypeOK
  <2> QED BY <2>1, <2>2, <2>3, <2>4 DEF LeaderInv
<1>6. ASSUME PartialLeaderResult \/ SendShutdown \/ WorkersExited \/ LeaderStopped PROVE LeaderInv'
  <2>1. /\ UNCHANGED <<run, verdict, wpc>> /\ lpc \in Closing /\ lpc' \in Closing \cup {"off"}
    BY <1>6
    DEF PartialLeaderResult, SendShutdown, WorkersExited, LeaderStopped, storeVars, loopVars, resultVars, workerVars
  <2> QED BY <2>1 DEF LeaderInv
<1>7. ASSUME SpawnError \/ LeaderError \/ Timeout PROVE LeaderInv'
  <2>1. /\ UNCHANGED <<run, wpc>> /\ lpc \in Lifecycle /\ lpc' = "finish"
        /\ verdict' = [verdict EXCEPT ![run] = "error"]
    BY <1>7 DEF SpawnError, LeaderError, Timeout, LifecycleError, loopVars, workerVars
  <2>2. run \in Run /\ verdict'[run] = "error" /\ \A r \in Run : r > run => verdict'[r] = verdict[r]
    BY <2>1 DEF LeaderInv, TypeOK, Run
  <2> QED BY <2>1, <2>2 DEF LeaderInv
<1>8. ASSUME ShutdownTimeout PROVE LeaderInv'
  <2>1. /\ UNCHANGED <<run, verdict>> /\ lpc = "shutdown" /\ lpc' = "stopped"
        /\ \A q \in Process : wpc[q] = "none" => wpc'[q] = "none"
    BY <1>8 DEF ShutdownTimeout, LiveProcesses, Live, loopVars, resultVars
  <2>2. \A w \in Worker, r \in Run : <<w, r>> \in Process
    BY DEF Process
  <2> QED BY <2>1, <2>2 DEF LeaderInv
<1>9. ASSUME LeaderCrash PROVE LeaderInv'
  <2>1. UNCHANGED <<run, wpc>> /\ lpc' = "off" /\ lpc # "off" /\ verdict' = [verdict EXCEPT ![run] = "crashed"]
    BY <1>9 DEF LeaderCrash, workerVars
  <2>2. \A r \in Run : r > run => verdict'[r] = verdict[r]
    BY <2>1 DEF TypeOK, Run
  <2> QED BY <2>1, <2>2 DEF LeaderInv
<1> QED BY <1>1, <1>2, <1>3, <1>4, <1>5, <1>6, <1>7, <1>8, <1>9, Moves DEF LeaderMove, LeaderStep

LEMMA OverStep ==
  ASSUME TypeOK, LeaderInv, LeaderInv', OverInv, Next
  PROVE  OverInv'
<1> USE DEF OverInv, NoWorkerLeftBehind, LiveProcesses
<1>1. \A p \in Process : p[2] \in Run /\ p[1] \in Worker /\ p = <<p[1], p[2]>>
  BY DEF Process
<1>2. ASSUME NEW p \in Process, WorkerMove(p) PROVE OverInv'
  <2>1. \A q \in Process : wpc'[q] \in Live => wpc[q] \in Live
    BY <1>2, WorkerMoves
  <2>2. UNCHANGED <<run, lpc, verdict>>
    BY <1>2, WorkerMoves DEF leaderVars, resultVars
  <2> QED BY <2>1, <2>2
<1>3. ASSUME CreateTeam PROVE OverInv'
  <2>1. /\ lpc = "off" /\ lpc' = "handle" /\ run' = run + 1 /\ UNCHANGED <<wpc, verdict>>
    BY <1>3 DEF CreateTeam, resultVars, workerVars
  <2> QED BY <2>1
<1>4. ASSUME LeaderMove, lpc # "off", lpc' # "off", lpc' # "stopped", ~Exec PROVE OverInv'
  <2>1. UNCHANGED <<run, wpc>> /\ \A r \in Run : r # run => verdict'[r] = verdict[r]
    BY <1>4
    DEF LeaderMove, LeaderStep, CreateTeam, Poll, Handle, EndOfBatch, MarkStarting, MarkIdle, CreateTask,
        EnqueueTask, PartialLeaderResult, SendShutdown, WorkersExited, LeaderStopped, SpawnError, LeaderError,
        Timeout, LifecycleError, ShutdownTimeout, LeaderCrash, storeVars, loopVars, resultVars, workerVars, TypeOK
  <2> QED BY <1>1, <1>4, <2>1
<1>5. ASSUME Exec PROVE OverInv'
  <2>1. /\ lpc = "exec" /\ lpc' = "mark" /\ wpc' = [wpc EXCEPT ![<<target, run>>] = "boot"]
        /\ UNCHANGED <<run, verdict>>
    BY <1>5 DEF Exec, SpawnStep, SpawnOrder, resultVars
  <2>2. \A p \in Process : p[2] # run => wpc'[p] = wpc[p]
    BY <1>1, <2>1 DEF TypeOK
  <2> QED BY <2>1, <2>2
<1>6. ASSUME WorkersExited PROVE OverInv'
  BY <1>6 DEF WorkersExited, loopVars, resultVars, workerVars
<1>7. ASSUME ShutdownTimeout PROVE OverInv'
  <2>1. /\ \A p \in Process : wpc'[p] \in Live => wpc[p] \in Live /\ p \notin LiveProcesses
        /\ lpc' = "stopped" /\ lpc = "shutdown" /\ UNCHANGED <<run, verdict>>
    BY <1>7 DEF ShutdownTimeout, resultVars, Live
  <2> QED BY <2>1
<1>8. ASSUME LeaderStopped PROVE OverInv'
  <2>1. lpc = "stopped" /\ lpc' = "off" /\ UNCHANGED <<run, verdict, wpc>>
    BY <1>8 DEF LeaderStopped, resultVars, workerVars
  <2> QED BY <2>1
<1>9. ASSUME LeaderCrash PROVE OverInv'
  <2>1. lpc' = "off" /\ lpc # "off" /\ UNCHANGED <<run, wpc>> /\ verdict' = [verdict EXCEPT ![run] = "crashed"]
    BY <1>9 DEF LeaderCrash, workerVars
  <2>2. \A r \in Run : verdict'[r] = IF r = run THEN "crashed" ELSE verdict[r]
    BY <2>1 DEF TypeOK
  <2> QED BY <1>1, <2>1, <2>2
<1>10. ASSUME LeaderMove
       PROVE  \/ CreateTeam \/ Exec \/ WorkersExited \/ ShutdownTimeout \/ LeaderStopped \/ LeaderCrash
              \/ lpc # "off" /\ lpc' # "off" /\ lpc' # "stopped"
  BY <1>10
  DEF LeaderMove, LeaderStep, Poll, Handle, EndOfBatch, MarkStarting, MarkIdle, CreateTask, EnqueueTask,
      PartialLeaderResult, SendShutdown, SpawnError, LeaderError, Timeout, LifecycleError, SpawnStep,
      SpawnOrder, Lifecycle
<1> QED BY <1>2, <1>3, <1>4, <1>5, <1>6, <1>7, <1>8, <1>9, <1>10, Moves

LEMMA OneTaskStep ==
  ASSUME TypeOK, LeaderInv, HeldInv, OneTaskEach, Next
  PROVE  OneTaskEach'
<1> USE DEF Lifecycle
<1>1. \A t \in 1 .. Len(task) :
        /\ task'[t].assignee = task[t].assignee /\ task'[t].run = task[t].run
  BY TasksStay
<1>2. Len(task) \in Nat /\ run \in Nat /\ \A t \in 1 .. Len(task) : task[t].run \in Nat
  <2>1. \A t \in 1 .. Len(task) : task[t].run \in Run
    <3>1. task \in Seq(Row)
      BY DEF TypeOK, Row
    <3>2. \A t \in 1 .. Len(task) : task[t] \in Row
      BY <3>1
    <3> QED BY <3>2 DEF Row
  <2> QED BY <2>1, SwarmAssumption DEF TypeOK, Run
<1>3. ASSUME NEW p \in Process, WorkerMove(p) PROVE OneTaskEach'
  <2>1. UNCHANGED <<run, lpc, spawned, target>>
    BY <1>3, WorkerMoves DEF leaderVars, loopVars
  <2>2. Len(task') = Len(task)
    BY <1>3, WorkerMoves, StatusMoves
  <2> QED BY <1>1, <2>1, <2>2 DEF OneTaskEach
<1>4. CASE CreateTask
  <2> DEFINE n == Len(task) + 1
  <2>1. /\ Len(task') = n /\ task'[n].assignee = target /\ task'[n].run = run
        /\ UNCHANGED <<run, spawned, target>> /\ lpc = "task" /\ lpc' = "enqueue"
    BY <1>4 DEF CreateTask, SpawnStep, SpawnOrder, loopVars, TypeOK
  <2>2. target \in spawned
    BY <2>1 DEF LeaderInv, Spawning
  <2>3. \A t \in 1 .. Len(task') : t \in 1 .. Len(task) \/ t = n
    BY <1>2, <2>1
  <2> HIDE DEF n
  <2>4. \A t \in 1 .. Len(task) : task[t].run = run => task[t].assignee # target /\ task[t].assignee \in spawned
    BY <2>1 DEF OneTaskEach
  <2>5. \A t \in 1 .. Len(task) : task[t].run <= run
    BY DEF OneTaskEach
  <2>6. \A t \in 1 .. Len(task') : task'[t].run <= run'
    BY <1>1, <1>2, <2>1, <2>3, <2>5
  <2>7. \A t, u \in 1 .. Len(task) :
          task[t].assignee = task[u].assignee /\ task[t].run = task[u].run => t = u
    BY DEF OneTaskEach
  <2>8. \A t, u \in 1 .. Len(task') :
          task'[t].assignee = task'[u].assignee /\ task'[t].run = task'[u].run => t = u
    BY <1>1, <2>1, <2>3, <2>4, <2>7
  <2>9. \A t \in 1 .. Len(task') : task'[t].run = run' => task'[t].assignee \in spawned'
    BY <1>1, <2>1, <2>2, <2>3, <2>4
  <2> QED BY <2>1, <2>6, <2>8, <2>9 DEF OneTaskEach
<1>5. CASE CreateTeam
  <2>1. UNCHANGED task /\ run' = run + 1 /\ lpc' = "handle"
    BY <1>5 DEF CreateTeam
  <2>2. \A t \in 1 .. Len(task) : task[t].run < run'
    BY <1>2, <2>1 DEF OneTaskEach
  <2> QED BY <1>2, <2>1, <2>2 DEF OneTaskEach
<1>6. CASE Handle
  <2>1. /\ UNCHANGED <<run, task>> /\ lpc = "handle"
        /\ \/ UNCHANGED <<target, spawned, lpc>>
           \/ \E w \in Worker \ spawned : target' = w /\ spawned' = spawned \cup {w} /\ lpc' = "starting"
    BY <1>6 DEF Handle, storeVars
  <2> QED BY <2>1 DEF OneTaskEach
<1>7. ASSUME LeaderMove, ~CreateTask, ~CreateTeam, ~Handle PROVE OneTaskEach'
  <2>1. UNCHANGED <<run, task, spawned, target>>
    BY <1>7
    DEF LeaderMove, LeaderStep, Poll, EndOfBatch, MarkStarting, Exec, MarkIdle,
        EnqueueTask, PartialLeaderResult, SendShutdown, WorkersExited, LeaderStopped, SpawnError, LeaderError,
        Timeout, LifecycleError, ShutdownTimeout, LeaderCrash, storeVars, loopVars
  <2>2. /\ lpc' \in Lifecycle => lpc \in Lifecycle
        /\ lpc' \in {"starting", "exec", "mark", "task"} => lpc \in {"starting", "exec", "mark", "task"}
    BY <1>7
    DEF LeaderMove, LeaderStep, Poll, EndOfBatch, MarkStarting, Exec, MarkIdle,
        EnqueueTask, PartialLeaderResult, SendShutdown, WorkersExited, LeaderStopped, SpawnError, LeaderError,
        Timeout, LifecycleError, ShutdownTimeout, LeaderCrash, SpawnStep, SpawnOrder
  <2> QED BY <2>1, <2>2 DEF OneTaskEach
<1> QED BY <1>3, <1>4, <1>5, <1>6, <1>7, Moves

---------------------------------------------------------------------------
(* What the leader hears, and the order of the work.                       *)

\* What a message says stays true.
LEMMA TruthStays ==
  ASSUME TypeOK, LeaderInv, MailInv, HeldInv, Next, NEW m, Truthful(m)
  PROVE  Truthful(m)'
<1>1. m.type = "message" => m.from \in Worker /\ Saved(m.from)'
  BY ArtifactsStay DEF Truthful
<1>2. ASSUME m.type = "idle"
      PROVE  /\ m.task \in 1 .. Len(task')
             /\ Past(m.task)'
             /\ m.status = CompletedStatusForTask(m.task)'
  <2>1. /\ m.task \in 1 .. Len(task) /\ Past(m.task)
        /\ m.status = CompletedStatusForTask(m.task)
    BY <1>2 DEF Truthful
  <2>2. Past(m.task)' /\ task'[m.task] = task[m.task]
    BY <2>1, PastStays
  <2>3. m.task \in 1 .. Len(task')
    BY <2>1, TasksStay DEF TypeOK
  <2>4. CompletedStatusForTask(m.task)' = CompletedStatusForTask(m.task)
    BY <2>2 DEF CompletedStatusForTask, GetTask
  <2> QED BY <2>1, <2>2, <2>3, <2>4
<1> QED BY <1>1, <1>2 DEF Truthful

\* What a worker tells the leader is true when it is told: its artifact is there
\* when it reports, and it is done with its task when it goes idle.
LEMMA WorkerTellsTheTruth ==
  ASSUME TypeOK, LeaderInv, MailInv, HeldInv, PipelineInv, Next,
         NEW p \in Process, SendMessage(p) \/ Notify(p) \/ FailNotify(p)
  PROVE  \/ UNCHANGED inbox
         \/ \E m \in Message : /\ inbox' = [inbox EXCEPT !["leader"] = Append(@, m)]
                               /\ Truthful(m)'
<1>1. p[1] \in Worker
  BY DEF Process
<1>2. CASE SendMessage(p)
  <2>1. wpc[p] = "report" /\ inbox' = [inbox EXCEPT !["leader"] = Append(@, Report(p[1]))]
    BY <1>2 DEF SendMessage, RoleCall, WorkerGoto, EnqueueMessage
  <2>2. PICK m \in Message : m = Report(p[1])
    BY <1>1, MessageTypes
  <2>3. m.type = "message" /\ m.from = p[1]
    BY <2>2 DEF Report
  <2>4. Saved(m.from)
    BY <2>1, <2>3 DEF PipelineInv
  <2>5. Saved(m.from)'
    BY <1>1, <2>3, <2>4, ArtifactsStay
  <2>6. Truthful(m)'
    BY <1>1, <2>3, <2>5 DEF Truthful
  <2> QED BY <2>1, <2>2, <2>6
<1>3. CASE Notify(p) \/ FailNotify(p)
  <2>1. /\ wpc[p] \in {"notify", "failnotify"} /\ UNCHANGED task /\ UNCHANGED leaderVars
        /\ (wpc'[p] = "giveup" \/ held'[p] = 0)
        /\ \/ UNCHANGED inbox
           \/ inbox' = [inbox EXCEPT !["leader"] =
                          Append(@, Idle(p[1], held[p], CompletedStatusForTask(held[p])))]
    BY <1>3
    DEF Notify, FailNotify, WorkerGoto, BestEffort, NotifyLeaderIdle, EnqueueMessage, TypeOK
  <2>2. PICK t : t = held[p]
    OBVIOUS
  <2>3. t \in 1 .. Len(task)
    BY <2>1, <2>2, HeldTaskExists DEF Working, Live
  <2>4. PICK m \in Message : m = Idle(p[1], t, CompletedStatusForTask(t))
    <3>1. t \in TaskIDs
      BY <2>3 DEF TaskIDs, TypeOK
    <3> QED BY <1>1, <3>1, MessageTypes, StatusWords
  <2>5. m.type = "idle" /\ m.task = t /\ m.status = CompletedStatusForTask(t)
    BY <2>4 DEF Idle
  <2>6. CompletedStatusForTask(t)' = CompletedStatusForTask(t)
    BY <2>1 DEF CompletedStatusForTask, GetTask
  <2>7. ~Waiting(t)'
    BY <2>2, <2>3, WaitingShrinks DEF HeldInv
  <2>8. \A q \in Process : held'[q] = t => wpc'[q] = "giveup"
    <3>1. WorkerMove(p)
      BY <1>3 DEF WorkerMove, WorkerStep
    <3>2. \A q \in Process : q # p => held'[q] = held[q] /\ held[q] # t
      BY <2>2, <2>3, <3>1, WorkerMoves DEF HeldInv
    <3> QED BY <2>1, <2>3, <3>2
  <2>9. Past(t)'
    BY <2>7, <2>8 DEF Past
  <2>10. Truthful(m)'
    BY <2>1, <2>3, <2>5, <2>6, <2>9 DEF Truthful
  <2> QED BY <2>1, <2>2, <2>4, <2>10
<1> QED BY <1>2, <1>3

LEMMA NewsStep ==
  ASSUME TypeOK, LeaderInv, MailInv, HeldInv, PipelineInv, NewsInv, Next
  PROVE  NewsInv'
<1>1. \A m : Truthful(m) => Truthful(m)'
  BY TruthStays
<1>2. /\ inbox["leader"] \in Seq(Message) /\ "leader" \in Agent /\ \A w \in Worker : w # "leader"
      /\ todo \in Seq(Message)
  BY DEF TypeOK, Agent, Worker
<1>3. writerIdle # 0 => writerIdle \in 1 .. Len(task) /\ Past(writerIdle)
  BY DEF NewsInv, TypeOK, TaskIDs
<1>4. \A t \in 1 .. Len(task) : Past(t) => Past(t)'
  BY PastStays
<1>5. \A k \in DOMAIN inbox'["leader"] : \E m : m = inbox'["leader"][k] /\ Truthful(m)'
  <2>1. CASE UNCHANGED inbox
    BY <1>1, <2>1 DEF NewsInv
  <2>2. CASE Poll
    BY <1>2, <2>2 DEF Poll, TypeOK
  <2>3. CASE EnqueueTask \/ SendShutdown
    <3>1. inbox'["leader"] = inbox["leader"]
      <4>1. EnqueueTask => target \in Worker
        BY DEF EnqueueTask, SpawnStep, LeaderInv, Spawning, TypeOK
      <4>2. SendShutdown => Head(team) \in Worker
        BY DEF SendShutdown, TypeOK
      <4> QED BY <1>2, <2>3, <4>1, <4>2 DEF EnqueueTask, SendShutdown, EnqueueMessage, TypeOK
    <3> QED BY <1>1, <3>1 DEF NewsInv
  <2>4. ASSUME NEW p \in Process, Consume(p)
        PROVE  \A k \in DOMAIN inbox'["leader"] : \E m : m = inbox'["leader"][k] /\ Truthful(m)'
    <3>1. inbox'["leader"] = inbox["leader"]
      BY <1>2, <2>4 DEF Consume, Process, TypeOK
    <3> QED BY <1>1, <3>1 DEF NewsInv
  <2>5. ASSUME NEW p \in Process, SendMessage(p) \/ Notify(p) \/ FailNotify(p)
        PROVE  \A k \in DOMAIN inbox'["leader"] : \E m : m = inbox'["leader"][k] /\ Truthful(m)'
    <3>1. ASSUME NEW m \in Message, inbox' = [inbox EXCEPT !["leader"] = Append(@, m)], Truthful(m)'
          PROVE  \A k \in DOMAIN inbox'["leader"] : \E n : n = inbox'["leader"][k] /\ Truthful(n)'
      <4>1. inbox'["leader"] = Append(inbox["leader"], m)
        BY <1>2, <3>1 DEF TypeOK
      <4>2. \A k \in DOMAIN inbox'["leader"] :
              \/ k \in DOMAIN inbox["leader"] /\ inbox'["leader"][k] = inbox["leader"][k]
              \/ inbox'["leader"][k] = m
        BY <1>2, <4>1, AppendCases
      <4> QED BY <1>1, <3>1, <4>2 DEF NewsInv
    <3> QED BY <2>1, <2>5, <3>1, WorkerTellsTheTruth
  <2> QED BY <2>1, <2>2, <2>3, <2>4, <2>5, Moves, LeaderMoves, WorkerMoves
<1>6. ASSUME UNCHANGED <<todo, writerIdle>>
      PROVE  /\ \A k \in DOMAIN todo' : \E m : m = todo'[k] /\ Truthful(m)'
             /\ writerIdle' # 0 => \E t : t = writerIdle' /\ Past(t)'
  BY <1>1, <1>3, <1>4, <1>6 DEF NewsInv
<1>7. CASE CreateTeam
  <2>1. todo' = <<StartInput>> /\ writerIdle' = 0
    BY <1>7 DEF CreateTeam
  <2>2. PICK m : m = StartInput
    OBVIOUS
  <2>3. Truthful(m)'
    BY <2>2 DEF Truthful, StartInput
  <2> QED BY <1>5, <2>1, <2>2, <2>3 DEF NewsInv
<1>8. CASE Poll
  <2>1. todo' = inbox["leader"] /\ writerIdle' = writerIdle
    BY <1>8 DEF Poll
  <2>2. \A k \in DOMAIN todo' : \E m : m = todo'[k] /\ Truthful(m)'
    BY <1>1, <2>1 DEF NewsInv
  <2> QED BY <1>3, <1>4, <1>5, <2>1, <2>2 DEF NewsInv
<1>9. CASE Handle
  <2>1. /\ todo # <<>> /\ todo' = Tail(todo) /\ writerIdle' = WriterIdleAfter(Head(todo))
    BY <1>9 DEF Handle
  <2>2. \A k \in DOMAIN todo' : \E j \in DOMAIN todo : todo'[k] = todo[j]
    BY <1>2, <2>1
  <2>3. \A k \in DOMAIN todo' : \E m : m = todo'[k] /\ Truthful(m)'
    BY <1>1, <2>2 DEF NewsInv
  <2>4. Head(todo) = todo[1] /\ 1 \in DOMAIN todo
    BY <1>2, <2>1
  <2>5. PICK m : m = Head(todo) /\ Truthful(m)
    BY <2>4 DEF NewsInv
  <2>6. writerIdle' = writerIdle \/ (m.type = "idle" /\ writerIdle' = m.task)
    BY <2>1, <2>5 DEF WriterIdleAfter
  <2>7. m.type = "idle" => m.task \in 1 .. Len(task) /\ Past(m.task)
    BY <2>5 DEF Truthful
  <2>8. writerIdle' # 0 => \E t : t = writerIdle' /\ Past(t)'
    BY <1>3, <1>4, <2>6, <2>7
  <2> QED BY <1>5, <2>3, <2>8 DEF NewsInv
<1>10. UNCHANGED <<todo, writerIdle>> \/ CreateTeam \/ Poll \/ Handle
  <2>1. ASSUME LeaderMove PROVE UNCHANGED <<todo, writerIdle>> \/ CreateTeam \/ Poll \/ Handle
    BY <2>1
    DEF LeaderMove, LeaderStep, EndOfBatch, MarkStarting, Exec, MarkIdle, CreateTask, EnqueueTask,
        PartialLeaderResult, SendShutdown, WorkersExited, LeaderStopped, SpawnError, LeaderError,
        Timeout, LifecycleError, ShutdownTimeout, LeaderCrash, loopVars
  <2> QED BY <2>1, Moves, WorkerMoves DEF leaderVars, loopVars
<1> QED BY <1>5, <1>6, <1>7, <1>8, <1>9, <1>10 DEF NewsInv

LEMMA BeforeValues ==
  /\ Promise!Before["searcher"] = {}
  /\ Promise!Before["analyst"] = {"searcher"}
  /\ Promise!Before["writer"] = {"searcher", "analyst"}
  /\ DOMAIN Promise!Before = Worker
BY DEF Promise!Before, Worker

\* Whose artifact is there, theirs is who came before.
LEMMA SavedInOrder ==
  ASSUME TypeOK, PipelineInv, NEW w \in Worker, Saved(w)
  PROVE  Ready(w)
<1>1. PICK k \in DOMAIN artifact : task[artifact[k]].assignee = w
  BY DEF Saved
<1>2. artifact[k] \in 1 .. Len(task)
  BY DEF TypeOK
<1> QED BY <1>1, <1>2 DEF PipelineInv

\* The director spawns whom it may.
LEMMA ChoiceIsReady ==
  ASSUME TypeOK, PipelineInv, NEW m, Truthful(m), Choice(m) \in Worker
  PROVE  Ready(Choice(m))
<1>1. CASE m.type = "start"
  BY <1>1, BeforeValues DEF Choice, Ready
<1>2. CASE m.type = "message" /\ m.from = "searcher"
  <2>1. Choice(m) = "analyst" /\ Saved("searcher")
    BY <1>2 DEF Choice, Truthful
  <2> QED BY <2>1, BeforeValues DEF Ready
<1>3. CASE m.type = "message" /\ m.from = "analyst"
  <2>1. Choice(m) = "writer" /\ Saved("analyst")
    BY <1>3 DEF Choice, Truthful
  <2>2. Saved("searcher")
    BY <2>1, SavedInOrder, BeforeValues DEF Ready, Worker
  <2> QED BY <2>1, <2>2, BeforeValues DEF Ready
<1>4. CASE /\ m.type # "start" /\ ~(m.type = "message" /\ m.from = "searcher")
           /\ ~(m.type = "message" /\ m.from = "analyst")
  <2>1. Choice(m) = NoWorker
    BY <1>4 DEF Choice
  <2> QED BY <2>1 DEF NoWorker, Worker
<1> QED BY <1>1, <1>2, <1>3, <1>4

LEMMA PipelineStep ==
  ASSUME TypeOK, LeaderInv, MailInv, HeldInv, ArtifactInv, NewsInv, PipelineInv, Next
  PROVE  PipelineInv'
<1>1. \A w \in Worker : Ready(w) => Ready(w)'
  BY ArtifactsStay
<1>2. \A t \in 1 .. Len(task) : task[t].assignee \in Worker
  <2>1. task \in Seq(Row)
    BY DEF TypeOK, Row
  <2>2. \A t \in 1 .. Len(task) : task[t] \in Row
    BY <2>1
  <2> QED BY <2>2 DEF Row
<1>3. \A w \in spawned' : \E u : u = w /\ Ready(u)'
  <2>1. CASE Handle
    <3>1. PICK m : m = Head(todo) /\ (todo # <<>> => Truthful(m))
      BY DEF NewsInv, TypeOK
    <3>2. Truthful(m)
      BY <2>1, <3>1 DEF Handle
    <3>3. spawned' = spawned \/ (Choice(m) \in Worker /\ spawned' = spawned \cup {Choice(m)})
      BY <2>1, <3>1 DEF Handle
    <3> QED BY <1>1, <3>2, <3>3, ChoiceIsReady DEF PipelineInv, TypeOK
  <2>2. CASE spawned' = {} \/ UNCHANGED spawned
    BY <1>1, <2>2 DEF PipelineInv, TypeOK
  <2>3. ASSUME LeaderMove PROVE Handle \/ spawned' = {} \/ UNCHANGED spawned
    BY <2>3
    DEF LeaderMove, LeaderStep, CreateTeam, Poll, EndOfBatch, MarkStarting, Exec, MarkIdle, CreateTask,
        EnqueueTask, PartialLeaderResult, SendShutdown, WorkersExited, LeaderStopped, SpawnError, LeaderError,
        Timeout, LifecycleError, ShutdownTimeout, LeaderCrash, loopVars
  <2> QED BY <2>1, <2>2, <2>3, Moves, WorkerMoves DEF leaderVars, loopVars
<1>4. \A t \in 1 .. Len(task') : \E u : u = task'[t].assignee /\ Ready(u)'
  <2>1. \A t \in 1 .. Len(task) : task'[t].assignee = task[t].assignee
    BY TasksStay
  <2>2. CASE CreateTask
    <3>1. Len(task') = Len(task) + 1 /\ task'[Len(task) + 1].assignee = target
      BY <2>2 DEF CreateTask, TypeOK
    <3>2. target \in spawned /\ target \in Worker
      BY <2>2 DEF CreateTask, SpawnStep, LeaderInv, Spawning, TypeOK
    <3>3. \A t \in 1 .. Len(task') : t \in 1 .. Len(task) \/ t = Len(task) + 1
      BY <3>1 DEF TypeOK
    <3> QED BY <1>1, <1>2, <2>1, <3>1, <3>2, <3>3 DEF PipelineInv
  <2>3. CASE Len(task') = Len(task)
    BY <1>1, <1>2, <2>1, <2>3 DEF PipelineInv
  <2>4. Len(task') = Len(task) \/ CreateTask
    BY Moves, LeaderMoves, WorkerMoves, StatusMoves
  <2> QED BY <2>2, <2>3, <2>4
<1>5. ASSUME NEW p \in Process, wpc'[p] = "report" PROVE Saved(p[1])'
  <2>1. p[1] \in Worker
    BY DEF Process
  <2>2. CASE wpc[p] = "report"
    BY <2>1, <2>2, ArtifactsStay DEF PipelineInv
  <2>3. CASE WorkerMove(p) /\ wpc[p] # "report"
    <3>1. ~Consume(p)
      BY <1>5, <2>3 DEF Consume, WorkerGoto, TypeOK
    <3>2. CompleteTask(p)
      BY <1>5, <2>3, <3>1, HeldSteps
    <3>3. wpc[p] = "update"
      BY <3>2 DEF CompleteTask, RoleCall, WorkerGoto
    <3>4. InArtifact(held[p]) /\ held[p] # 0 /\ task[held[p]].assignee = p[1]
      BY <3>3 DEF ArtifactInv, HeldInv, Working, Live
    <3>5. Saved(p[1])
      BY <3>4 DEF InArtifact, Saved
    <3> QED BY <2>1, <3>5, ArtifactsStay
  <2>4. wpc[p] = "report" \/ WorkerMove(p)
    <3>1. ASSUME NEW q \in Process, WorkerMove(q), q # p PROVE wpc[p] = "report"
      BY <1>5, <3>1, WorkerMoves
    <3>2. ASSUME LeaderMove PROVE wpc[p] = "report"
      <4>1. CASE UNCHANGED wpc
        BY <1>5, <4>1
      <4>2. CASE Exec
        BY <1>5, <4>2 DEF Exec, TypeOK
      <4>3. CASE ShutdownTimeout
        BY <1>5, <4>3 DEF ShutdownTimeout
      <4> QED BY <3>2, <4>1, <4>2, <4>3, LeaderMoves
    <3> QED BY <3>1, <3>2, Moves
  <2> QED BY <2>2, <2>3, <2>4
<1>6. (\A w \in spawned : Ready(w))'
  BY <1>3
<1>7. (\A t \in 1 .. Len(task) : Ready(task[t].assignee))'
  BY <1>4 DEF Ready
<1>8. (\A p \in Process : wpc[p] = "report" => Saved(p[1]))'
  BY <1>5
<1> QED BY <1>6, <1>7, <1>8 DEF PipelineInv

LEMMA VerdictStep ==
  ASSUME TypeOK, LeaderInv, MailInv, HeldInv, NewsInv, VerdictInv, Next
  PROVE  VerdictInv'
<1>1. \A t \in 1 .. Len(task) : Reported(t) => t \in 1 .. Len(task') /\ Reported(t)'
  <2> SUFFICES ASSUME NEW t \in 1 .. Len(task), Reported(t) PROVE t \in 1 .. Len(task') /\ Reported(t)'
    OBVIOUS
  <2>1. Past(t)' /\ task'[t] = task[t]
    BY PastStays DEF Reported
  <2>2. t \in 1 .. Len(task')
    BY TasksStay DEF TypeOK
  <2> QED BY <2>1, <2>2 DEF Reported
<1>2. ASSUME NEW r \in Run, verdict'[r] = "done" PROVE \E t \in 1 .. Len(task') : Reported(t)'
  <2>1. CASE verdict[r] = "done"
    BY <1>1, <2>1 DEF VerdictInv
  <2>2. CASE verdict[r] # "done"
    <3>1. ASSUME LeaderMove PROVE EndOfBatch /\ AllDone
      BY <1>2, <2>2, <3>1
      DEF LeaderMove, LeaderStep, CreateTeam, Poll, Handle, EndOfBatch, MarkStarting, Exec, MarkIdle, CreateTask,
          EnqueueTask, PartialLeaderResult, SendShutdown, WorkersExited, LeaderStopped, SpawnError,
          LeaderError, Timeout, LifecycleError, ShutdownTimeout, LeaderCrash, resultVars, TypeOK
    <3>2. EndOfBatch /\ AllDone
      BY <1>2, <2>2, <3>1, Moves, WorkerMoves DEF leaderVars, resultVars
    <3>3. writerIdle \in 1 .. Len(task) /\ Past(writerIdle) /\ IsCompletedWriterTask(writerIdle)
      BY <3>2 DEF AllDone, NewsInv, TypeOK, TaskIDs
    <3>4. Reported(writerIdle)
      BY <3>3 DEF Reported, IsCompletedWriterTask, GetTask
    <3> QED BY <1>1, <3>3, <3>4
  <2> QED BY <2>1, <2>2
<1> QED BY <1>2 DEF VerdictInv

---------------------------------------------------------------------------
(* The theorems.                                                           *)

LEMMA InitInv == Init => SwarmInv
<1> SUFFICES ASSUME Init PROVE SwarmInv
  OBVIOUS
<1>1. TypeOK
  BY InitType
<1>2. /\ task = <<>> /\ artifact = <<>> /\ todo = <<>> /\ spawned = {} /\ run = 0 /\ lpc = "off"
      /\ writerIdle = 0
      /\ \A a \in Agent : inbox[a] = <<>>
      /\ \A r \in Run : verdict[r] = "none"
      /\ \A p \in Process : wpc[p] = "none" /\ held[p] = 0
  BY DEF Init
<1>3. /\ DOMAIN artifact = {} /\ DOMAIN todo = {} /\ Len(task) = 0 /\ 1 .. Len(task) = {}
      /\ \A a \in Agent : DOMAIN inbox[a] = {}
  BY <1>2
<1>4. "leader" \in Agent /\ \A w \in Worker : w \in Agent
  BY DEF Agent
<1> HIDE DEF Init
<1>5. LeaderInv
  BY <1>2 DEF LeaderInv, Lifecycle, Closing, Spawning, Process
<1>6. OverInv
  BY <1>2 DEF OverInv, NoWorkerLeftBehind, Live
<1>7. MailInv /\ ArtifactInv
  BY <1>2, <1>3, <1>4 DEF MailInv, ArtifactInv, Once
<1>8. HeldInv
  BY <1>2 DEF HeldInv, Working, Live
<1>9. NewsInv /\ PipelineInv /\ OneTaskEach /\ VerdictInv
  BY <1>2, <1>3, <1>4 DEF NewsInv, PipelineInv, OneTaskEach, VerdictInv
<1> QED BY <1>1, <1>5, <1>6, <1>7, <1>8, <1>9 DEF SwarmInv

\* SwarmInv is inductive: it holds at the start and every step of the leader, of
\* a worker and of the environment keeps it.
THEOREM InductiveInvariant == Spec => []SwarmInv
<1>1. SwarmInv /\ [Next]_vars => SwarmInv'
  <2> SUFFICES ASSUME SwarmInv, [Next]_vars PROVE SwarmInv'
    OBVIOUS
  <2> USE DEF SwarmInv
  <2>1. CASE UNCHANGED vars
    <3> USE <2>1 DEF vars, storeVars, loopVars, resultVars, leaderVars, workerVars
    <3>1. TypeOK'
      BY DEF TypeOK, Message, TaskIDs
    <3>2. LeaderInv' /\ OverInv'
      BY DEF LeaderInv, OverInv, NoWorkerLeftBehind, LiveProcesses
    <3>3. MailInv' /\ HeldInv'
      BY DEF MailInv, HeldInv, Fits, Once, Mail, Waiting
    <3>4. ArtifactInv'
      BY DEF ArtifactInv, InArtifact, Waiting, Mail
    <3>5. \A m : Truthful(m) => Truthful(m)'
      BY DEF Truthful, Saved, Past, Waiting, Mail, CompletedStatusForTask, GetTask
    <3>6. NewsInv'
      <4>1. /\ \A k \in DOMAIN inbox'["leader"] : \E m : m = inbox'["leader"][k] /\ Truthful(m)'
            /\ \A k \in DOMAIN todo' : \E m : m = todo'[k] /\ Truthful(m)'
        BY <3>5 DEF NewsInv
      <4>2. writerIdle' # 0 => Past(writerIdle)'
        BY DEF NewsInv, Past, Waiting, Mail
      <4> QED BY <4>1, <4>2 DEF NewsInv
    <3>7. PipelineInv'
      BY DEF PipelineInv, Ready, Saved
    <3>8. OneTaskEach' /\ VerdictInv'
      BY DEF OneTaskEach, VerdictInv, Reported, Past, Waiting, Mail
    <3> QED BY <3>1, <3>2, <3>3, <3>4, <3>6, <3>7, <3>8
  <2>2. CASE Next
    <3>1. TypeOK'
      BY <2>2, LeaderType, WorkerType, Moves DEF LeaderMove, WorkerMove
    <3>2. LeaderInv' /\ MailInv' /\ HeldInv' /\ ArtifactInv'
      BY <2>2, LeaderInvStep, MailStep, HeldStep, ArtifactStep
    <3>3. OverInv' /\ NewsInv' /\ PipelineInv' /\ OneTaskEach' /\ VerdictInv'
      BY <2>2, <3>2, OverStep, NewsStep, PipelineStep, OneTaskStep, VerdictStep
    <3> QED BY <3>1, <3>2, <3>3
  <2> QED BY <2>1, <2>2
<1> QED BY <1>1, InitInv, PTL DEF Spec

\* Type correctness: the rows, the messages and the processes are what store.go,
\* protocol.go and agent.go say they are, in any number of runs with any faults.
THEOREM TypeCorrect == Spec => []TypeOK
<1>1. SwarmInv => TypeOK
  BY DEF SwarmInv
<1> QED BY <1>1, InductiveInvariant, PTL

\* However many runs read the same mailboxes, a task is worked on by one process at
\* most and its artifact is saved once (ConsumeMessages).
THEOREM TasksRunOnce == Spec => []TaskRunOnce
<1>1. SwarmInv => TaskRunOnce
  BY DEF SwarmInv, HeldInv, ArtifactInv, TaskRunOnce
<1> QED BY <1>1, InductiveInvariant, PTL

\* A run that its leader has ended leaves no worker behind, in any number of runs
\* on one file (ShutdownTeammates, CommandContext).
THEOREM NobodyIsLeftBehind == Spec => []NoWorkerLeftBehind
<1>1. SwarmInv => NoWorkerLeftBehind
  BY DEF SwarmInv, OverInv
<1> QED BY <1>1, InductiveInvariant, PTL

\* An idle notification never says anything of its task but what the table says,
\* as long as it waits in the mailbox (notifyLeaderIdle).
THEOREM NotificationsAreTrue == Spec => []IdleTellsTheTruth
<1>1. SwarmInv => IdleTellsTheTruth
  BY DEF SwarmInv, NewsInv, Truthful, IdleTellsTheTruth
<1> QED BY <1>1, InductiveInvariant, PTL

\* The first run on a file is done only when its writer has saved the report,
\* completed its task and ended its turn.
FirstRunDone ==
  verdict[1] = "done" =>
    /\ \E t \in DOMAIN task : /\ task[t].assignee = "writer"
                              /\ task[t].status = "completed"
                              /\ \E k \in DOMAIN artifact : artifact[k] = t
    /\ wpc[<<"writer", 1>>] \notin Working

LEMMA FirstRun == SwarmInv => FirstRunDone
<1> SUFFICES ASSUME SwarmInv, verdict[1] = "done"
             PROVE  /\ \E t \in DOMAIN task : /\ task[t].assignee = "writer"
                                              /\ task[t].status = "completed"
                                              /\ \E k \in DOMAIN artifact : artifact[k] = t
                    /\ wpc[<<"writer", 1>>] \notin Working
  BY DEF FirstRunDone
<1> USE DEF SwarmInv
<1> DEFINE p == <<"writer", 1>>
<1>1. 1 \in Run /\ p \in Process /\ "writer" \in Worker
  BY SwarmAssumption DEF Run, Process, Worker
<1>2. PICK t \in 1 .. Len(task) : Reported(t)
  BY <1>1 DEF VerdictInv
<1>3. InArtifact(t) /\ t \in DOMAIN task
  BY <1>2 DEF Reported, ArtifactInv, TypeOK
<1>4. wpc[p] \notin Working
  <2> SUFFICES ASSUME wpc[p] \in Working PROVE FALSE
    OBVIOUS
  <2>1. run >= 1 /\ run \in Nat
    <3>1. run \in Nat
      BY SwarmAssumption DEF TypeOK
    <3>2. ~(1 > run)
      BY <1>1 DEF LeaderInv
    <3> QED BY <3>1, <3>2
  <2>2. CASE run = 1
    <3>1. held[p] \in 1 .. Len(task) /\ task[held[p]].assignee = "writer"
      BY <1>1, HeldTaskExists DEF HeldInv
    <3>2. \A u \in 1 .. Len(task) : task[u].run = 1
      <4>1. task \in Seq(Row)
        BY DEF TypeOK, Row
      <4>2. \A u \in 1 .. Len(task) : task[u] \in Row
        BY <4>1
      <4>3. \A u \in 1 .. Len(task) : task[u].run \in Run
        BY <4>2 DEF Row
      <4>4. \A u \in 1 .. Len(task) : task[u].run <= 1
        BY <2>2 DEF OneTaskEach
      <4> QED BY <4>3, <4>4 DEF Run
    <3>3. held[p] = t
      BY <1>2, <3>1, <3>2 DEF OneTaskEach, Reported
    <3> QED BY <1>1, <1>2, <3>3 DEF Reported, Past, Working
  <2>3. CASE run # 1
    BY <1>1, <2>3 DEF OverInv, NoWorkerLeftBehind, Working
  <2> QED BY <2>2, <2>3
<1> QED BY <1>2, <1>3, <1>4 DEF Reported, InArtifact

\* FirstRunDone, however many runs follow on the file.
THEOREM FirstRunEndsWithTheReport == Spec => []FirstRunDone
BY FirstRun, InductiveInvariant, PTL

\* The same as the run checks it: of a run that has its file for itself.
THEOREM DoneIsEarned ==
  ASSUME MaxRuns = 1
  PROVE  Spec => []DoneAfterTheWriter
<1>1. SwarmInv => DoneAfterTheWriter
  <2>1. Run = {1}
    BY DEF Run
  <2> QED BY <2>1, FirstRun DEF FirstRunDone, DoneAfterTheWriter
<1> QED BY <1>1, InductiveInvariant, PTL

---------------------------------------------------------------------------
(* The swarm implements the pipeline.                                      *)

\* Only the steps that end the first run change what the user is told of it.
LEMMA Outcome ==
  ASSUME TypeOK, LeaderInv, Next
  PROVE  \/ verdict'[1] = verdict[1]
         \/ verdict'[1] \in {"error", "crashed"}
         \/ verdict'[1] = "done" /\ verdict[1] = "none" /\ EndOfBatch /\ AllDone
<1>1. ASSUME LeaderMove
      PROVE  \/ UNCHANGED verdict
             \/ lpc # "off" /\ \E v \in {"error", "crashed"} : verdict' = [verdict EXCEPT ![run] = v]
             \/ EndOfBatch /\ AllDone /\ verdict' = [verdict EXCEPT ![run] = "done"] /\ lpc \in Lifecycle
  BY <1>1
  DEF LeaderMove, LeaderStep, CreateTeam, Poll, Handle, EndOfBatch, MarkStarting, Exec, MarkIdle, CreateTask,
      EnqueueTask, PartialLeaderResult, SendShutdown, WorkersExited, LeaderStopped, SpawnError, LeaderError,
      Timeout, LifecycleError, ShutdownTimeout, LeaderCrash, resultVars, Lifecycle
<1>2. ASSUME NEW p \in Process, WorkerMove(p) PROVE UNCHANGED verdict
  BY <1>2, WorkerMoves DEF leaderVars, resultVars
<1>3. 1 \in Run
  BY SwarmAssumption DEF Run
<1>4. lpc \in Lifecycle => verdict[run] = "none"
  BY DEF LeaderInv
<1> QED BY <1>1, <1>2, <1>3, <1>4, Moves DEF TypeOK

LEMMA StepImplementsPipeline ==
  ASSUME SwarmInv, Next
  PROVE  Promise!Next \/ UNCHANGED Promise!vars
<1> USE DEF SwarmInv
<1> DEFINE S == {w \in Worker : Saved(w)}
           o == IF verdict[1] \in {"error", "crashed"} THEN "failed" ELSE verdict[1]
<1>1. UNCHANGED artifact \/ \E p \in Process : WorkerMove(p) /\ Save(p)
  BY Moves, LeaderMoves, WorkerMoves
<1>2. ASSUME NEW p \in Process, WorkerMove(p), Save(p)
      PROVE  Promise!Next \/ UNCHANGED Promise!vars
  <2>1. p[1] \in Worker /\ UNCHANGED verdict /\ UNCHANGED task
    BY <1>2, WorkerMoves DEF Process, leaderVars, resultVars, Save
  <2>2. task[held[p]].assignee = p[1] /\ held[p] # 0
    BY <1>2 DEF Save, RoleCall, WorkerGoto, HeldInv, Working, Live
  <2>3. \A w \in Worker : Saved(w)' <=> Saved(w) \/ w = p[1]
    BY <1>2, <2>1, <2>2, SaveAppends DEF Saved
  <2>4. Ready(p[1])
    <3>1. held[p] \in 1 .. Len(task)
      BY <1>2, SaveAppends
    <3> QED BY <2>2, <3>1 DEF PipelineInv
  <2>5. Promise!Before[p[1]] \subseteq S
    <3>1. Promise!Before[p[1]] \subseteq Worker
      BY <2>1 DEF Promise!Before, Worker
    <3> QED BY <2>4, <3>1 DEF Ready
  <2>6. S' = S \cup {p[1]} /\ o' = o
    BY <2>1, <2>3
  <2>7. p[1] \in DOMAIN Promise!Before
    BY <2>1, BeforeValues
  <2>8. CASE p[1] \in S
    BY <2>6, <2>8 DEF Promise!vars
  <2>9. CASE p[1] \notin S
    BY <2>5, <2>6, <2>7, <2>9 DEF Promise!Next, Promise!Save
  <2> QED BY <2>8, <2>9
<1>3. ASSUME UNCHANGED artifact
      PROVE  Promise!Next \/ UNCHANGED Promise!vars
  <2>1. \A k \in DOMAIN artifact : task'[artifact[k]].assignee = task[artifact[k]].assignee
    <3>1. \A k \in DOMAIN artifact : artifact[k] \in 1 .. Len(task)
      BY DEF TypeOK
    <3> QED BY <3>1, TasksStay
  <2>2. S' = S
    BY <1>3, <2>1 DEF Saved
  <2>3. CASE verdict'[1] = verdict[1]
    BY <2>2, <2>3 DEF Promise!vars
  <2>4. CASE verdict'[1] \in {"error", "crashed"}
    BY <2>2, <2>4 DEF Promise!Next, Promise!Fail
  <2>5. CASE verdict'[1] = "done" /\ verdict[1] = "none" /\ EndOfBatch /\ AllDone
    <3>1. Saved("writer")
      BY <2>5 DEF AllDone, HasFinalReport, ListReportSections, IsFinalReport, Saved
    <3>2. Saved("searcher") /\ Saved("analyst")
      BY <3>1, SavedInOrder, BeforeValues DEF Ready, Worker
    <3>3. S = DOMAIN Promise!Before
      BY <3>1, <3>2, BeforeValues DEF Worker
    <3> QED BY <2>2, <2>5, <3>3 DEF Promise!Next, Promise!Succeed
  <2> QED BY <2>3, <2>4, <2>5, Outcome
<1> QED BY <1>1, <1>2, <1>3

\* Refinement, for any number of runs and any faults: what the first run on a file
\* shows its user is a behaviour of ReportPipeline.
THEOREM SwarmImplementsPipeline == Spec => ImplementsPipeline
<1>1. Init => Promise!Init
  <2> SUFFICES ASSUME Init PROVE Promise!Init
    OBVIOUS
  <2>1. DOMAIN artifact = {} /\ verdict[1] = "none"
    BY SwarmAssumption DEF Init, Run
  <2> QED BY <2>1 DEF Promise!Init, Saved
<1>2. SwarmInv /\ [Next]_vars => [Promise!Next]_(Promise!vars)
  <2>1. ASSUME UNCHANGED vars PROVE UNCHANGED Promise!vars
    BY <2>1 DEF vars, storeVars, leaderVars, resultVars, Promise!vars, Saved
  <2> QED BY <2>1, StepImplementsPipeline
<1> QED BY <1>1, <1>2, InductiveInvariant, PTL DEF Spec, ImplementsPipeline, Promise!Spec
====
