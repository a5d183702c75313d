---------------------------- MODULE ResearchSwarm ----------------------------
(***************************************************************************)
(* The research swarm of action/research_swarm: a leader process, one      *)
(* worker process per spawned teammate, and the SQLite file they share     *)
(* (mailboxes, members, tasks and artifacts).  Every statement on that     *)
(* file is a step of its own.  The director and the roles are the          *)
(* deterministic models of director.go and agent.go, the ones the command  *)
(* runs.  A later run of the same team may open the same file.             *)
(***************************************************************************)
EXTENDS Naturals, Sequences, FiniteSets

CONSTANTS
  MaxRuns,   \* how many times RunLeader is started on one file
  Faults     \* what the environment may do, a subset of FaultKinds

\* "timeout" is a deadline that may pass at any moment, "deadline" one that is
\* long enough for a run in which no worker dies.
FaultKinds ==
  {"spawn_error", "db_error", "worker_crash", "leader_crash", "timeout", "deadline"}
ASSUME SwarmAssumption == MaxRuns \in Nat \ {0} /\ Faults \subseteq FaultKinds

Worker == {"searcher", "analyst", "writer"}
Agent == Worker \cup {"leader"}
Run == 1 .. MaxRuns
Process == Worker \X Run        \* the worker process that a run spawned
NoWorker == "nobody"

WorkerStatus == {"absent", "starting", "idle", "running", "stopped", "failed"}
TaskStatus == {"pending", "completed", "failed"}

VARIABLES
  \* the SQLite file
  member,     \* swarm_members: the status of every agent
  inbox,      \* swarm_messages: the rows with no consumed_at, in id order
  task,       \* swarm_tasks; the field run says which run created the row
  artifact,   \* source_cards and report_sections: the tasks that saved them
  \* the leader
  run,        \* the number of the current or last RunLeader
  lpc,        \* where it is
  todo,       \* the inputs it still has to give the director
  target,     \* the teammate it is spawning
  spawned,    \* the director's flags spawnedSearch, -Analyst, -Writer
  team,       \* TeamRuntime.teammates; the rest of them during shutdown
  writerIdle, \* writerIdleTaskID
  verdict,    \* per run: how its lifecycle ended
  returned,   \* per run: the task whose section is LeaderResult.FinalReport
  \* the workers
  wpc,        \* per process: where it is, "none" before it is started
  held        \* per process: the task of the message it works on

storeVars == <<member, inbox, task, artifact>>
loopVars == <<todo, target, spawned, team, writerIdle>>
resultVars == <<verdict, returned>>
leaderVars == <<run, lpc, loopVars, resultVars>>
workerVars == <<wpc, held>>
vars == <<storeVars, leaderVars, workerVars>>

Lifecycle == {"handle", "poll", "starting", "exec", "mark", "task", "enqueue"}
Closing == {"finish", "shutdown", "stopped"}
Live == {"boot", "poll", "stop", "begin", "save", "update", "report", "settle",
         "notify", "failtask", "failmember", "failnotify", "giveup"}
\* in the middle of a message
Working == Live \ {"boot", "poll", "stop", "giveup"}

Init ==
  /\ member = [a \in Agent |-> "absent"]
  /\ inbox = [a \in Agent |-> <<>>]
  /\ task = <<>>
  /\ artifact = <<>>
  /\ run = 0
  /\ lpc = "off"
  /\ todo = <<>>
  /\ target = NoWorker
  /\ spawned = {}
  /\ team = <<>>
  /\ writerIdle = 0
  /\ verdict = [r \in Run |-> "none"]
  /\ returned = [r \in Run |-> 0]
  /\ wpc = [p \in Process |-> "none"]
  /\ held = [p \in Process |-> 0]

---------------------------------------------------------------------------
(* The statements of store.go.                                             *)

UpsertMember(a, status) == member' = [member EXCEPT ![a] = status]
EnqueueMessage(a, m) == inbox' = [inbox EXCEPT ![a] = Append(@, m)]
UpdateTask(t, status) == task' = [task EXCEPT ![t].status = status]
GetTask(t) == task[t]
SaveReportSection(t) == artifact' = Append(artifact, t)
ListReportSections == {k \in DOMAIN artifact : task[artifact[k]].assignee # "searcher"}

StartInput == [type |-> "start", from |-> NoWorker, task |-> 0, status |-> ""]
Report(w) == [type |-> "message", from |-> w, task |-> 0, status |-> ""]
Idle(w, t, status) == [type |-> "idle", from |-> w, task |-> t, status |-> status]
TaskMessage(t) == [type |-> "task", from |-> "leader", task |-> t, status |-> ""]
Shutdown == [type |-> "shutdown", from |-> "leader", task |-> 0, status |-> ""]

\* ConsumeMessages orders by kind and then by id, and marks what it returns in
\* the same transaction.
Priority(m) == CASE m.type = "shutdown" -> 0 [] m.type = "task" -> 1 [] OTHER -> 2
First(q) == CHOOSE i \in DOMAIN q : \A j \in DOMAIN q \ {i} :
              \/ Priority(q[i]) < Priority(q[j])
              \/ Priority(q[i]) = Priority(q[j]) /\ i < j
Without(q, i) == SubSeq(q, 1, i - 1) \o SubSeq(q, i + 1, Len(q))

---------------------------------------------------------------------------
(* The leader: CreateTeam, then runLeaderLifecycle.                        *)

CreateTeam ==
  /\ lpc = "off"
  /\ run < MaxRuns
  /\ run' = run + 1
  /\ UpsertMember("leader", "running")
  /\ todo' = <<StartInput>>
  /\ spawned' = {}
  /\ team' = <<>>
  /\ writerIdle' = 0
  /\ lpc' = "handle"
  /\ UNCHANGED <<inbox, task, artifact, target, resultVars, workerVars>>

\* One read takes at most ten rows, which the bounds of a run never exceed.
Poll ==
  /\ lpc = "poll"
  /\ todo' = inbox["leader"]
  /\ inbox' = [inbox EXCEPT !["leader"] = <<>>]
  /\ lpc' = "handle"
  /\ UNCHANGED <<member, task, artifact, run, target, spawned, team, writerIdle, resultVars,
                 workerVars>>

\* deterministicDirectorModel: whom the director spawns on an input.
ChoiceOnAnyNews(m) ==                  \* mutant: an idle notification is taken for a result
  IF m.type = "start" THEN "searcher"
  ELSE IF m.from = "searcher" THEN "analyst"
  ELSE IF m.from = "analyst" THEN "writer" ELSE NoWorker
Choice(m) ==
  CASE m.type = "start" -> "searcher"
    [] m.type = "message" /\ m.from = "searcher" -> "analyst"
    [] m.type = "message" /\ m.from = "analyst" -> "writer"
    [] OTHER -> NoWorker

\* Only an idle notification that says its task is resolved opens the gate.
WriterIdleAfterCompleted(m) ==         \* mutant: the task's word instead of the notification's
  IF m.type = "idle" /\ m.from = "writer" /\ m.status = "completed" THEN m.task
                                                                    ELSE writerIdle
WriterIdleAfter(m) ==
  IF m.type = "idle" /\ m.from = "writer" /\ m.status = "resolved" THEN m.task
                                                                   ELSE writerIdle

Handle ==
  /\ lpc = "handle"
  /\ todo # <<>>
  /\ todo' = Tail(todo)
  /\ writerIdle' = WriterIdleAfter(Head(todo))
  /\ LET w == Choice(Head(todo))
     IN IF w \in Worker \ spawned
        THEN /\ target' = w
             /\ spawned' = spawned \cup {w}
             /\ lpc' = "starting"
        ELSE UNCHANGED <<target, spawned, lpc>>
  /\ UNCHANGED <<storeVars, run, team, resultVars, workerVars>>

IsFinalReport(k) == task[artifact[k]].assignee = "writer"
HasFinalReport == \E k \in ListReportSections : IsFinalReport(k)
IsCompletedWriterTask(t) == GetTask(t).assignee = "writer" /\ GetTask(t).status = "completed"

\* The test at the end of the loop body.  (After the start input there is none,
\* but writerIdle is 0 then and the test cannot hold.)
AllDoneWithoutIdle ==                  \* mutant: the idle notification is not awaited
  \E t \in DOMAIN task : task[t].run = run /\ HasFinalReport /\ IsCompletedWriterTask(t)
AllDone == HasFinalReport /\ writerIdle > 0 /\ IsCompletedWriterTask(writerIdle)

EndOfBatch ==
  /\ lpc = "handle"
  /\ todo = <<>>
  /\ \/ /\ AllDone
        /\ verdict' = [verdict EXCEPT ![run] = "done"]
        /\ lpc' = "finish"
     \/ /\ ~AllDone
        /\ lpc' = "poll"
        /\ UNCHANGED verdict
  /\ UNCHANGED <<storeVars, run, loopVars, returned, workerVars>>

---------------------------------------------------------------------------
(* SpawnTeammate: register the member, start the process, mark it idle,    *)
(* create the task row and put its message into the mailbox.               *)

SpawnOrder ==
  [starting |-> "exec", exec |-> "mark", mark |-> "task", task |-> "enqueue",
   enqueue |-> "handle"]
SpawnStep(step) == lpc = step /\ lpc' = SpawnOrder[step]

MarkStarting ==
  /\ SpawnStep("starting")
  /\ UpsertMember(target, "starting")
  /\ UNCHANGED <<inbox, task, artifact, run, loopVars, resultVars, workerVars>>

Exec ==
  /\ SpawnStep("exec")
  /\ wpc' = [wpc EXCEPT ![<<target, run>>] = "boot"]
  /\ team' = Append(team, target)
  /\ UNCHANGED <<storeVars, run, todo, target, spawned, writerIdle, resultVars, held>>

\* The leader ignores an error of this write.
MarkIdle ==
  /\ SpawnStep("mark")
  /\ \/ UpsertMember(target, "idle")
     \/ "db_error" \in Faults /\ UNCHANGED member
  /\ UNCHANGED <<inbox, task, artifact, run, loopVars, resultVars, workerVars>>

CreateTask ==
  /\ SpawnStep("task")
  /\ task' = Append(task, [assignee |-> target, status |-> "pending", run |-> run])
  /\ UNCHANGED <<member, inbox, artifact, run, loopVars, resultVars, workerVars>>

EnqueueTaskWithoutID ==                \* mutant: the payload lacks the id of the row
  /\ SpawnStep("enqueue")
  /\ EnqueueMessage(target, TaskMessage(0))
  /\ UNCHANGED <<member, task, artifact, run, loopVars, resultVars, workerVars>>
EnqueueTask ==
  /\ SpawnStep("enqueue")
  /\ EnqueueMessage(target, TaskMessage(Len(task)))
  /\ UNCHANGED <<member, task, artifact, run, loopVars, resultVars, workerVars>>

---------------------------------------------------------------------------
(* The end of a run: the lifecycle returns, the result is read, and the    *)
(* teammates are told to stop and waited for.                              *)

\* The lifecycle returns an error: the process could not be started, or a
\* statement failed, or the leader's deadline passed.
LifecycleError ==
  /\ verdict' = [verdict EXCEPT ![run] = "error"]
  /\ lpc' = "finish"
  /\ UNCHANGED <<inbox, task, artifact, run, loopVars, returned, workerVars>>

SpawnError ==
  /\ "spawn_error" \in Faults
  /\ lpc = "exec"
  /\ UpsertMember(target, "failed")
  /\ LifecycleError

LeaderError ==
  /\ "db_error" \in Faults
  /\ \/ lpc \in {"poll", "starting", "task", "enqueue"}
     \/ lpc = "handle" /\ todo = <<>>
  /\ UNCHANGED member
  /\ LifecycleError

WorkerDied == \E p \in Process : p[2] = run /\ wpc[p] = "dead"
DeadlinePassed == "timeout" \in Faults \/ ("deadline" \in Faults /\ WorkerDied)

TimeoutInLoopBody ==                   \* mutant: the deadline is not looked at while it waits
  /\ DeadlinePassed
  /\ lpc \in Lifecycle \ {"poll", "handle"}
  /\ UNCHANGED member
  /\ LifecycleError
Timeout ==
  /\ DeadlinePassed
  /\ lpc \in Lifecycle
  /\ UNCHANGED member
  /\ LifecycleError

\* buildFinalReport: the content of the first section of that name.
FinalReport ==
  IF HasFinalReport
  THEN artifact[CHOOSE k \in ListReportSections :
                  /\ IsFinalReport(k)
                  /\ \A j \in ListReportSections : IsFinalReport(j) => k <= j]
  ELSE 0

PartialLeaderResult ==
  /\ lpc = "finish"
  /\ returned' = [returned EXCEPT ![run] = FinalReport]
  /\ lpc' = "shutdown"
  /\ UNCHANGED <<storeVars, run, loopVars, verdict, workerVars>>

SendShutdown ==
  /\ lpc = "shutdown"
  /\ team # <<>>
  /\ \/ EnqueueMessage(Head(team), Shutdown)
     \/ "db_error" \in Faults /\ UNCHANGED inbox
  /\ team' = Tail(team)
  /\ UNCHANGED <<member, task, artifact, run, lpc, todo, target, spawned, writerIdle, resultVars,
                 workerVars>>

LiveProcesses == {p \in Process : p[2] = run /\ wpc[p] \in Live}

WorkersExited ==
  /\ lpc = "shutdown"
  /\ team = <<>>
  /\ LiveProcesses = {}
  /\ lpc' = "stopped"
  /\ UNCHANGED <<storeVars, run, loopVars, resultVars, workerVars>>

\* The three seconds are over: Process.Kill for whoever has not exited.
ShutdownTimeoutWithoutKill ==          \* mutant: the wait is given up and nobody is killed
  /\ "timeout" \in Faults
  /\ lpc = "shutdown"
  /\ team = <<>>
  /\ lpc' = "stopped"
  /\ UNCHANGED <<storeVars, run, loopVars, resultVars, workerVars>>
ShutdownTimeout ==
  /\ "timeout" \in Faults
  /\ lpc = "shutdown"
  /\ team = <<>>
  /\ wpc' = [p \in Process |-> IF p \in LiveProcesses THEN "dead" ELSE wpc[p]]
  /\ held' = [p \in Process |-> IF p \in LiveProcesses THEN 0 ELSE held[p]]
  /\ lpc' = "stopped"
  /\ UNCHANGED <<storeVars, run, loopVars, resultVars>>

LeaderStopped ==
  /\ lpc = "stopped"
  /\ \/ UpsertMember("leader", "stopped")
     \/ "db_error" \in Faults /\ UNCHANGED member
  /\ lpc' = "off"
  /\ UNCHANGED <<inbox, task, artifact, run, loopVars, resultVars, workerVars>>

\* The leader process dies; the workers it started live on.
LeaderCrash ==
  /\ "leader_crash" \in Faults
  /\ lpc # "off"
  /\ verdict' = [verdict EXCEPT ![run] = "crashed"]
  /\ lpc' = "off"
  /\ UNCHANGED <<storeVars, run, loopVars, returned, workerVars>>

---------------------------------------------------------------------------
(* A worker process: RunWorker, runWorkerMessage and the tool calls of     *)
(* deterministicRoleModel.  p[1] is its agent, p[2] the run it is from.    *)

WorkerGoto(p, from, to) ==
  /\ wpc[p] = from
  /\ wpc' = [wpc EXCEPT ![p] = to]
  /\ UNCHANGED leaderVars

Boot(p) ==
  /\ WorkerGoto(p, "boot", "poll")
  /\ UpsertMember(p[1], "idle")
  /\ UNCHANGED <<inbox, task, artifact, held>>

ConsumeUnmarked(p) ==                  \* mutant: consumed_at is not written
  LET i == First(inbox[p[1]])
      m == inbox[p[1]][i]
  IN /\ inbox[p[1]] # <<>>
     /\ held' = [held EXCEPT ![p] = m.task]
     /\ WorkerGoto(p, "poll", IF m.type = "shutdown" THEN "stop" ELSE "begin")
     /\ UNCHANGED storeVars
Consume(p) ==
  LET i == First(inbox[p[1]])
      m == inbox[p[1]][i]
  IN /\ inbox[p[1]] # <<>>
     /\ inbox' = [inbox EXCEPT ![p[1]] = Without(@, i)]
     /\ held' = [held EXCEPT ![p] = m.task]
     /\ WorkerGoto(p, "poll", IF m.type = "shutdown" THEN "stop" ELSE "begin")
     /\ UNCHANGED <<member, task, artifact>>

Stop(p) ==
  /\ WorkerGoto(p, "stop", "dead")
  /\ UpsertMember(p[1], "stopped")
  /\ UNCHANGED <<inbox, task, artifact, held>>

Begin(p) ==
  /\ WorkerGoto(p, "begin", "save")
  /\ UpsertMember(p[1], "running")
  /\ UNCHANGED <<inbox, task, artifact, held>>

\* The calls of one task that change something, in the order of every role; the lists
\* that the analyst and the writer read first are data.
RoleCalls == [save |-> "update", update |-> "report", report |-> "settle"]
RoleCall(p, call) == WorkerGoto(p, call, RoleCalls[call])

\* save_source_card (the searcher's two cards are one step) or
\* save_report_section.
Save(p) ==
  /\ RoleCall(p, "save")
  /\ SaveReportSection(held[p])
  /\ UNCHANGED <<member, inbox, task, held>>

CompleteTask(p) ==
  /\ RoleCall(p, "update")
  /\ UpdateTask(held[p], "completed")
  /\ UNCHANGED <<member, inbox, artifact, held>>

SendMessage(p) ==
  /\ RoleCall(p, "report")
  /\ EnqueueMessage("leader", Report(p[1]))
  /\ UNCHANGED <<member, task, artifact, held>>

Settle(p) ==
  /\ WorkerGoto(p, "settle", "notify")
  /\ UpsertMember(p[1], "idle")
  /\ UNCHANGED <<inbox, task, artifact, held>>

CompletedStatusForTask(t) ==
  CASE GetTask(t).status = "completed" -> "resolved"
    [] GetTask(t).status = "failed" -> "failed"
    [] OTHER -> ""
NotifyLeaderIdleResolved(p) ==         \* mutant: the end of a turn is taken for success
  EnqueueMessage("leader", Idle(p[1], held[p], "resolved"))
NotifyLeaderIdle(p) ==
  EnqueueMessage("leader", Idle(p[1], held[p], CompletedStatusForTask(held[p])))

Notify(p) ==
  /\ WorkerGoto(p, "notify", "poll")
  /\ NotifyLeaderIdle(p)
  /\ held' = [held EXCEPT ![p] = 0]
  /\ UNCHANGED <<member, task, artifact>>

---------------------------------------------------------------------------
(* What goes wrong in a worker.  An error of a statement ends the ADK loop *)
(* or the message; the writes of the failure path are best effort.         *)

BestEffort(write, untouched) == write \/ ("db_error" \in Faults /\ untouched)

WorkerError(p) ==
  /\ "db_error" \in Faults
  /\ \/ \E step \in {"boot", "poll", "stop"} : WorkerGoto(p, step, "dead")
     \/ \E step \in {"begin", "settle", "notify"} : WorkerGoto(p, step, "giveup")
     \/ \E step \in {"save", "update", "report"} : WorkerGoto(p, step, "failtask")
  /\ UNCHANGED <<storeVars, held>>

FailTask(p) ==
  /\ WorkerGoto(p, "failtask", "failmember")
  /\ BestEffort(UpdateTask(held[p], "failed"), UNCHANGED task)
  /\ UNCHANGED <<member, inbox, artifact, held>>

FailMember(p) ==
  /\ WorkerGoto(p, "failmember", "failnotify")
  /\ BestEffort(UpsertMember(p[1], "failed"), UNCHANGED member)
  /\ UNCHANGED <<inbox, task, artifact, held>>

FailNotify(p) ==
  /\ WorkerGoto(p, "failnotify", "giveup")
  /\ BestEffort(NotifyLeaderIdle(p), UNCHANGED inbox)
  /\ UNCHANGED <<member, task, artifact, held>>

\* RunWorker marks the member failed and returns; the process exits.
GiveUp(p) ==
  /\ WorkerGoto(p, "giveup", "dead")
  /\ BestEffort(UpsertMember(p[1], "failed"), UNCHANGED member)
  /\ held' = [held EXCEPT ![p] = 0]
  /\ UNCHANGED <<inbox, task, artifact>>

\* The process is killed: by a fault, or by CommandContext when the leader's
\* deadline passes, which it may do while the leader is closing the run.
Killed(p) ==
  /\ \/ "worker_crash" \in Faults
     \/ "timeout" \in Faults /\ p[2] = run /\ lpc \in Closing
  /\ wpc[p] \in Live
  /\ wpc' = [wpc EXCEPT ![p] = "dead"]
  /\ held' = [held EXCEPT ![p] = 0]
  /\ UNCHANGED <<storeVars, leaderVars>>

---------------------------------------------------------------------------

LeaderStep ==
  \/ Poll \/ Handle \/ EndOfBatch
  \/ MarkStarting \/ Exec \/ MarkIdle \/ CreateTask \/ EnqueueTask
  \/ PartialLeaderResult \/ SendShutdown \/ WorkersExited \/ LeaderStopped

WorkerStep(p) ==
  \/ Boot(p) \/ Consume(p) \/ Stop(p) \/ Begin(p) \/ Save(p) \/ CompleteTask(p)
  \/ SendMessage(p) \/ Settle(p) \/ Notify(p)
  \/ FailTask(p) \/ FailMember(p) \/ FailNotify(p) \/ GiveUp(p)

Next ==
  \/ CreateTeam \/ LeaderStep
  \/ SpawnError \/ LeaderError \/ Timeout \/ ShutdownTimeout \/ LeaderCrash
  \/ \E p \in Process : WorkerStep(p) \/ WorkerError(p) \/ Killed(p)

Spec == Init /\ [][Next]_vars

\* The user starts the command; the processes keep running; time passes.
Fairness ==
  /\ WF_vars(CreateTeam) /\ WF_vars(LeaderStep)
  /\ WF_vars(Timeout) /\ WF_vars(ShutdownTimeout)
  /\ \A p \in Process : WF_vars(WorkerStep(p))
FairSpec == Spec /\ Fairness

\* Bounds of a second run on the file: at most two processes of the first are alive, and it has
\* not gone beyond its second teammate.
TwoOrphans ==
  run = 2 => Cardinality({p \in Process : p[2] = 1 /\ wpc[p] \in Live}) <= 2
SecondRunStarts == Len(SelectSeq(task, LAMBDA t : t.run = 2)) <= 2

---------------------------------------------------------------------------
(* What one run promises: ReportPipeline.                                  *)

Saved(w) == \E k \in DOMAIN artifact : task[artifact[k]].assignee = w
Promise == INSTANCE ReportPipeline WITH
             saved <- {w \in Worker : Saved(w)},
             outcome <- IF verdict[1] \in {"error", "crashed"} THEN "failed" ELSE verdict[1]

\* One run, whatever goes wrong in it, is the pipeline of ReportPipeline: cards,
\* then the analysis, then the report, each saved before the next is started,
\* and success only with the report (runLeaderLifecycle and the director).
ImplementsPipeline == Promise!Spec

---------------------------------------------------------------------------
(* Properties.                                                             *)

TaskIDs == 0 .. Len(task)
Message == [type : {"start", "message", "idle", "task", "shutdown"},
            from : Agent \cup {NoWorker}, task : TaskIDs,
            status : {"", "resolved", "failed"}]

\* The type invariant: rows of the four tables name tasks that exist, and the
\* leader and the workers are at one of their steps with a task they may hold.
TypeOK ==
  /\ member \in [Agent -> WorkerStatus]
  /\ inbox \in [Agent -> Seq(Message)]
  /\ task \in Seq([assignee : Worker, status : TaskStatus, run : Run])
  /\ artifact \in Seq(1 .. Len(task))
  /\ run \in 0 .. MaxRuns
  /\ lpc \in Lifecycle \cup Closing \cup {"off"}
  /\ todo \in Seq(Message)
  /\ target \in Worker \cup {NoWorker}
  /\ spawned \subseteq Worker
  /\ team \in Seq(Worker)
  /\ writerIdle \in TaskIDs
  /\ verdict \in [Run -> {"none", "done", "error", "crashed"}]
  /\ returned \in [Run -> TaskIDs]
  /\ wpc \in [Process -> Live \cup {"none", "dead"}]
  /\ held \in [Process -> TaskIDs]

\* A task is worked on by one process at most and its artifact is saved once,
\* also when processes of an earlier run still read the same mailbox
\* (ConsumeMessages selects and marks in one transaction).
TaskRunOnce ==
  /\ \A p, q \in Process : (p # q /\ held[p] # 0) => held[p] # held[q]
  /\ \A j, k \in DOMAIN artifact : artifact[j] = artifact[k] => j = k

\* When a run is over and its leader has not crashed, none of its workers is
\* left running (ShutdownTeammates, CommandContext).
NoWorkerLeftBehind ==
  \A p \in Process : (verdict[p[2]] \in {"done", "error"} /\ (lpc = "off" \/ run # p[2]))
                        => wpc[p] \notin Live

\* An idle notification in the leader's mailbox says of its task what the task
\* table says, whatever writes of the worker's failure path were lost
\* (notifyLeaderIdle reads the task before it reports).
IdleTellsTheTruth ==
  \A k \in DOMAIN inbox["leader"] :
    LET m == inbox["leader"][k]
    IN m.type = "idle" => m.status = CompletedStatusForTask(m.task)

\* A run of its own file succeeds only when the writer has saved the report,
\* completed its task and ended its turn (the three conditions of
\* docs/superpowers/specs/2026-07-14-research-swarm-claude-completion-design.md).
DoneAfterTheWriter ==
  \A r \in Run : verdict[r] = "done" =>
    /\ \E t \in DOMAIN task : /\ task[t].assignee = "writer"
                              /\ task[t].status = "completed"
                              /\ \E k \in DOMAIN artifact : artifact[k] = t
    /\ wpc[<<"writer", r>>] \notin Working

\* Every run ends: the leader never waits for ever, whichever process died.
EveryRunReturns == lpc # "off" ~> lpc = "off"

\* A run in which no worker dies ends with the report: the three roles hand over
\* to each other and the leader sees the last notification (runLeaderLifecycle).
HealthyRunSucceeds == <>(verdict[1] = "done" \/ WorkerDied)
=============================================================================
