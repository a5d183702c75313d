# TLA+ models of ai-designing

The repository is a collection of Go packages (and one Python package), each an
agent design pattern with a command under `src/cmd/`. With two exceptions
(`reasoning/compose`, which uses `cot` and `hypothesis`, and the metrics, which score what
other packages did) they do not call one another: every one has its own state, its own
storage and its own concurrency. So the project has one family of modules per package, and
composition happens inside a package (store and mutex, leader and workers, session and
background goroutines, gate and policy).

All paths below are relative to the repository. `PROJECT.json` maps every definition
to the lines it stands for, lists the runs, the hazards, the findings and the
theorems.

## 1. Inventory

### Packages with processes, files or goroutines that interleave

| Package | State | Operations | What is hard |
|---|---|---|---|
| `src/memory/claude_tasklist` | a directory: one JSON file per task, `.highwatermark`; one mutex per directory | `NewStore`, `Create`, `List`, `ListSummaries`, `Counts`, `Update`, delete | one operation replaces several files; a write error or a crash between two of them; ids that must not come back; parallel tool calls through several Stores |
| `src/action/research_swarm` | one SQLite file (members, messages, tasks, cards, sections), one leader process, one worker process per teammate | `RunLeader`, spawn, the director's choices, `RunWorker`, tool calls, shutdown | messages of several kinds consumed in priority order; processes die at any statement; the leader's stop condition; a file that a run before has used |
| `src/memory/claude_auto_memory` | transcript file, context of the model, summary and state files, extraction cursor, two background goroutines; topic files with an index | `RunTurn`, compaction, summary update, extraction, resume; upsert and recall of topics | the goroutines work on older snapshots; two files per commit; a wait with a limit; a crash loses everything in memory; processes share the topics without a lock |
| `src/action/claude_permissions` and `src/cmd/claude-permission-agent` | per tool call: a pending request, a channel of capacity one, a bounded queue; rules and mode; the flags and notices of tenants | policy evaluation, `Resolve`, hooks, broker, terminal loop; the production changes of the SaaS example | hooks and terminal race; a context is cancelled at any time; a full queue; a stale prompt; the order of the policy's early returns |
| `src/cmd/turnloop-agent` | latest sequence number, batches of discarded turns, a `final` channel | push, preempt, complete a turn, wait for the answer | an answer to an older question; the number is given before the push |
| `src/memory/hierarchical` | working, session and long-term layer, token budget, one mutex | `Add`, `Retrieve`, `Consolidate`, eviction | a snapshot is used after the lock is released; `Consolidate` in three steps |
| `src/memory/hierarchical_v1` | layers of entries by key, in a map and in SQLite | write by policy, propose, promote, restart, assemble the context | the row is written outside the mutex; promotion reads first; budgets per layer |
| `src/memory/failure_tracking` | a SQLite journal of failures, each kept as columns and as JSON | `Record`, `Review`, `RecallBeforeTool` | read-modify-write without a transaction by two journals; structured triggers before similarity |
| `src/memory/progress_tracking` | a plan in SQLite and a copy of it in the tracker; a ledger of events and a table of mechanical values | plan tools, `Query`, write gate, drift, tool orchestration | what happened is inferred from the plan before and after; every statement may fail |
| `src/memory/rag` (Python) | raw documents, docstore, vectors, manifest, alias | ingest, golden questions, release, switch, roll back, retrieve | the gate is looked at only when the alias moves; docstore and vectors are two files |
| `src/memory/mem0` | rows with hashes, messages | `Add` (inferred and raw), `Search` | hashes are read and rows inserted without a lock |
| `src/perception/claude_compaction` | a message list that grows, boundaries, invoked skills | `PrepareNextQuery`, snip, collapse, summary, writeback | messages arrive while a summary is written; what a view starts at |
| `src/perception/compaction` | sessions of turns, an anchor, compaction events | concurrent support queries with three levels of compaction | the lock is free while the agent runs and between the turns it appends; errors must survive all levels |
| `src/perception/triage` | candidates by priority under a token budget, handles and their documents | `Triage`, `ReadTenantHandle` | what gives way to what; whose handle it is |
| `src/reflection/skillmode` | releases behind aliases, outcomes in a window | resolve, list, load, record, release | health and aliases change between the list and the load |
| `src/reflection/selfheal` | the commits of an attempt, the policy in force | diagnose, fix, critic, apply, verify, roll back, hand off | a rollback that fails half-way; what is left applied |

### Packages that are one loop over a model

`reasoning/tot` (beam, depth-first, Monte Carlo and forest searches), `reasoning/hypothesis`
(propose, gather and judge evidence, eliminate), `reasoning/compose` with `reasoning/cot`
(route, chain, verify, search), `reasoning/cot_v2` (claims, evidence, gates),
`reasoning/claude_native_thinking` (reasoning carried from turn to turn),
`reflection/critique` (generate and criticise), `reflection/replay` (traces, reflections,
lessons), `action/guardrail` (a middleware around every call),
`perception/multimodal-fusion` (files to blocks to parts), `evaluation` and
`observability/metrics` (scores of finished runs). They have no concurrency; what is hard is
that a model may answer anything, that any call may fail, and that several steps later an
answer, a score or a verdict has to be that of what was done.

`action/tool_dispatcher`, `observability/cozeloop`, the mains under `cmd` and `docs` are not
modelled (section 5).

### Interactions

- `claude_tasklist`: goroutines share a directory through `sharedStoreMutex`; they meet
  only at the mutex and at the files.
- `research_swarm`: leader and workers meet only at rows of the SQLite file, and at
  process start, exit and kill.
- `claude_auto_memory`: `RunTurn` calls both schedulers (`Schedule`); the summary
  goroutine writes two files that the compactor of a later turn reads; the extractor's
  cursor lives in memory only, and what it extracts goes to the topic store.
- `claude_permissions`: `authorize` evaluates the policy; `Resolve` starts the goroutine
  that registers and publishes a request, and one goroutine per hook; the terminal
  loop takes requests off the queue; all of them answer through
  `PermissionBroker.Resolve`. The SaaS tools stand behind the same policy.
- Everywhere else the parties are calls of one store: tool calls of one model message run in
  parallel, and several processes may open one file.

### What makes each of them correct

- Task list: an operation takes effect at one instant or not at all; ids are never
  reused; the dependency graph is symmetric and acyclic, so that the plan can go on;
  nobody keeps the mutex.
- Swarm: success means that the whole pipeline was saved in order and the writer is at
  rest; no task is done twice; a notification tells the truth; no worker is left
  behind; the leader returns.
- Session memory: what leaves the context is told by the summary; the boundary never
  runs ahead of the summary; no message is extracted twice and no answer is missed;
  the recent turns stay.
- Permissions: the first answer counts and is the only one; a question fails only when
  its caller cancels; a request whose call has gone cannot be resolved; more objections
  never give a milder result.
- Memories: nothing is lost between tiers, stores that hold one thing agree, and what is
  found is the best there is.
- Loops over a model: nothing leaves without having been through its gates.

The list of hazards in `PROJECT.json` puts each of these at the line where it could go
wrong, with the property that would show it.

## 2. Modules and the code

### Task list

| Module | Code |
|---|---|
| `TaskDependencies` | `dependency_graph.go`, `types.go`: validation of a snapshot, the edits of `Update` and delete, the blockers `ListSummaries` shows |
| `TaskStore` | `store.go`, `store_persistence.go`: one action per file write, goroutines, mutex, write errors, crash and restart |
| `TaskGraph` | abstract: tasks, spent ids, edits at one instant |
| `TaskDependencyDFS` | `validateAcyclicDependencies` with its three colours and its unordered roots; proved in `DesignProofs` |
| `TaskStoreProofs` | theorems |

A snapshot is a function from ids to tasks; id slices are sets because the code keeps
them sorted and free of duplicates. `file` and `mark` are the disk; `holders` is the
shared mutex; `pc`, `req`, `snap`, `batch`, `newID` are a goroutine's call and its
locals. `Call` and `Lock` start an operation; `OpenMark`/`OpenLoad` are `NewStore`;
`CreatePlan`/`CreateMark`/`CreateFile` are `Create` (the watermark goes first);
`LoadUpdate` and `LoadDelete` are everything that happens before the first write;
`WriteBatch` is one `atomicWrite` of `writeEncodedTaskBatchLocked`; `RemoveFile` ends a
delete. `WriteError` returns the error from any write; `Crash` takes all goroutines and
the mutex and leaves the disk. `retired` and `interrupted` are history variables.

The refinement to `TaskGraph` maps the graph to `Committed`: while a batch is being
written the caller-visible graph is still the snapshot the operation loaded; it becomes
the new one with the last file. An id is spent once it names a file or is retired.

### Research swarm

| Module | Code |
|---|---|
| `ResearchSwarm` | `leader.go`, `worker.go`, `store.go`, and the deterministic models of `director.go` and `agent.go`; one step per SQL statement |
| `ReportPipeline` | abstract: three artifacts in order, then success |
| `ResearchSwarmProofs` | theorems |

`member`, `inbox`, `task`, `artifact` are the tables. The leader is `lpc` with the
variables of `runLeaderLifecycle` (`spawned`, `writerIdle`, `team`); a process is an
agent and the run that spawned it, so that a worker of a crashed leader can meet its
successor on one mailbox. The order of the five steps of `SpawnTeammate` is the function
`SpawnOrder`. `BestEffort` marks the writes whose error the code ignores. Faults:
statement errors, a process that cannot be started, a worker or the leader killed, the
deadline (at any moment, or one long enough for a run in which nobody dies), and
`ShutdownTimeout` for the three seconds before `Process.Kill`. The searcher's two cards
are one step.

### Session memory, topics and transcript

| Module | Code | Property |
|---|---|---|
| `SessionMemory` | `runner.go`, `session_compactor.go`, `session_memory.go`, `session_store.go`, `extractor.go`; the latest-wins queue that `scheduler.go` and `session_scheduler.go` both have, twice | see the runs; its theorems are at the end of the module |
| `TopicStore` | `store.go`, `frontmatter.go`, `security.go`, `recall.go`: candidates, topic files, the rebuilt index, recall, by writers without a lock | `WrittenStaysIndexed` |
| `TranscriptLog` | `transcript_store.go`: a line per message, with short writes and failing syncs | `LoadHasAllAccepted` |

A message is its position in the transcript and costs one token, so that token limits
are lengths. The context is `from` (its first real message) and `head` (what the summary
in front of it tells of). `CommitSummary` and `CommitState` are the two writes of
`Commit`; `writing` is true between them, when the store's mutex is held. `Wait` is
bounded only under the fault "slow". `Crash` and `Resume` keep the files. `failed`
remembers that anything went wrong. `TranscriptLog` models what `SessionMemory` takes for
one step: a line of the file is whole, half, or without its newline.

### Permissions

| Module | Code | Property |
|---|---|---|
| `PermissionEngine` | `permission_engine.go`, the merge of hook verdicts in `middleware.go`: pure operators | `StricterNeverMilder` |
| `PermissionGate` | `middleware.go` (`authorize`), `permission_coordinator.go`, `permission_broker.go`, `hooks.go`, `serveApprovals` of the command | see the runs |
| `FirstAnswer` | abstract: ask, accept one answer, return it, fail only when cancelled | |
| `PermissionGateProofs` | theorems | |
| `SaaSChanges` | `saas_agent.go`, `saas_executor.go`, `saas_permissions.go`, `saas_tools.go`: five tools over a tenant store behind `PermissionEngine`, several calls waiting for a person at a time | `ChangesAreApproved` |

`pending` is the broker's map, `response` and `brokerResult` the channels of capacity
one, `requests` the bounded queue. `PermissionBroker.Resolve` is two steps, because it
deletes the request under the mutex and sends after the unlock: `HookClaims` then
`HookSends`, `TerminalClaims` then `TerminalSends`. A `select` is a disjunction: `Take`
and `Abandon` are both possible before and after the request is published, and
`ReturnError` does not wait for a response that is already there. In the refinement an
answer counts as accepted from the claim on, wherever it is (`Carries`).

### Memories

| Module | Code | Property: what could really be wrong |
|---|---|---|
| `HierarchicalMemory` | `memory/hierarchical`: `memory.go`, `sqlite_store.go` | `NoEntryLost`: however stale hits, late removals, evictions and failed calls interleave, what was added is in a tier |
| `LayeredMemory` | `memory/hierarchical_v1`: `WriteEntry`, proposals, promotion, restart | `DurableIsPersisted`: map and table agree but for two writers of one key |
| `LayeredContext` | the same: `AssembleContext` | `AssembledByCertainty`: nothing certain gives way to a guess, no room is left for what fits, nothing is shown twice |
| `FailureJournal` | `memory/failure_tracking`: journals on one database | `RecallFollowsReview`: only what the last review approved is recalled |
| `FailureRecall` | the same: validation, ranking of `search_score.go` | `TriggersComeFirst`: keys before similarity, nothing recalled without review and evidence |
| `ProgressLedger` | `memory/progress_tracking`: tracker, plan tools, `v2_agent.go`, `v2_store.go` | `DeltaIsRecorded`: what a query changed has its value and its event, also when the ledger was emptied on the way |
| `ToolOrchestrator` | the same: `v2_orchestrator.go` | `ValuesAreExplained`: a value has the event of its call, or the call is known to have failed half-way |
| `RagRelease` | `memory/rag`: `pipeline.py`, `release.py`, `alias.py`, `manifest.py`, `app_query.py` | `VectorsMatchTheDocstore` unless a process ended between the two files; `ServedOnlyOncePassed` |
| `Mem0Memory` | `memory/mem0`: `Add` | `OneRowPerFact` but for calls in flight together |
| `Mem0Search` | the same: `Search`, filters, scores | `BestMatchesFound`: the best of the scope, and nobody else's |

### Perception

| Module | Code | Property |
|---|---|---|
| `ContextCompaction` | `perception/claude_compaction` | `ResumeFindsEverything`: after boundaries, summaries and restarts all messages and skills are seen or told; `RecentTailStays` is a finding |
| `SupportCompaction` | `perception/compaction` | `ErrorsStayVisible` through all three levels |
| `ContextTriage` | `perception/triage` | `DroppedForTheUrgent`, `HandlesStayWithTheTenant` |
| `MultimodalFusion` | `perception/multimodal-fusion` | `NothingSilentlyDropped`: what is kept as an image, of whatever kind, stays a picture or a note; a table rendered as one says what it leaves out; a block of another kind than its file is a picture that was asked for |

### Reasoning and reflection

| Module | Code | Property |
|---|---|---|
| `ThoughtTree` | `reasoning/tot` | `SearchKeepsScore`: nothing is cut in favour of something worse; visits and means are those of the answers below |
| `HypothesisLoop` | `reasoning/hypothesis` | `VerdictsStand`; `ConvergedIsUnrefuted` is a finding |
| `AdaptiveReasoning` | `reasoning/compose`, `reasoning/cot` | `NothingOnTrust`: no answer to a hard question that nobody verified |
| `ClaimTrace` | `reasoning/cot_v2`, `cmd/cot-v2-agent` | `DecisionIsGrounded` |
| `ThinkingTrajectory` | `reasoning/claude_native_thinking` | `ResumesTheLastTurn` |
| `JsonReply` | the scan for a JSON object in `compose`, `cot`, `cot_v2`, `hypothesis`, `critique`, and the shorter form of `perception/compaction` | `ExtractedIsTheObject` whatever its strings hold |
| `SelfHeal` | `reflection/selfheal`, `cmd/self-heal-agent` | `OutcomeTellsThePolicy` |
| `SkillRegistry` | `reflection/skillmode`, `cmd/skill-mode-agent` | `OutcomeGoesToTheServed`, `RefusedForCause` |
| `ExperienceReplay` | `reflection/replay` | `LessonsAreEarned` |
| `CritiqueLoop` | `reflection/critique` | `OutputIsReviewed`: the score reported is that of the plan handed out |

### Actions and metrics

| Module | Code | Property |
|---|---|---|
| `SalesTurnLoop` | `cmd/turnloop-agent` | `AnswerIsComplete`, `EveryMessageAnswered` |
| `GuardrailSandwich` | `action/guardrail` | `ExecutedIsAllowed` |
| `MetricScores` | `evaluation/metrics/action/*`, `observability/metrics/action/*`, guardrail and tool | `ScoresAgree`, `SharesAgree`: offline and online tell one story, a gate does not pass on nothing |

`DesignProofs` and `MemoryProofs` have the proofs about these modules; `MCDesigns` extends them.

In all of these a model call is a choice among everything its parser lets through; texts,
embeddings, similarities and times are small sets; an observer variable is marked as one where it
is declared.

## 3. Runs

| Run | Instance and bound | Shows |
|---|---|---|
| `store_refines` | 2 goroutines, 3 ids, 8 requests, no faults, fair | the store implements `TaskGraph`; every call returns |
| `store_faults` | 2 goroutines (symmetric), 3 ids, all edits, write errors and crashes anywhere | ids stay retired, the graph is valid at rest, a list is reported corrupt only after an interrupted batch, an open plan has a ready task |
| `store_write_error` | 1 goroutine, 2 ids | finding 1 |
| `swarm_faults` | 1 run, all faults | pipeline order, success only with the writer at rest, truthful notifications, nobody left behind |
| `swarm_ends` | 1 run, workers may die, a deadline that only then passes, fair | `RunLeader` returns; a run without deaths ends in success |
| `swarm_restart` | 2 runs on one file after a crash of the leader | no task done twice by two processes with one agent id |
| `session_faults` | 10 messages, all faults | boundary behind summary, recent turns kept, extracted at most once, and without failures nothing forgotten and every answer extracted |
| `session_forgets` | 10 messages, no faults, default number of tool calls | finding 2 |
| `permission_gate` | 2 calls, 2 hooks, queue of 1, with and without a terminal, cancellation at any time, fair | the gate implements `FirstAnswer`, one answer, every call returns, the policy is monotone |
| `context_snip` | HistorySnip on, no summary | finding 3 |
| `hypothesis_refuted` | 2 hypotheses, 2 pieces of evidence, 2 rounds | finding 4 |
| `designs` | each of the other modules, one at a time | the properties of the tables above |

`designs` is a sum: `MCDesigns` has the variables of all its modules, `Init` chooses the one
that runs (`design`) and the others stay as they start, so that the states add up and do not
multiply. Its properties group those of the modules by what they say, each guarded
by its design:

| Property | of | Proved |
|---|---|---|
| `AnswerIsComplete` | `SalesTurnLoop` | with one caller |
| `EveryMessageAnswered` | `SalesTurnLoop` | liveness |
| `OutcomeTellsThePolicy` | `SelfHeal` | yes |
| `VerdictIsAcyclic` | `TaskDependencyDFS` | yes |
| `StoresKeepUp` | `RagRelease`, `Mem0Memory`, `LayeredMemory`, `TopicStore`, `ToolOrchestrator`, `ProgressLedger` | yes |
| `OnlyReviewedIsUsed` | `FailureJournal`, `RagRelease`, `SkillRegistry` | yes |
| `AnswersAreGrounded` | `ClaimTrace`, `AdaptiveReasoning`, `CritiqueLoop`, `GuardrailSandwich`, `SaaSChanges` | yes |
| `NothingIsForgotten` | `HierarchicalMemory`, `SupportCompaction`, `ContextCompaction`, `ThinkingTrajectory`, `MultimodalFusion`, `TranscriptLog` | yes |
| `LoopsKeepScore` | `HypothesisLoop`, `ExperienceReplay`, `SkillRegistry`, `MetricScores`, `ThoughtTree` | yes |
| `ResultsAddUp` | `JsonReply` | yes |
| `UrgentFirst` | `ContextTriage`, `LayeredContext`, `FailureRecall`, `Mem0Search` | yes |

For every part of a group `PROJECT.json` has a mutant of that module which breaks it.

Deadlock is not checked in runs whose system may stop: a conversation at its bound, a
swarm after its last run, calls that have all returned, a loop that has ended. The task list
never stops and is checked for deadlock.

### Bounds

- `MaxTaskID` is the end of the id space (the code tests for the largest int). Three ids
  give a cycle through three tasks, a batch of several files with a failure in each
  place, an id that is created, deleted and asked for again, and the exhausted space.
  The depth-first search is checked on every graph of four tasks and every order of roots: a
  cycle behind a finished branch needs four.
- Two goroutines give every interleaving of two operations at every file write. The
  mutex admits one at a time, so that a third adds waiting only; the theorems hold for
  any number.
- `MaxRuns`: one run for its faults, two for what a run leaves to the next. In the
  restart run `TwoOrphans` limits the old processes still alive to two and
  `SecondRunStarts` stops at the second teammate: both agents that can share a mailbox
  have then met their predecessors.
- `MaxMessages` = 10 of the session holds five turns: an initial summary, a compaction, an
  update and a second compaction, with crash and resume at every point. The thresholds keep the
  order of the default configuration (update < init < compact).
- A queue of one request and two calls make the queue full; two hooks and a terminal are
  the three parties that can race. Policy inputs are all calls with at most two
  hooks and two matching rules; `StricterNeverMilder` adds a third.
- `MCDesigns.cfg` names the bounds of the other modules. They are as small as the case
  allows: two writers, journals, callers or collections for a race, one more item than
  fits for every budget, beam and limit (`BeamSize` 2 of up to `MaxOptions` 2 children each,
  `SupportingMax` 1, `DefaultTopK` 1), one more round than the first for every loop, a window
  and `MinimumSamples` of 1 for a skill's health so that one outcome decides and one event can
  age out of it, and `MaxLines` 4 for a broken line before the last. Mem0's model extracts at
  most two facts per call.
- `Pushers` = 1 in `SalesTurnLoop`: the command pushes all messages from one goroutine. With two, a later number may be pushed first, and both properties fail; the code
  makes no promise for that.

### Fairness

- `TaskStore`: weak fairness of each goroutine's steps, strong fairness of `Lock`. Go runs
  every runnable goroutine, and its mutex hands over to a waiter after one millisecond
  (starvation mode), so that a waiting goroutine is not overtaken for ever.
- `ResearchSwarm`: weak fairness of the leader, of each worker, of the deadline and of the
  shutdown limit: processes run and time passes. Nothing is assumed of a fault: a worker
  may die or not. `EveryRunReturns` rests on the leader's deadline.
- `PermissionGate`: weak fairness of each goroutine, of each hook (hooks are bounded by
  the context) and of the terminal, that is, a human answers the question shown. In a
  headless host nobody serves the queue and the hooks decide. Cancellation is never assumed.
- `SalesTurnLoop`: weak fairness of the push, of the loop's turn (a model call ends) and of
  whoever reads the answers. A failure or a stop is never assumed and excuses an answer.
- `SessionMemory` has no liveness property: that the newest snapshot is not lost is stated
  as an invariant of the states in which the extraction has come to rest. The other modules
  are calls that return; what matters is what they return, and it is stated as an invariant.

### Findings

1. `store_write_error` (code bug). A write error in the middle of an `Update` leaves the
   first files replaced. The two sides of the dependency then disagree, and every
   later load of the list is refused. The design says a failed write keeps the files.
   `store_faults` shows that nothing else can cause it: `GraphValidAtRest` and
   `CorruptOnlyIfInterrupted` hold unless a batch was cut short.
2. `session_forgets` (divergence). If the summary does not move between two compactions,
   the second one does not find its boundary in the context and keeps only the recent
   messages: those between are neither in the context nor in the summary. With
   a threshold of two tool calls (`session_faults`; the default is three) the summary keeps up
   and the property holds.
3. `context_snip` (code bug). A snip without a summary appends its boundary behind the
   messages it kept; the view of the next query starts at the boundary, so that the kept
   messages are gone (`pipeline.go:220`), where the README says they are kept.
4. `hypothesis_refuted` (code bug). In one round, the evidence left is still judged after a
   piece has refuted a hypothesis, and a later supporting piece makes it confirmed; the loop
   converges on it (`loop.go:101`), where the README says the survivor was never refuted.

### Behaviour the models show and no run states

These follow from the definitions and are written into the properties as the exceptions they
make; a reader of the code should know them.

- Permissions: the ask of an explicit rule is returned before `applyDontAsk`, so in mode
  dontAsk that call waits for an answer. The SaaS executor compares ids as they come, while the
  checks before it trim and fold case.
- Swarm: `buildFinalReport` takes the first section of its name, so that on a file an earlier
  run of the team has used, the earlier report is returned (the command's path is unique
  per run). `RunWorker` has an idle limit which the command never sets (`worker.go:81`).
- Transcript: a short write leaves half a line although a comment says it cannot
  (`transcript_store.go:70`), and every later load fails; behind a line without its newline the
  next message is glued on; a line over four megabytes is accepted and cannot be read again.
- Progress: `ensureInitialized` (`v2_agent.go:78`) takes any error of a read for a new task
  and empties ledger and values. Two `create_plan` calls in parallel replace one another.
- Failures: an entry is grounded if one of several triggers of a kind has evidence.
- Mem0: a weak keyword match lowers the score of a memory.
- Layered memory: a policy that is overridden in part sets its flags `AllowAgentWrite` and
  `RequireEvidence` to false; nanosecond times as texts do not sort within a second; the TTL of
  a layer is reported and not enforced.
- Tree of thoughts: unrated siblings count as zero; `isBetterSibling` divides the mean of a
  node by its visits once more.
- JSON replies: a brace in the prose before the object makes the reply an error, and a reply
  that is valid JSON but no object is returned as it is.
- Metrics: `result_used` has one name and two denominators: tasks with a result offline,
  successful calls online.
- Fusion: `keep_as_image` is copied for a file of any kind (`parser.go:84`) and looked at before
  the kind (`fuser.go:85`). A CSV, a log or a text that has it becomes an `image_ref` of its
  path: its rows or its text are not rendered, nothing counts them, and since the file is no image
  the tool result has a note that it was skipped; with `image_processing` set to ocr the text is
  what OCR makes of it. So what the property says of rows is about tables that nobody asked to keep
  as an image. The flag of a local PDF is dropped (`expandPDF`). A table without a header is
  rendered as "[empty table]" whatever rows it has (`fuser.go:374`), and one without a total is cut
  without a mark; neither comes from `parseCSVLike`, both may come from a PDF extractor.
- RAG: changed documents go into the collection the alias may serve already, and what is served
  has passed the golden questions at some time, not necessarily as it is.
- Support: the prompt shows of a turn its first 1200 characters (`compactor.go:307`, `527`), of an
  error in the list 220 (`compactor.go:408`); `shown` and `listed` say that the turn is there.
- Compaction: messages that arrive while a summary is written are hidden by the boundary
  that is appended behind them (`overtaken`). Session notes whose last message is not in the view
  make it keep nothing of the view; the module passes notes of the view only.

## 4. Proofs

Seven modules hold theorems: `TaskStoreProofs`, `PermissionGateProofs`, `SessionMemory`,
`ResearchSwarmProofs`, `DesignProofs`, `MemoryProofs` and `MCDesigns`. They hold for every value of the
constants that satisfies the assumptions named in the modules, all of which TLC evaluates:

| Assumption | Says |
|---|---|
| `MaxTaskIDAssumption`, `DesignsAssumption` | there is room for one task |
| `StoreAssumption` | requests are requests; faults are write errors and crashes |
| `GateAssumption`, `NoRequestAssumption` | the queue holds one request at least, a host is a terminal or headless; no call is the mark for "none" |
| `SwarmAssumption` | there is a run; faults are those of the module |
| `SessionAssumption` | thresholds and limits are positive, in any order |
| `ReasoningAssumption`, `HealthAssumption`, `ReplayAssumption` | a confidence, the samples of a skill, the lessons shown and the traces of a batch are compared with numbers |
| `RagAssumption`, `TopicAssumption`, `OrchestratorAssumption` | the manifest names a collection; a topic has a file name or none; what a tool call refers to and binds are keys |
| `TreeAssumption`, `SharesAssumption` | a beam holds one thought, there is one simulation (the agent sets both when they are not positive); a full reward can be shared by up to `NSim` answers, so that the mean of rewards 0 and 1 is not rounded |
| `MetricsAssumption`, `PlanAssumption` | the calls of a labelled task are finitely many and have one of four statuses; a bound of the model is a number |
| `SearchAssumption`, `RecallAssumption` | similarities, limits and bounds are numbers, default limits positive, the keys of a recall finitely many |
| `TriageAssumption`, `LayerAssumption` | budgets and token estimates are not negative; every layer has a default budget, entries are of those layers and keys are finitely many |
| `ReplyAssumption` | what a model writes as an object is one (braces outside its strings pair off at its end and not before, quotes and escapes as JSON has them), no code fence stands inside the prose or the object, and a reply of several lines has a closed fence or none: without its last line the shorter form would lose an object in an open one |
| `CompactionAssumption` | the length of the tail that is kept and the budget of the skills are numbers; the skills are finitely many |
| `FailuresAssumption`, `WritesAssumption` | finitely many journals share a store; every key of `LayeredMemory` is written to one of the layers |
| `MessagesAssumption`, `HealAssumption`, `GuardAssumption`, `CritiqueAssumption`, `EvidenceAssumption`, `TiersAssumption`, `Mem0Assumption`, `FusionAssumption`, `TrajectoryAssumption` | sizes, budgets and the models' bounds are numbers; there is a heal iteration, a tool round, a review |

Four theorems have a hypothesis of their own, because without it the statement is false:
`NoMessageIsPassedOver` assumes one caller (`Pushers` = 1), `DoneIsEarned` that no second run uses
the file (`MaxRuns` = 1; `FirstRunEndsWithTheReport` is what holds for any number),
`StoreImplementsGraph` no faults (`UntornStoreIsAGraph` is what holds with them), and
`NothingForgottenWhileUpdatesKeepUp` that the summary moves between two compactions
(`UpdatesKeepUp`; finding 2 is what happens without it).

### `TaskStoreProofs`

With write errors and crashes, for any goroutines, requests and id space:
`TypeCorrect`, `IDsNeverReused`, `GraphStaysValid`, `CorruptionNeedsInterruption`,
`PlanCanGoOn`, and the refinement `UntornStoreIsAGraph`, `StoreImplementsGraph`.

None of the properties is inductive. `GraphValidAtRest` speaks of moments of rest, while
files change one at a time; an id is safe because the watermark was moved first. The
invariant `IInv` adds

- `MutexInv`: who is between `Lock` and return, and that it is one at most;
- `CallInv`: where a call can be, given what it asked, and that the watermark exists once a
  Store does;
- `IDInv`: the watermark bounds all ids, alive and retired, and the id a `Create` has
  claimed is new;
- `BatchInv`: while a batch is written, the files already written and those still to
  write together make the goal, and the goal is a valid graph. A write moves one
  task from one side to the other;
- `GraphInv`: outside of batches, unless one was cut short, the files are valid.

The lemmas on the graph come first: creating a task, deleting one with all its mentions,
and the type of the edits. `Update` needs none for validity, since the code validates the
edited clone before it writes. `PlanCanGoOn` follows from acyclicity: the set of open
tasks has a member that nothing in the set blocks (`ValidHasReadyTask`).

The refinement needs one fact more, `EditInv`: an update still being written passed its checks on
the snapshot it edits. Then every step stutters but three: the file of a `Create`, the last
file of an `Update` and the removal that ends a delete. A write error or a crash that cuts no
batch short stutters too, or costs a `Create` its id (`Burn`); so with faults the store still
takes only steps of `TaskGraph` until the first batch is torn.

### `PermissionGateProofs`

For any calls, hooks, queue size and policy inputs: `GateInvariant`, `TypeCorrect`,
`OneAnswerWins`, `EndedStaysUnresolvable`, `HookSettlesTheCall`, `FirstAnswerWins`,
`ObjectionsNeverSoften`, `PolicyNeverMilder`.

`OneAnswer` follows the right to answer: it is in `pending`, then with one holder, then in
a channel. To be inductive it needs that `Register` does not make a call pending that has
been answered: before it no hook runs (`Early`) and nothing is queued, shown or sent
(`NotAsked`), and a running goroutine has no result (`Running`). `ErrorIsCancelled` is
for the refinement: the goroutine's error means that its context is done, so a call
that returns an error was cancelled. `FirstAnswerWins` maps each step to a step of
`FirstAnswer` or to a stutter: a claim is `Accept`, the answer's way through the channels
leaves it in place (`AcceptedSame`), and `ReturnResponse` is `Return`.

`HookSettlesTheCall` needs `NotStarted`: a call cancelled before its request is registered has
returned while its goroutine goes on, so that where the call is does not tell whether hooks run.

`ObjectionsNeverSoften` is about the policy: with one more hook verdict or one more
matching rule than before, of any kind, the result is at least as strict unless the added part is
itself permissive. The verdict of the hooks is a fold and the strongest of the matching rules a choice;
both are shown to be the strongest of their inputs (`IsStrongest`, by induction over the merge,
`MergedUpTo`), and then the early returns of `Evaluate` are compared one by one.

### `SessionMemory`

For any configuration, bound and set of faults: `TypeCorrect`, `BoundaryIsTold`,
`RecentTurnsSurvive`, `ExtractionIsOnce`, `NoAnswerIsMissed`; and, if each answer may move the
summary (an answer of one tool call is enough, `ToolCallsBetweenUpdates` = 1, or answers have
none) and the context is compacted at least two tokens later than the summary is updated,
`NothingForgottenWhileUpdatesKeepUp`. The invariant says who may
be where (`TurnInv`), that between the two writes of `Commit` the summary is already that of the
snapshot (`CommitInv`), that compaction never empties the context (`ContextInv`), that the snapshots
of the extraction come in order: cursor, current, pending (`QueueInv`), that nothing
behind the cursor has been extracted (`CursorInv`), and that without failures the newest snapshot
covers the last answer (`NewestInv`).

What is cut from the context is told by its head if the boundary is in the context when it is cut.
`SummaryInv` says that, as long as nothing fails, the summary's goroutine comes to rest only when
the last answer is not due (`SummaryQueueInv`), and that the head is no newer than the boundary
(`HeadInv`). A context that is too long although it was cut at the boundary would hold enough for
an update: the last answer would be due (`LongContextIsDue`), while `MaybeCompact` waits for the
goroutine to rest. With the thresholds of the default (three tool calls) the argument breaks at
that point, and so does the code.

### `ResearchSwarmProofs`

For any number of runs on one file, any faults, processes that outlive their leader:
`TypeCorrect`, `TasksRunOnce`, `NobodyIsLeftBehind`, `NotificationsAreTrue`, `DoneIsEarned`,
`FirstRunEndsWithTheReport` and the refinement `SwarmImplementsPipeline`.

The argument follows a task: its message waits in one mailbox (`Waiting`), one process takes it
and works on it (`held`), then it is past (`Past`), and nobody touches it again. Hence what a
message says of a past task stays true (`NewsInv`), and the leader, who ends a run on a notification,
ends it on a finished task (`VerdictInv`). `LeaderInv` and `OverInv` say where the leader
and the processes of a run are, `MailInv` and `HeldInv` that a task is in one place, `ArtifactInv`
and `PipelineInv` that artifacts are saved once and in order, `OneTaskEach` that a run gives each
agent one task. Taking the most urgent message is proved of the sequence operators
(`Without` and the choice by priority).

`DoneAfterTheWriter` speaks of the writer of the same run. With two runs on a file it is not
inductive for a reason: an idle notification of an orphan can end the later run. The proof
therefore assumes one run where the run of TLC has one, and says for any number what
is true of the first.

### `DesignProofs`, `MemoryProofs` and `MCDesigns`

The modules of the run `designs` share nothing, so each has an argument of its own:
`XStarts`, `XSteps` and `XShows`, in `DesignProofs` or, for the stores of `memory/`, what selects
or compacts a context, and two of the reasoners, in `MemoryProofs`. A
component's variables and its instance stand just before its lemmas, and the modules that bring
many operators with them come last, since what precedes an obligation is its context. `MCDesigns` extends both,
shows that a step of the whole is a step of the system that runs (`OneRuns`), and concludes.

| Theorem | Argument |
|---|---|
| `TypeCorrect` | of each system the types its argument above did not need yet (`XTypes`), ten systems at a time (`FirstTypes`, `SecondTypes`, `ThirdTypes`). Most of it is where a call or a loop can be; not of one action are: hierarchical, the working tier is within its budget, since whatever adds an entry to it evicts what is too much in the same step; failures, the recalls counted for an entry, together with those its calls still have to count, are no more than were started; mem0, a row that waits for its history is one of the table, and is of a call that began; tree, the value of a node is a mean of rewards and no more than a full one; orchestrator, there is an event for each call that is done; turn loop, a message in any queue has been numbered, for any number of callers; compaction, a summary tells only of messages that were appended, and each skill is listed once; replies, what is returned is one of the objects: a number on its own passes for JSON, but no number begins with a brace |
| `HealTellsTheTruth` | the commits of an attempt chain from the policy before it, so that undoing all of them restores it; a rollback that fails half-way leaves an outcome that says so |
| `NoMessageIsPassedOver` | with one caller the newest message is last in the queue; what is discarded is in the batch of the next turn |
| `WalkDecidesAcyclic` | the stack is a path and the tasks coloured visiting; what is visited is closed under references and acyclic; an edge back to the stack closes a cycle |
| `StoresStayTrue` | rag: documents and vectors of a collection agree unless a process ended between the files; mem0: a row's fact was known, stored by a call in flight with another, or just inserted; layered: a key only one call writes has its row before its entry; topics: an `Upsert` alone in its scope lists all that was written there; orchestrator: what an event has read and what is left to read make the references of its call, and likewise for outputs and bindings; progress: a query that has changed an item without its event still has to write the event, or the ledger was emptied since |
| `ReviewComesFirst` | the status column of a failure is written with the verdict; the alias moves only to what the gate passed; a run holds the version that was resolved for it, or none |
| `NothingGetsLost` | hierarchical: promotion and eviction keep the entries of working and session together, and a call removes only what it found or wrote in the table; compaction (without a snip, finding 3): the view begins at the last boundary, its messages are the ones behind what the summaries and folds before them cover, and an invoked skill is in it, or was put back, or found no room; support: a view is as old as the turns were many, and each level keeps the old errors in sight or lists them; thinking: what is kept ends in a message of the turn recorded; fusion: a block is what `fuseOne` makes of its input (its first branch takes what is kept, whatever its kind), and a total that is reported for a table is the number of its rows; transcript: a write adds its message at the end, or leaves what cannot be loaded |
| `LoopsLearnFromWhatWasDone` | hypothesis: what is still to be visited has not been judged, and what has been judged is not active; replay: what failed stays failed and the last lesson is as old as the last extraction, and being better is a strict order, so that the best are a prefix; skills: a run that is refused has seen a part of the log that only grows; metrics: each decision or call adds to both sides of every equation what it adds to one, since the sets counted for it are parts of one another; tree: the leaves of a round stand at one depth and are compared there once, so that what is kept is no worse than what is cut, and only the end of a simulation, which has no children of its own, gets an answer, which adds one to the visits and its reward to the sum of every node above |
| `UrgentComesFirst` | triage: the items still to be placed are in order and no more urgent than any selected, so that a dropped one has only its betters before it; layered: after the first n keys of the order, each is taken or does not fit beside those of its layer before it, which are at least as certain; recall and search: the first of a ranking are the best of their set, and the best is what the set has if the limit leaves room |
| `RepliesAreRead` | what is an object is said without a scan (`IsObject`), and the scan is shown to count what that says (`ScanCounts`); so from the first brace of a reply it closes at the object's end and not before, and not at all in one that is cut off (`ScanFindsTheEnd`); trimming and taking a fence off cut away no brace (`HeldWithin`), and from the first brace to the last one is an object only if it is the one replied (`PartIsTheObject`) |
| `AnswersStayGrounded` | a trace's steps have passed with a valid shape; an answer's confidence is at most that of its weakest step; a plan has the critique of its version; a call that runs has been through the policy; a change that waits or is allowed was not refused by its own check |

Three small theories come first in `DesignProofs`, because four components sort, add up or cut: a
strict order that is total on a finite set gives each member one place (`PlacesFollowTheOrder`,
`EveryPlaceIsTaken`) and its members in order (`OrderedHasAll`), so that what is cut behind the
first places is no better (`FirstPlaces`); a function on 0..n given by a first value and a step
exists and is unique (`StepByStep`); and the sum of a sequence grows by what is appended
(`TotalOfMore`). The models define their sorts and sums in that form: a rank is the number of those
ahead, which is what a stable sort by a total order computes.

Induction over data is done where it is needed by taking a least counterexample
(`WFMin` of the library on `<`): the largest of a set of positions, the merge of the
hook verdicts, the depth of the walk. The library's induction theorems themselves take an operator as
a parameter, which the provers cannot instantiate.

### What stays with TLC

- Liveness under fairness (`EveryCallReturns` of store and gate, `EveryRunReturns`,
  `HealthyRunSucceeds`, `EveryMessageAnswered`) and anything about ENABLED: out of the proof
  system's reach.
- `NothingForgotten` where `UpdatesKeepUp` does not hold and the run `session` passes all the same
  (answers with one tool call, an update after two): it holds by how the lengths of the turns fall.

No module has a RECURSIVE operator.

## 5. Not modelled

- `action/tool_dispatcher`: a configuration of an agent and pure example tools; the dynamic
  search it switches on is in the library.
- `observability/cozeloop`: wiring of a tracing client. The mains under `cmd`: flags,
  environment and output. `docs`.
- In the modelled packages: subjects, owners and metadata of tasks; a director that is a
  language model, and the search client; the turn without a session, the result lists of
  `Drain` and `Wait`; rewritten arguments, hooks after a tool and hiding denied tools; parsing,
  embedding and ranking of the retriever; extraction of text from files; the data set of
  `reasoning/tot`; latencies other than their rank; health reports; and texts everywhere
  (prompts, rendering, titles).
- A shutdown message of a run whose worker was killed before reading it can stop the
  worker of the next run on that file (`leader.go:285`). It takes two runs and a killed worker,
  which no run of a few minutes covers; the hazard is listed without a property. So is the
  re-ingestion into a collection that is served (`alias.py:121`), which the code means to allow.
- Files of other processes than the ones named: the models take the directories and
  databases to be used by this code only.

## 6. Plan

Done: all packages with state of their own; the theorems of section 4, which state every safety
property of the runs but `NothingForgotten` of `session` in its full form. What is left is what the
code would bring with it: a component for the tool dispatcher once it has state of its own, and the
restart with a killed worker (section 5) once a run can hold it.

The project is kept to a dozen runs that can be run as a whole; a new component
joins `designs`.

## 7. How to run

In this directory: `tlc -config MCTaskStore.cfg TaskStore` and likewise for the other
configurations (`PROJECT.json` names the module of each), and `tlapm` of the seven modules of
section 4. The longest run, `designs`, takes a little over three minutes; the longest proofs,
`DesignProofs` and `MemoryProofs`, several each.
