--------------------------- MODULE ProgressLedger ---------------------------
(***************************************************************************)
(* memory/progress_tracking: the plan of a long task (tracker.go over      *)
(* sqlite_store.go) and the v2 layer around the agent that fills a ledger  *)
(* and a table of mechanical values from the difference between the plan   *)
(* before and after each query.  The agent's tool calls run in parallel;   *)
(* statements on the database may fail and the process may crash.          *)
(***************************************************************************)
EXTENDS Integers, Sequences

CONSTANTS Descriptions, Deviant,  \* what items say; those that touch a non-goal
          MaxItems, MaxToolCalls, MaxQueries, RecentLimit

VARIABLES
  rows, items,   \* the plan in SQLite and in the tracker: sequences of items
  creators,      \* progress_create_plan calls that have passed their check
  frozen,        \* long_horizon_tasks has the task: the goal is initialised
  values,        \* long_horizon_mechanical_values: index -> item, or Absent
  ledger,        \* long_horizon_events, oldest first
  query,         \* the Query in flight and the response of the last one
  toolCalls, queries

ledgerVars == <<rows, items, creators, frozen, values, ledger, query, toolCalls, queries>>

Item == [desc : Descriptions, status : {"pending", "in_progress", "completed", "failed"},
         result : BOOLEAN, error : BOOLEAN]
Plans(set, max) == UNION {[1..n -> set] : n \in 0..max}
Absent == [desc |-> "none"]
NewPlan(descs) == [k \in DOMAIN descs |->
  [desc |-> descs[k], status |-> "pending", result |-> FALSE, error |-> FALSE]]
NoQuery == [at |-> "idle", before |-> <<>>, todo |-> {}, gate |-> FALSE, drift |-> "ok"]

Init ==
  /\ rows = <<>> /\ items = <<>> /\ creators = 0
  /\ frozen = FALSE /\ values = [k \in 1..MaxItems |-> Absent] /\ ledger = <<>>
  /\ query = NoQuery /\ toolCalls = 0 /\ queries = 0

\* The task is there and can be read.
LoadSnapshot(readFails) == frozen /\ ~readFails

\* One transaction: the goal is frozen and the task's tables are empty.
SaveInitialState ==
  /\ frozen' = TRUE
  /\ values' = [k \in 1..MaxItems |-> Absent] /\ ledger' = <<>>

\* ensureInitialized takes every error of the read for a task that is new.
EnsureInitialized ==
  \E readFails \in BOOLEAN :
    IF LoadSnapshot(readFails) THEN UNCHANGED <<frozen, values, ledger>> ELSE SaveInitialState

\* Query takes the plan as it is before the agent runs; it ends there when the packet that
\* goes into the prompt cannot be read (enrichRequest).
BeginQuery ==
  /\ query.at = "idle" /\ queries < MaxQueries
  /\ queries' = queries + 1
  /\ EnsureInitialized
  /\ query' \in {NoQuery, [NoQuery EXCEPT !.at = "agent", !.before = items]}
  /\ UNCHANGED <<rows, items, creators, toolCalls>>

ToolCall ==
  /\ query.at = "agent" /\ toolCalls < MaxToolCalls
  /\ toolCalls' = toolCalls + 1
  /\ UNCHANGED <<frozen, values, ledger, query, queries>>

\* Toolset.CreatePlan looks at Items and then calls the tracker, which does not.
CheckCreatePlan ==
  /\ ToolCall
  /\ \E reset \in BOOLEAN : items = <<>> \/ reset
  /\ creators' = creators + 1
  /\ UNCHANGED <<rows, items>>

\* One transaction.
ReplacePlan(descs) == rows' = NewPlan(descs)

\* Then the memory; an error leaves both.
CreatePlan ==
  /\ query.at = "agent" /\ creators > 0
  /\ creators' = creators - 1
  /\ \/ \E descs \in Plans(Descriptions, MaxItems) \ {<<>>} :
          ReplacePlan(descs) /\ items' = rows'
     \/ UNCHANGED <<rows, items>>
  /\ UNCHANGED <<frozen, values, ledger, query, toolCalls, queries>>

UpdateItem(k, item) == k \in DOMAIN rows /\ rows' = [rows EXCEPT ![k] = item]

\* updateTask: the row first, and the memory only when the row is written.
UpdateTask(k, item) ==
  /\ UpdateItem(k, item)
  /\ items' = [items EXCEPT ![k] = item]

Started(item)   == [item EXCEPT !.status = "in_progress", !.error = FALSE]
Completed(item) == [item EXCEPT !.status = "completed", !.result = TRUE, !.error = FALSE]
Failed(item)    == [item EXCEPT !.status = "failed", !.error = TRUE]

Start == ToolCall /\ UNCHANGED creators /\ \E k \in DOMAIN items :
  items[k].status # "completed" /\ UpdateTask(k, Started(items[k]))
Complete == ToolCall /\ UNCHANGED creators /\ \E k \in DOMAIN items :
  UpdateTask(k, Completed(items[k]))
Fail == ToolCall /\ UNCHANGED creators /\ \E k \in DOMAIN items :
  UpdateTask(k, Failed(items[k]))

DiffOfKnown(before, after) ==                \* mutant: an item that is new is never a change
  {k \in DOMAIN before \cap DOMAIN after : before[k] # after[k]}

\* diffTaskItems: an item that is new and still pending is not a change.
Diff(before, after) ==
  {k \in DOMAIN after : IF k \in DOMAIN before THEN before[k] # after[k] ELSE after[k].status # "pending"}

\* recordProgressDelta: the entries that are to be written, that of a plan as number 0.
Entry(to, k, item) == [to |-> to, index |-> k, item |-> item]
Delta(before, after) ==
  {Entry(to, k, after[k]) : to \in {"values", "ledger"}, k \in Diff(before, after)}
    \cup IF before = <<>> THEN {Entry("ledger", 0, Absent)} ELSE {}

\* In the order of the items, and of an item the value first.
IsFirst(e, todo) == \A other \in todo :
  \/ e.index < other.index
  \/ e.index = other.index /\ (e.to = "values" \/ other.to = "ledger")

\* The agent answers once all its tool calls have returned.
AgentAnswers ==
  /\ query.at = "agent" /\ creators = 0
  /\ query' = IF items = <<>> \/ Delta(query.before, items) = {}
              THEN [query EXCEPT !.at = "idle"]
              ELSE [query EXCEPT !.at = "record", !.todo = Delta(query.before, items)]
  /\ UNCHANGED <<rows, items, creators, frozen, values, ledger, toolCalls, queries>>

\* base.Query fails: Query returns without looking at the plan again.
AgentFails ==
  /\ query.at = "agent" /\ creators = 0
  /\ query' = NoQuery
  /\ UNCHANGED <<rows, items, creators, frozen, values, ledger, toolCalls, queries>>

WriteEntry ==
  /\ query.at = "record"
  /\ \E e \in query.todo :
       /\ IsFirst(e, query.todo)
       /\ values' = IF e.to = "values" THEN [values EXCEPT ![e.index] = e.item] ELSE values
       /\ ledger' = IF e.to = "ledger"
                    THEN Append(ledger, [evidence |-> e.index, deviant |-> e.item.desc \in Deviant])
                    ELSE ledger
       /\ query' = [query EXCEPT !.todo = @ \ {e}]
  /\ UNCHANGED <<rows, items, creators, frozen, toolCalls, queries>>

WriteFails ==
  /\ query.at = "record"
  /\ query' = NoQuery
  /\ UNCHANGED <<rows, items, creators, frozen, values, ledger, toolCalls, queries>>

\* ResumePacket carries the last RecentLimit events.
Recent == SubSeq(ledger, IF Len(ledger) > RecentLimit THEN Len(ledger) - RecentLimit + 1 ELSE 1,
                 Len(ledger))

\* The milestone stays M1, whose acceptance is the evidence that a plan was made.
EvaluateVerificationGate == \E i \in DOMAIN Recent : Recent[i].evidence = 0
\* Every event the agent writes has evidence.
EvaluateDrift == IF \E i \in DOMAIN Recent : Recent[i].deviant THEN "pause" ELSE "ok"

EndQuery ==
  /\ query.at = "record" /\ query.todo = {}
  /\ query' = [query EXCEPT !.at = "answered",
                 !.gate = EvaluateVerificationGate, !.drift = EvaluateDrift]
  /\ UNCHANGED <<rows, items, creators, frozen, values, ledger, toolCalls, queries>>

Return ==
  /\ query.at = "answered" /\ query' = NoQuery
  /\ UNCHANGED <<rows, items, creators, frozen, values, ledger, toolCalls, queries>>

\* loadItems in the order of their index.
LoadItems == rows

\* NewProgressTracker reads the rows again.
Restart ==
  /\ query.at # "idle"
  /\ items' = LoadItems /\ creators' = 0 /\ query' = NoQuery
  /\ UNCHANGED <<rows, frozen, values, ledger, toolCalls, queries>>

Next ==
  \/ BeginQuery \/ CheckCreatePlan \/ CreatePlan \/ Start \/ Complete \/ Fail
  \/ AgentAnswers \/ AgentFails \/ WriteEntry \/ WriteFails \/ EndQuery \/ Return \/ Restart

Spec == Init /\ [][Next]_ledgerVars

-----------------------------------------------------------------------------
\* Types, and: the plan in the tracker is the plan in the table.
TypeOK ==
  /\ rows \in Plans(Item, MaxItems) /\ items = rows
  /\ creators \in 0..MaxToolCalls
  /\ values \in [1..MaxItems -> Item \cup {Absent}]
  /\ query.at \in {"idle", "agent", "record", "answered"}

\* When a query answers, the mechanical value of every item that differs from what it was
\* before the query, or is new and no longer pending, is the item as it is now, and its event
\* is in the ledger, even where the query has emptied the ledger of the task first.
DeltaIsRecorded ==
  query.at = "answered" =>
    \A k \in DOMAIN items :
      (IF k \in DOMAIN query.before THEN query.before[k] # items[k] ELSE items[k].status # "pending") =>
        /\ values[k] = items[k]
        /\ \E i \in DOMAIN ledger : ledger[i].evidence = k
=============================================================================
