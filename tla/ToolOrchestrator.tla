-------------------------- MODULE ToolOrchestrator --------------------------
(***************************************************************************)
(* memory/progress_tracking/v2_orchestrator.go: calls of tools whose       *)
(* arguments refer to mechanical values (STATE.key) and whose results are  *)
(* bound to mechanical values again, with an event of what was read and    *)
(* written.  Each access to the tracker takes its lock, the call as a      *)
(* whole does not, and every step of it may fail.                          *)
(***************************************************************************)
EXTENDS FiniteSets, Integers, Sequences

CONSTANTS
  StateKeys,   \* mechanical keys
  ToolCalls,   \* the calls an agent makes, each once
  RefsOf,      \* per call: the keys its arguments refer to
  OutputsOf,   \* per call: its output bindings, a sequence of keys
  GivenBy      \* per call: the fields of its result, by the key they are bound to

VARIABLES
  mechanical,  \* long_horizon_mechanical_values: key -> the call that wrote it, or ""
  toolEvents,  \* long_horizon_events of the calls: [call, read, write]
  runs         \* per call: [at, refs not yet resolved, read, tool, outputs not yet written, write]

orchestratorVars == <<mechanical, toolEvents, runs>>

NotCalled == [at |-> "idle", refs |-> {}, read |-> {}, tool |-> "", outputs |-> <<>>, write |-> {}]
Init ==
  /\ mechanical \in {[k \in StateKeys |-> IF k \in given THEN "setup" ELSE ""] : given \in SUBSET StateKeys}
  /\ toolEvents = <<>> /\ runs = [c \in ToolCalls |-> NotCalled]

Execute(c) ==
  /\ runs[c].at = "idle"
  /\ runs' = [runs EXCEPT ![c].at = "resolve", ![c].refs = RefsOf[c]]
  /\ UNCHANGED <<mechanical, toolEvents>>

\* resolveArgValue: one reference, in the order of a Go map; a key that is not there fails the call.
ResolveArg(c) ==
  /\ runs[c].at = "resolve"
  /\ \E k \in runs[c].refs :
       runs' = IF mechanical[k] = "" THEN [runs EXCEPT ![c].at = "failed"]
                ELSE [runs EXCEPT ![c].refs = @ \ {k}, ![c].read = @ \cup {k}]
  /\ UNCHANGED <<mechanical, toolEvents>>

Ignored == "outputs"    \* mutant: the error of the tool does not end the call
AfterError == "failed"

\* The tool runs on resolved arguments only.
ExecuteStatefulTool(c) ==
  /\ runs[c].at = "resolve" /\ runs[c].refs = {}
  /\ \E answer \in {"ok", "error"} :
       runs' = [runs EXCEPT ![c].tool = answer, ![c].outputs = OutputsOf[c],
                   ![c].at = IF answer = "ok" THEN "outputs" ELSE AfterError]
  /\ UNCHANGED <<mechanical, toolEvents>>

\* writeOutputBindings: one binding; a field the result does not have fails the call, and what
\* it has written stays.
WriteMechanicalValue(c) ==
  /\ runs[c].at = "outputs" /\ runs[c].outputs # <<>>
  /\ LET k == Head(runs[c].outputs) IN
       IF k \in GivenBy[c]
       THEN /\ mechanical' = [mechanical EXCEPT ![k] = c]
            /\ runs' = [runs EXCEPT ![c].outputs = Tail(@), ![c].write = @ \cup {k}]
       ELSE runs' = [runs EXCEPT ![c].at = "partial"] /\ UNCHANGED mechanical
  /\ UNCHANGED toolEvents

AppendToolEvent(c) ==
  /\ runs[c].at = "outputs" /\ runs[c].outputs = <<>>
  /\ toolEvents' = Append(toolEvents, [call |-> c, read |-> runs[c].read, write |-> runs[c].write])
  /\ runs' = [runs EXCEPT ![c].at = "done"]
  /\ UNCHANGED mechanical

\* A statement of the database fails, while values are read, written or the event is appended.
StoreFails(c) ==
  /\ runs[c].at \in {"resolve", "outputs"}
  /\ runs' = [runs EXCEPT ![c].at = IF @ = "resolve" THEN "failed" ELSE "partial"]
  /\ UNCHANGED <<mechanical, toolEvents>>

Next == \E c \in ToolCalls :
  \/ Execute(c) \/ ResolveArg(c) \/ ExecuteStatefulTool(c)
  \/ WriteMechanicalValue(c) \/ AppendToolEvent(c) \/ StoreFails(c)
Spec == Init /\ [][Next]_orchestratorVars

-----------------------------------------------------------------------------
TypeOK ==
  /\ mechanical \in [StateKeys -> ToolCalls \cup {"", "setup"}]
  /\ \A c \in ToolCalls : /\ runs[c].at \in {"idle", "resolve", "outputs", "failed", "partial", "done"}
                          /\ runs[c].read \subseteq RefsOf[c] /\ runs[c].write \subseteq GivenBy[c]
  /\ Len(toolEvents) = Cardinality({c \in ToolCalls : runs[c].at = "done"})

\* An event names all its call read and all its bindings, whose values are there; a value is of
\* a call that has its event, is still writing, or is known to have failed half way, never of a
\* call whose tool or arguments failed.
ValuesAreExplained ==
  /\ \A i \in DOMAIN toolEvents : LET e == toolEvents[i] IN
       /\ e.read = RefsOf[e.call]
       /\ e.write = {OutputsOf[e.call][j] : j \in DOMAIN OutputsOf[e.call]}
       /\ \A k \in e.read \cup e.write : mechanical[k] # ""
  /\ \A k \in StateKeys : mechanical[k] \in ToolCalls =>
       /\ k \in runs[mechanical[k]].write
       /\ runs[mechanical[k]].at \in {"outputs", "partial", "done"}
  /\ \A c \in ToolCalls : runs[c].write # {} => runs[c].tool = "ok" /\ runs[c].read = RefsOf[c]
=============================================================================
