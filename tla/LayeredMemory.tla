--------------------------- MODULE LayeredMemory ----------------------------
(***************************************************************************)
(* memory/hierarchical_v1: entries by key in a map, the ones outside the   *)
(* scratchpad also in SQLite.  WriteEntry checks the policy of the layer,  *)
(* upserts the row without the mutex and then takes it to set the map; a   *)
(* promotion reads the scratchpad entry first and writes it as a verified  *)
(* trace.  Calls run in parallel; a restart reads the table.  Values,      *)
(* confidence and access times are data (AssembleContext only orders).     *)
(***************************************************************************)
EXTENDS FiniteSets, Integers

CONSTANTS
  MemoryKeys,
  Route,            \* key -> layer, by its prefix (promotionLayerFromKey)
  LayerWriters, MaxWrites

VARIABLES
  entries,          \* the map: key -> entry
  layerRows,        \* hierarchical_v1_memories: key -> entry
  layerWriter,      \* per writer: the entry it is writing
  writes,
  crossed           \* keys two calls wrote at a time (an observer)

layeredVars == <<entries, layerRows, layerWriter, writes, crossed>>

Layers  == {"policy", "project", "user", "task", "scratchpad"}
Sources == {"human", "tool", "agent_inference", "verified_trace", "failure_review"}
NoEntry == [layer |-> "none"]
NoWrite == [at |-> "idle", key |-> "none", entry |-> NoEntry]
Writing(k) == {w \in LayerWriters : layerWriter[w].at \notin {"idle", "read"} /\ layerWriter[w].key = k}

Init ==
  /\ entries = [k \in MemoryKeys |-> NoEntry] /\ layerRows = entries
  /\ layerWriter = [w \in LayerWriters |-> NoWrite]
  /\ writes = 0 /\ crossed = {}

\* DefaultPolicies
AllowAgentWrite(layer) == layer \notin {"policy", "project"}
RequireEvidence(layer) == layer # "scratchpad"

IsVerified(e) == e.evidence \/ e.source # "agent_inference"
MayWrite(e) ==
  /\ AllowAgentWrite(e.layer) \/ e.source # "agent_inference"
  /\ RequireEvidence(e.layer) => IsVerified(e)
ShouldPersistVerified(e) ==                 \* mutant: tasks are not durable
  e.layer \in {"policy", "project", "user"}
ShouldPersist(e) == e.layer # "scratchpad"

\* WriteEntry up to the database.
BeginWrite(w, k, e) ==
  /\ writes < MaxWrites /\ writes' = writes + 1
  /\ layerWriter' = [layerWriter EXCEPT ![w] = IF MayWrite(e)
       THEN [at |-> IF ShouldPersist(e) THEN "upsert" ELSE "set", key |-> k, entry |-> e]
       ELSE NoWrite]
  /\ crossed' = IF MayWrite(e) /\ Writing(k) # {} THEN crossed \cup {k} ELSE crossed
  /\ UNCHANGED <<entries, layerRows>>

Write(w) ==
  /\ layerWriter[w].at = "idle"
  /\ \E k \in MemoryKeys, layer \in Layers, source \in {"human", "agent_inference"}, ev \in BOOLEAN :
       BeginWrite(w, k, [layer |-> layer, source |-> source, evidence |-> ev, write |-> writes + 1])

\* PromoteScratchpadByKey: the entry is read, and another call may write it before the
\* promotion does.
ReadScratchpad(w) ==
  /\ layerWriter[w].at = "idle"
  /\ \E k \in MemoryKeys :
       /\ entries[k].layer = "scratchpad"
       /\ layerWriter' = [layerWriter EXCEPT ![w] = [at |-> "read", key |-> k, entry |-> entries[k]]]
  /\ UNCHANGED <<entries, layerRows, writes, crossed>>

Promote(w) ==
  /\ layerWriter[w].at = "read"
  /\ \E evidenceRefs \in BOOLEAN :
       IF layerWriter[w].entry.evidence \/ evidenceRefs
       THEN BeginWrite(w, layerWriter[w].key,
              [layer |-> Route[layerWriter[w].key], source |-> "verified_trace", evidence |-> TRUE,
               write |-> writes + 1])
       ELSE /\ layerWriter' = [layerWriter EXCEPT ![w] = NoWrite]
            /\ UNCHANGED <<entries, layerRows, writes, crossed>>

Upsert(w) ==
  /\ layerWriter[w].at = "upsert"
  /\ layerRows' = [layerRows EXCEPT ![layerWriter[w].key] = layerWriter[w].entry]
  /\ layerWriter' = [layerWriter EXCEPT ![w].at = "set"]
  /\ UNCHANGED <<entries, writes, crossed>>

UpsertFails(w) ==
  /\ layerWriter[w].at = "upsert"
  /\ layerWriter' = [layerWriter EXCEPT ![w] = NoWrite]
  /\ UNCHANGED <<entries, layerRows, writes, crossed>>

SetEntry(w) ==
  /\ layerWriter[w].at = "set"
  /\ entries' = [entries EXCEPT ![layerWriter[w].key] = layerWriter[w].entry]
  /\ layerWriter' = [layerWriter EXCEPT ![w] = NoWrite]
  /\ UNCHANGED <<layerRows, writes, crossed>>

\* NewHierarchicalMemory in a new process: what the table has, the scratchpad is gone.
Restart ==
  /\ entries' = layerRows
  /\ layerWriter' = [w \in LayerWriters |-> NoWrite]
  /\ crossed' = {}
  /\ UNCHANGED <<layerRows, writes>>

Next ==
  \/ \E w \in LayerWriters : Write(w) \/ ReadScratchpad(w) \/ Promote(w) \/ Upsert(w)
                             \/ UpsertFails(w) \/ SetEntry(w)
  \/ Restart

Spec == Init /\ [][Next]_layeredVars

-----------------------------------------------------------------------------
TypeOK ==
  /\ \A k \in MemoryKeys : entries[k].layer \in Layers \cup {"none"}
                           /\ layerRows[k].layer \in Layers \cup {"none"}
  /\ writes \in 0..MaxWrites /\ crossed \subseteq MemoryKeys

\* What the map holds outside the scratchpad is what a restart finds, and was verified:
\* unless two calls wrote the key at a time, or one is about to set the map.
DurableIsPersisted ==
  \A k \in MemoryKeys :
    /\ layerRows[k] # NoEntry =>
         layerRows[k].layer # "scratchpad" /\ IsVerified(layerRows[k])
    /\ (entries[k].layer \notin {"none", "scratchpad"} /\ Writing(k) = {} /\ k \notin crossed)
         => entries[k] = layerRows[k]
=============================================================================
