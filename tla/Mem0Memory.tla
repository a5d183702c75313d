----------------------------- MODULE Mem0Memory -----------------------------
(***************************************************************************)
(* memory/mem0: Add extracts facts with a model and inserts the ones whose *)
(* hash the scope does not have, or stores the raw messages.  There is no  *)
(* lock: tool calls of one model message run in parallel, every statement  *)
(* is a transaction of its own, and a failing step ends the call where it  *)
(* is.  Search only reads.                                                 *)
(***************************************************************************)
EXTENDS FiniteSets, Integers, Sequences, SequencesExt

CONSTANTS
  Facts,          \* texts, one per hash
  Scopes,         \* each a set of entity ids (user_id, agent_id, run_id)
  Callers, MaxAdds

VARIABLES
  memories,       \* the memories table: [id, fact, scope, raw, add]
  history,        \* ids that have their ADD record in memory_history
  saved,          \* numbers of the Add calls whose messages are saved
  caller,         \* per caller: the call it is in
  addCalls,       \* Add calls so far
  together        \* pairs of Add calls that were in flight together (an observer)

mem0Vars == <<memories, history, saved, caller, addCalls, together>>

NoCall == [at |-> "idle", add |-> 0, scope |-> {}, todo |-> <<>>, known |-> {}, row |-> 0]

Init ==
  /\ memories = {} /\ history = {} /\ saved = {}
  /\ caller = [c \in Callers |-> NoCall]
  /\ addCalls = 0 /\ together = {}

\* scopeWhere: a row is listed when it has every id of the filters.
Listed(scope) == {r \in memories : scope \subseteq r.scope}

BeginAdd(c, at, scope, todo) ==
  /\ caller[c].at = "idle" /\ addCalls < MaxAdds
  /\ addCalls' = addCalls + 1
  /\ together' = together \cup {{caller[d].add, addCalls + 1} : d \in
                                  {d \in Callers : caller[d].at # "idle"}}
  /\ caller' = [caller EXCEPT ![c] =
       [NoCall EXCEPT !.at = at, !.add = addCalls + 1, !.scope = scope, !.todo = todo]]
  /\ UNCHANGED <<memories, history, saved>>

\* infer=false: a row per message, without looking for one like it, and none for a message
\* of the system.
AddRawMessages(c) == \E scope \in Scopes, texts \in SeqOf(Facts, 1) : BeginAdd(c, "raw", scope, texts)
\* infer=true: the model has the last messages and the nearest memories; what it
\* extracts is data, so that they need no place in the state.
AddInferred(c) == \E scope \in Scopes : BeginAdd(c, "extract", scope, <<>>)

Extract(c) ==
  /\ caller[c].at = "extract"
  /\ \E facts \in SeqOf(Facts, 2) :
       caller' = [caller EXCEPT ![c].at = IF facts = <<>> THEN "save" ELSE "hashes", ![c].todo = facts]
  /\ UNCHANGED <<memories, history, saved, addCalls, together>>

\* existingHashes, after the model and the embedder have answered.
ReadHashes(c) ==
  /\ caller[c].at = "hashes"
  /\ caller' = [caller EXCEPT ![c].at = "insert",
                              ![c].known = {r.fact : r \in Listed(caller[c].scope)}]
  /\ UNCHANGED <<memories, history, saved, addCalls, together>>

Duplicate(call) == call.at = "insert" /\ Head(call.todo) \in call.known

Insert(c) ==
  LET call == caller[c]
      row  == [id |-> Cardinality(memories) + 1, fact |-> Head(call.todo), scope |-> call.scope,
               raw |-> call.at = "raw", add |-> call.add]
  IN /\ call.at \in {"insert", "raw"} /\ call.todo # <<>> /\ call.row = 0
     /\ IF Duplicate(call)
        THEN /\ caller' = [caller EXCEPT ![c].todo = Tail(@)]
             /\ memories' = memories
        ELSE /\ memories' = memories \cup {row}
             /\ caller' = [caller EXCEPT ![c].row = row.id]
     /\ UNCHANGED <<history, saved, addCalls, together>>

SeenNothing(known, fact) == known               \* mutant: seenHashes is left out
Seen(known, fact) == known \cup {fact}

AddHistory(c) ==
  /\ caller[c].row # 0
  /\ history' = history \cup {caller[c].row}
  /\ caller' = [caller EXCEPT ![c].row = 0, ![c].todo = Tail(@),
                              ![c].known = Seen(@, Head(caller[c].todo))]
  /\ UNCHANGED <<memories, saved, addCalls, together>>

\* saveMessages, for the inferred path only.
Finish(c) ==
  LET call == caller[c] IN
  /\ call.at \in {"insert", "raw", "save"} /\ call.todo = <<>>
  /\ saved' = IF call.at = "raw" THEN saved ELSE saved \cup {call.add}
  /\ caller' = [caller EXCEPT ![c] = NoCall]
  /\ UNCHANGED <<memories, history, addCalls, together>>

\* The model, the embedder or a statement fails.
AddFails(c) ==
  /\ caller[c].at # "idle"
  /\ caller' = [caller EXCEPT ![c] = NoCall]
  /\ UNCHANGED <<memories, history, saved, addCalls, together>>

Next == \E c \in Callers :
  \/ AddRawMessages(c) \/ AddInferred(c) \/ Extract(c) \/ ReadHashes(c) \/ Insert(c)
  \/ AddHistory(c) \/ Finish(c) \/ AddFails(c)

Spec == Init /\ [][Next]_mem0Vars

-----------------------------------------------------------------------------
TypeOK ==
  /\ \A r \in memories : r.fact \in Facts /\ r.scope \in Scopes /\ r.add \in 1..addCalls
  /\ history \subseteq 1..Cardinality(memories) /\ saved \subseteq 1..addCalls
  /\ \A c \in Callers : caller[c].add \in 0..MaxAdds

\* Two rows of one scope that infer=true stored with the same hash come from two Add
\* calls that were in flight together: neither one call that extracts a fact twice nor a
\* call repeated after a failure stores it again.
OneRowPerFact ==
  \A r, s \in memories :
    (r # s /\ r.fact = s.fact /\ r.scope = s.scope /\ ~r.raw /\ ~s.raw)
      => {r.add, s.add} \in together
=============================================================================
