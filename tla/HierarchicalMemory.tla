------------------------- MODULE HierarchicalMemory -------------------------
(***************************************************************************)
(* memory/hierarchical: one scope with a working tier under a token        *)
(* budget, a session tier of what was evicted and a long-term tier in      *)
(* SQLite.  Tool calls of one model message run in parallel: Retrieve and  *)
(* Consolidate read under the lock, call the embedder and the database     *)
(* without it, and take the lock again to move what they had read.         *)
(* Scores are data: a search may return any hits, and any entries may be   *)
(* the lowest when the budget evicts.  Every entry costs one token.        *)
(***************************************************************************)
EXTENDS FiniteSets, Integers

CONSTANTS Contents, MaxAdds, WorkingBudget, TopK, MemoryCalls

VARIABLES
  working, session,  \* sets of entries
  longTerm,          \* contents of the rows (a copy is never persisted)
  adds,              \* number of Add calls, and what they added (an observer)
  added,
  memCall            \* per call: what Retrieve or Consolidate still has to do

hierarchicalVars == <<working, session, longTerm, adds, added, memCall>>

\* worthy: importance above persistImportanceThreshold, or source "reflection";
\* copy: source longTermRetrievalSource; id: which Add made it.
Entry == [id : 0..MaxAdds, content : Contents, copy : BOOLEAN, worthy : BOOLEAN]
Key(e) == <<e.content, e.copy>>
Idle == [op |-> "idle", rows |-> {}, hits |-> {}, done |-> {}]

Init ==
  /\ working = {} /\ session = {} /\ longTerm = {}
  /\ adds = 0 /\ added = {}
  /\ memCall = [c \in MemoryCalls |-> Idle]

\* enforceBudgetLocked: only as many entries as fit stay, the others become session.
EnforceBudget(entries, others) ==
  \E kept \in SUBSET entries :
    /\ Cardinality(kept) = IF Cardinality(entries) > WorkingBudget THEN WorkingBudget
                           ELSE Cardinality(entries)
    /\ working' = kept
    /\ session' = others \cup (entries \ kept)

Add ==
  /\ adds < MaxAdds
  /\ adds' = adds + 1
  /\ \E x \in Contents, w \in BOOLEAN :
       LET e == [id |-> adds + 1, content |-> x, copy |-> FALSE, worthy |-> w] IN
       /\ EnforceBudget(working \cup {e}, session)
       /\ added' = added \cup {x}
  /\ UNCHANGED <<longTerm, memCall>>

\* store.search: at most TopK rows, before the session is looked at.
SearchLongTerm(c) ==
  /\ memCall[c] = Idle
  /\ \E found \in SUBSET longTerm :
       /\ Cardinality(found) <= TopK
       /\ memCall' = [memCall EXCEPT ![c] = [Idle EXCEPT !.op = "session", !.rows = found]]
  /\ UNCHANGED <<working, session, longTerm, adds, added>>

\* searchSession works on a snapshot; mergeSearchResults drops a session hit whose
\* source and text another hit has already, and keeps the TopK best.
SearchSession(c) ==
  /\ memCall[c].op = "session"
  /\ \E rows \in SUBSET memCall[c].rows, hits \in SUBSET session :
       /\ Cardinality(rows) + Cardinality(hits) <= TopK
       /\ \A e \in hits :
            /\ e.copy \/ e.content \notin memCall[c].rows
            /\ \A f \in hits \ {e} : Key(f) # Key(e)
       /\ memCall' = [memCall EXCEPT ![c] = [op |-> "promote", rows |-> rows, hits |-> hits, done |-> {}]]
  /\ UNCHANGED <<working, session, longTerm, adds, added>>

\* promotedEntry: a session hit moves, with the importance its score may raise, and
\* a row gets a working copy (never a candidate); a twin in working is only refreshed.
Promoted(hits, rows, raised) ==
  {[e EXCEPT !.worthy = @ \/ (e.content \in raised /\ ~e.copy)] : e \in hits} \cup
  {[id |-> 0, content |-> x, copy |-> TRUE, worthy |-> FALSE] : x \in rows}

Promote(c) ==
  /\ memCall[c].op = "promote"
  /\ \E raised \in SUBSET {e.content : e \in memCall[c].hits} :
       LET promoted == Promoted(memCall[c].hits, memCall[c].rows, raised)
           fresh == {p \in promoted : \A e \in working : Key(e) # Key(p)}
           kept  == {[e EXCEPT !.worthy = @ \/ \E p \in promoted : Key(p) = Key(e) /\ p.worthy] :
                       e \in working}
           moved == {Key(e) : e \in memCall[c].hits}
       IN  EnforceBudget(kept \cup fresh, {e \in session : Key(e) \notin moved})
  /\ memCall' = [memCall EXCEPT ![c] = Idle]
  /\ UNCHANGED <<longTerm, adds, added>>

\* An error of the embedder or the database ends the call; nothing is undone.
Fail(c) ==
  /\ memCall[c].op \in {"session", "persist"}
  /\ memCall' = [memCall EXCEPT ![c] = Idle]
  /\ UNCHANGED <<working, session, longTerm, adds, added>>

\* consolidationCandidates: what is worth persisting, from either tier.
Worth(entries) == {e.content : e \in {f \in entries : f.worthy /\ ~f.copy}}

Consolidate(c) ==
  /\ memCall[c] = Idle
  /\ Worth(session \cup working) # {}
  /\ memCall' = [memCall EXCEPT ![c] = [op |-> "persist", rows |-> Worth(session \cup working),
                                       hits |-> {}, done |-> Worth(session)]]
  /\ UNCHANGED <<working, session, longTerm, adds, added>>

\* upsertLongTerm of one candidate after the other.
PersistOrSkip(c) ==                         \* mutant: a failed upsert only skips its candidate
  /\ memCall[c].op = "persist"
  /\ \E x \in memCall[c].rows :
       /\ longTerm' \in {longTerm, longTerm \cup {x}}
       /\ memCall' = [memCall EXCEPT ![c].rows = @ \ {x}]
  /\ UNCHANGED <<working, session, adds, added>>
Persist(c) ==
  /\ memCall[c].op = "persist"
  /\ \E x \in memCall[c].rows :
       /\ longTerm' = longTerm \cup {x}
       /\ memCall' = [memCall EXCEPT ![c].rows = @ \ {x}]
  /\ UNCHANGED <<working, session, adds, added>>

\* removeSessionEntries: by key, whatever the session holds by now.
Clean(c) ==
  /\ memCall[c].op = "persist" /\ memCall[c].rows = {}
  /\ session' = {e \in session : e.copy \/ e.content \notin memCall[c].done}
  /\ memCall' = [memCall EXCEPT ![c] = Idle]
  /\ UNCHANGED <<working, longTerm, adds, added>>

Next ==
  \/ Add
  \/ \E c \in MemoryCalls :
       SearchLongTerm(c) \/ SearchSession(c) \/ Promote(c) \/ Fail(c)
         \/ Consolidate(c) \/ Persist(c) \/ Clean(c)

---------------------------------------------------------------------------

TypeOK ==
  /\ working \subseteq Entry /\ Cardinality(working) <= WorkingBudget
  /\ session \subseteq Entry
  /\ longTerm \subseteq Contents

\* What was added is in one of the three tiers, however Retrieve's stale hits,
\* Consolidate's late removal by key, evictions and failed calls interleave.
NoEntryLost ==
  \A x \in added :
    x \in longTerm \/ \E e \in working \cup session : e.content = x /\ ~e.copy
=============================================================================
