--------------------------- MODULE ContextTriage ----------------------------
(***************************************************************************)
(* perception/triage: the context of a support request is packed into a    *)
(* token budget.  Items are sorted by priority, errors and length; P3 goes *)
(* in as a handle only, P2 may be compressed, errors are forced in.  What  *)
(* is behind a handle is read from the store when the model asks for it.   *)
(***************************************************************************)
EXTENDS FiniteSets, Integers, Sequences

CONSTANTS ContextBudget, SupportingMax, MaxCandidates

VARIABLES
  prepare,    \* "idle", "packing", "prepared" or "refused"
  tenant,     \* RuntimeContext.TenantID; "T" is written with a capital
  candidates, \* the sorted items still to be placed
  placed,     \* selected, deferred, dropped
  tokensUsed, \* of what is selected
  docs,       \* the handles of InMemoryResourceStore, by the tenant in them
  read        \* documents the model was given, by tenant

triageVars == <<prepare, tenant, candidates, placed, tokensUsed, docs, read>>

P0 == 3     P1 == 2     P2 == 1     P3 == 0
Tenants == {"t", "T", "u"}
SanitizeHandlePart(id) == IF id = "T" THEN "t" ELSE id
NoHandle == "none"
\* handle: the tenant part of the item's handle.
Item(priority, error, tokens, owner, handle) ==
  [priority |-> priority, error |-> error, tokens |-> tokens, owner |-> owner, handle |-> handle]

\* What the rules of the policy make of a profile: evidence, indexes, resources.
PolicyItems(t) ==
  {Item(p, e, n, t, NoHandle) : p \in {P0, P1}, e \in BOOLEAN, n \in 1..2}
    \cup {Item(P2, e, n, t, SanitizeHandlePart(t)) : e \in BOOLEAN, n \in 1..2}
    \cup {Item(P3, e, 1, t, h) : e \in BOOLEAN, h \in {SanitizeHandlePart(t), "u"}}
\* Extra items of the caller may be anybody's or lack a handle.
ExtraItems(t) == {Item(P1, FALSE, 1, "u", NoHandle), Item(P3, FALSE, 1, t, NoHandle)}

Init ==
  /\ prepare = "idle" /\ tenant \in Tenants \ {"u"}
  /\ candidates = <<>> /\ placed = [selected |-> <<>>, deferred |-> <<>>, dropped |-> <<>>]
  /\ tokensUsed = 0 /\ docs \in SUBSET {"t", "u"} /\ read = {}

ValidateTenantHandle(t, handle) == handle = t
\* normalizeSaaSItems
Normal(item) ==
  /\ item.owner = tenant
  /\ item.handle # NoHandle => ValidateTenantHandle(tenant, item.handle)
  /\ item.priority = P3 => item.handle # NoHandle

BeforeBySize(a, b) == a.tokens < b.tokens           \* mutant: short items first
Before(a, b) ==
  IF a.priority # b.priority THEN a.priority > b.priority
  ELSE IF a.error # b.error THEN a.error ELSE a.tokens > b.tokens

\* sort.SliceStable: equal items stay in their order.
Ahead(items, i, j) ==
  Before(items[i], items[j]) \/ (~Before(items[j], items[i]) /\ i < j)
Order(items) ==
  [r \in DOMAIN items |->
     CHOOSE i \in DOMAIN items : Cardinality({j \in DOMAIN items : Ahead(items, j, i)}) = r - 1]
Sorted(items) == [r \in DOMAIN items |-> items[Order(items)[r]]]

\* PrepareTriageContext up to the loop of Triage.
PrepareTriageContext ==
  /\ prepare = "idle"
  /\ \E n \in 0..MaxCandidates : \E items \in [1..n -> PolicyItems(tenant) \cup ExtraItems(tenant)] :
       IF \A i \in DOMAIN items : Normal(items[i])
       THEN prepare' = "packing" /\ candidates' = Sorted(items)
       ELSE prepare' = "refused" /\ candidates' = <<>>
  /\ UNCHANGED <<tenant, placed, tokensUsed, docs, read>>

Compressed(item) ==
  IF item.priority = P2 /\ item.tokens > SupportingMax
  THEN [item EXCEPT !.tokens = SupportingMax] ELSE item
Slot(item) ==
  IF item.priority = P3 THEN "deferred"
  ELSE IF tokensUsed + item.tokens <= ContextBudget \/ item.error THEN "selected"
  ELSE "dropped"

\* One round of the loop.
Place ==
  /\ prepare = "packing" /\ candidates # <<>>
  /\ LET item == Compressed(Head(candidates)) IN
       /\ placed' = [placed EXCEPT ![Slot(item)] = Append(@, item)]
       /\ tokensUsed' = IF Slot(item) = "selected" THEN tokensUsed + item.tokens ELSE tokensUsed
  /\ candidates' = Tail(candidates)
  /\ UNCHANGED <<prepare, tenant, docs, read>>

Prepared ==
  /\ prepare = "packing" /\ candidates = <<>> /\ prepare' = "prepared"
  /\ UNCHANGED <<tenant, candidates, placed, tokensUsed, docs, read>>

\* ReadTenantHandle, for a handle the model was shown.
ReadTenantHandle ==
  /\ prepare = "prepared"
  /\ \E slot \in {"selected", "deferred"} : \E i \in DOMAIN placed[slot] :
       LET handle == placed[slot][i].handle IN
       /\ ValidateTenantHandle(tenant, handle) /\ handle \in docs
       /\ read' = read \cup {handle}
  /\ UNCHANGED <<prepare, tenant, candidates, placed, tokensUsed, docs>>

Next == PrepareTriageContext \/ Place \/ Prepared \/ ReadTenantHandle

Spec == Init /\ [][Next]_triageVars

-----------------------------------------------------------------------------
TypeOK ==
  /\ prepare \in {"idle", "packing", "prepared", "refused"} /\ tenant \in Tenants
  /\ read \subseteq docs

Total(weights) ==
  LET Upto[i \in 0..Len(weights)] == IF i = 0 THEN 0 ELSE Upto[i - 1] + weights[i]
  IN Upto[Len(weights)]
TokensOf(items, counted) ==
  Total([i \in DOMAIN items |-> IF items[i] \in counted THEN items[i].tokens ELSE 0])

\* An item is dropped only for what is at least as urgent, or for an error; errors are
\* dropped never, and the budget is exceeded for nothing else ("错误证据强制保留").
DroppedForTheUrgent ==
  LET chosen == {placed.selected[i] : i \in DOMAIN placed.selected} IN
  /\ \A d \in DOMAIN placed.dropped :
       LET item == placed.dropped[d] IN
       /\ ~item.error
       /\ TokensOf(placed.selected, {s \in chosen : s.priority >= item.priority}) + item.tokens > ContextBudget
  /\ TokensOf(placed.selected, {s \in chosen : ~s.error}) <= ContextBudget

\* The model is given documents of the tenant of the request only, and every handle it is
\* shown can be read if its document is there.
HandlesStayWithTheTenant ==
  /\ read \subseteq {tenant}
  /\ \A slot \in {"selected", "deferred"} : \A i \in DOMAIN placed[slot] :
       placed[slot][i].handle \in {NoHandle, tenant}
=============================================================================
