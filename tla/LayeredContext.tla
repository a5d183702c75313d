--------------------------- MODULE LayeredContext ----------------------------
(***************************************************************************)
(* memory/hierarchical_v1: what of the entries the model gets to see.      *)
(* Layer after layer, the most certain first, an entry is taken if it      *)
(* still fits the budget of its layer; what was taken counts as accessed   *)
(* and goes first among equals the next time.  Entries come in the order   *)
(* of a Go map, so that equals are in any order.  Times are whole seconds, *)
(* whose texts order as they do.                                           *)
(***************************************************************************)
EXTENDS FiniteSets, Integers, Sequences

CONSTANTS
  EntryValues,      \* what an entry may be: [layer, confidence, tokens]
  BudgetOverrides,  \* layer -> TokenBudget of Config.Policies, 0 where there is none
  DefaultBudgets,
  EntryKeys, Perishable, \* the keys whose entries have a ValidUntil
  MaxAssemblies

VARIABLES
  known,            \* key -> entry, or Nothing
  expired,          \* keys whose ValidUntil has passed
  assemblies,       \* AssembleContext calls so far: its clock
  selected,         \* keys of the last one, in order
  assembled         \* nothing has changed since (an observer)

contextVars == <<known, expired, assemblies, selected, assembled>>

Nothing == [layer |-> "none", confidence |-> 0, tokens |-> 0, accessed |-> 0]
AssembleOrder == <<"policy", "project", "user", "task", "scratchpad">>
Position(layer) == CHOOSE i \in DOMAIN AssembleOrder : AssembleOrder[i] = layer

\* An override without a budget keeps the default.
MergePolicies ==
  [layer \in DOMAIN DefaultBudgets |->
     IF BudgetOverrides[layer] > 0 THEN BudgetOverrides[layer] ELSE DefaultBudgets[layer]]

Init ==
  /\ known = [k \in EntryKeys |-> Nothing] /\ expired = {}
  /\ assemblies = 0 /\ selected = <<>> /\ assembled = FALSE

\* normalizeEntry: an entry without a confidence is certain (2 is 1.0); it is created now,
\* and an older entry of its key is gone.
NormalizeEntry(e) ==
  [layer |-> e.layer, tokens |-> e.tokens, accessed |-> assemblies,
   confidence |-> IF e.confidence = 0 THEN 2 ELSE e.confidence]

WriteEntry ==
  /\ assemblies < MaxAssemblies /\ assembled' = FALSE
  /\ \E k \in EntryKeys, e \in EntryValues :
       /\ known' = [known EXCEPT ![k] = NormalizeEntry(e)]
       /\ expired' = expired \ {k}
  /\ UNCHANGED <<assemblies, selected>>

Expire ==
  /\ \E k \in Perishable : known[k] # Nothing /\ k \notin expired /\ expired' = expired \cup {k}
  /\ assembled' = FALSE
  /\ UNCHANGED <<known, assemblies, selected>>

\* Layer by layer, and in a layer by confidence and last access.
Earlier(k, l) ==
  \/ Position(known[k].layer) < Position(known[l].layer)
  \/ /\ known[k].layer = known[l].layer
     /\ \/ known[k].confidence > known[l].confidence
        \/ known[k].confidence = known[l].confidence /\ known[k].accessed > known[l].accessed
Visible == {k \in EntryKeys \ expired : known[k] # Nothing}
SortedLayerKeys ==
  {order \in [1..Cardinality(Visible) -> Visible] :
     /\ \A k \in Visible : \E i \in DOMAIN order : order[i] = k
     /\ \A i, j \in DOMAIN order : order[i] = order[j] => i = j
     /\ \A i, j \in DOMAIN order : Earlier(order[i], order[j]) => i < j}

NothingTaken == [used |-> [layer \in DOMAIN DefaultBudgets |-> 0], keys |-> <<>>]
Fits(taken, k) == taken.used[known[k].layer] + known[k].tokens <= MergePolicies[known[k].layer]
Used(taken, k) == [taken.used EXCEPT ![known[k].layer] = @ + known[k].tokens]
TakeUntilFull(taken, k) ==                  \* mutant: the first that does not fit ends the layer
  [used |-> Used(taken, k), keys |-> IF Fits(taken, k) THEN Append(taken.keys, k) ELSE taken.keys]
Take(taken, k) ==
  IF Fits(taken, k) THEN [used |-> Used(taken, k), keys |-> Append(taken.keys, k)] ELSE taken

Assembled(order) ==
  LET After[i \in 0..Len(order)] == IF i = 0 THEN NothingTaken ELSE Take(After[i - 1], order[i])
  IN After[Len(order)].keys

AssembleContext ==
  /\ assemblies < MaxAssemblies /\ assemblies' = assemblies + 1 /\ assembled' = TRUE
  /\ \E order \in SortedLayerKeys : selected' = Assembled(order)
  /\ known' = [k \in EntryKeys |-> IF \E i \in DOMAIN selected' : selected'[i] = k
                                   THEN [known[k] EXCEPT !.accessed = assemblies'] ELSE known[k]]
  /\ UNCHANGED expired

Next == WriteEntry \/ Expire \/ AssembleContext

-----------------------------------------------------------------------------
TypeOK ==
  /\ \A k \in EntryKeys : known[k] = Nothing \/ known[k].confidence # 0
  /\ assemblies \in 0..MaxAssemblies /\ \A i \in DOMAIN selected : selected[i] \in EntryKeys

Total(weights) ==
  LET Upto[i \in 0..Len(weights)] == IF i = 0 THEN 0 ELSE Upto[i - 1] + weights[i]
  IN Upto[Len(weights)]
TokensOf(keys, counted) ==
  Total([i \in DOMAIN keys |-> IF keys[i] \in counted THEN known[keys[i]].tokens ELSE 0])

\* What the model sees of a layer fits its budget, and what it does not see of it would not
\* have fitted beside what is at least as certain: nothing certain gives way to a guess, and
\* no room is left for something that fits.
AssembledByCertainty ==
  LET seen == {selected[i] : i \in DOMAIN selected}
      inLayer(l) == {k \in seen : known[k].layer = l}
  IN assembled =>
       /\ \A i, j \in DOMAIN selected : selected[i] = selected[j] => i = j
       /\ \A l \in DOMAIN MergePolicies : TokensOf(selected, inLayer(l)) <= MergePolicies[l]
       /\ seen \cap expired = {}
       /\ \A k \in EntryKeys \ (expired \cup seen) : known[k] # Nothing =>
            known[k].tokens + TokensOf(selected, {o \in inLayer(known[k].layer) :
                                                    known[o].confidence >= known[k].confidence})
              > MergePolicies[known[k].layer]
=============================================================================
