----------------------------- MODULE Mem0Search -----------------------------
(***************************************************************************)
(* memory/mem0: Search checks its request, embeds the query, lists what    *)
(* the entity ids of the filters select, and only then filters by          *)
(* metadata, drops what is below the threshold, ranks and cuts.  Adds go   *)
(* on while the query is embedded.                                         *)
(*                                                                         *)
(* Similarities are halves of one.  The score of a memory without a word   *)
(* of the query is its similarity, of the others the mean of similarity    *)
(* and keyword score, so that a weak keyword match lowers a score.         *)
(***************************************************************************)
EXTENDS FiniteSets, Integers, Sequences

CONSTANTS
  StoredTexts,   \* what a memory may be: [scope, value, semantic, keyword]
  SearchRequests,
  MaxStored,
  DefaultTopK

VARIABLES
  stored,        \* the memories table, by id
  searching,     \* "open", "embed", "refused", "answered"
  searchRequest,
  found

searchVars == <<stored, searching, searchRequest, found>>

NoRequest == [query |-> "", topK |-> 0, threshold |-> 0, scope |-> {}, op |-> "none", value |-> 0]
Absent == 0      \* a metadata value a memory does not have; the others are 1, 2, ...

Init == stored = <<>> /\ searching = "open" /\ searchRequest = NoRequest /\ found = <<>>

\* buildStoredMemory: the id is random, and with it the place in the listing.
Remember ==
  /\ searching \in {"open", "embed"} /\ Len(stored) < MaxStored
  /\ \E memory \in StoredTexts, i \in 1..(Len(stored) + 1) :
       stored' = [k \in 1..(Len(stored) + 1) |->
                    IF k < i THEN stored[k] ELSE IF k = i THEN memory ELSE stored[k - 1]]
  /\ UNCHANGED <<searching, searchRequest, found>>

ValidSearch(req) ==
  /\ req.query # "" /\ req.topK >= 0
  /\ req.threshold \in 0..2
  /\ req.scope # {}                              \* validateSearchFilters

Search ==
  /\ searching = "open"
  /\ \E req \in SearchRequests :
       /\ searchRequest' = req
       /\ searching' = IF ValidSearch(req) THEN "embed" ELSE "refused"
  /\ UNCHANGED <<stored, found>>

\* Numbers are compared as numbers, which an absent value is not.
CompareFilterNumber(actual, op, value) ==
  /\ actual # Absent
  /\ \/ op = "gt" /\ actual > value
     \/ op = "gte" /\ actual >= value
     \/ op = "lt" /\ actual < value
     \/ op = "lte" /\ actual <= value

\* All values here are texts of one letter, so that containing one is being it.
\* An operator that is not known matches nothing.
FilterValueMatches(actual, op, value) ==
  \/ op = "*"
  \/ op \in {"eq", "contains", "in"} /\ actual = value
  \/ op \in {"ne", "nin"} /\ actual # value
  \/ op \in {"gt", "gte", "lt", "lte"} /\ CompareFilterNumber(actual, op, value)

MatchesMetadataFilters(memory, req) ==
  req.op = "none" \/ FilterValueMatches(memory.value, req.op, req.value)

\* In quarters.
FinalScore(memory) ==
  IF memory.keyword > 0 THEN memory.semantic + memory.keyword ELSE 2 * memory.semantic

Limit(req) == IF req.topK = 0 THEN DefaultTopK ELSE req.topK
\* Places in the table.
Listing(req) == {i \in DOMAIN stored : req.scope \subseteq stored[i].scope}
Scored(req, places) ==
  {i \in places : MatchesMetadataFilters(stored[i], req) /\ stored[i].semantic >= req.threshold}
\* The sort is stable: equal scores stay in the order of the listing.
Before(i, j) ==
  \/ FinalScore(stored[i]) > FinalScore(stored[j])
  \/ FinalScore(stored[i]) = FinalScore(stored[j]) /\ i < j
Ranked(places) ==
  [r \in 1..Cardinality(places) |->
     CHOOSE i \in places : Cardinality({j \in places : Before(j, i)}) = r - 1]
Cut(ranking, req) ==
  [r \in 1..(IF Limit(req) < Len(ranking) THEN Limit(req) ELSE Len(ranking)) |-> stored[ranking[r]]]

FoundOfTheFirst(req) ==          \* mutant: the limit goes into the statement that lists
  Cut(Ranked(Scored(req, {i \in Listing(req) : Cardinality({j \in Listing(req) : j < i}) < Limit(req)})), req)
Found(req) == Cut(Ranked(Scored(req, Listing(req))), req)

Answer ==
  /\ searching = "embed"
  /\ found' = Found(searchRequest) /\ searching' = "answered"
  /\ UNCHANGED <<stored, searchRequest>>

Next == Remember \/ Search \/ Answer

-----------------------------------------------------------------------------
TypeOK ==
  /\ \A i \in DOMAIN stored : stored[i] \in StoredTexts
  /\ Len(stored) <= MaxStored
  /\ \A r \in DOMAIN found : \E i \in DOMAIN stored : found[r] = stored[i]

\* Exactly one of an operator and its negation matches; no comparison matches an absent value.
FiltersComplement ==
  \A actual \in 0..2, value \in 1..2 :
    /\ \A op \in {<<"eq", "ne">>, <<"in", "nin">>} :
         FilterValueMatches(actual, op[1], value) # FilterValueMatches(actual, op[2], value)
    /\ \A op \in {<<"gt", "lte">>, <<"lt", "gte">>} :
         (FilterValueMatches(actual, op[1], value) # FilterValueMatches(actual, op[2], value))
           <=> actual # Absent

\* A search returns the best of all memories of its scope that pass its filters: none of
\* another entity, and none left out that is better than one returned or that had room.
BestMatchesFound ==
  /\ FiltersComplement
  /\ searching = "answered" =>
       LET eligible(m) == /\ searchRequest.scope \subseteq m.scope
                          /\ m.semantic >= searchRequest.threshold
                          /\ MatchesMetadataFilters(m, searchRequest)
           all == {i \in DOMAIN stored : eligible(stored[i])}
       IN /\ \A i \in DOMAIN found : eligible(found[i])
          /\ \A i \in 1..(Len(found) - 1) : FinalScore(found[i]) >= FinalScore(found[i + 1])
          /\ \A i \in all :
               \/ \E r \in DOMAIN found : found[r] = stored[i]
               \/ /\ Len(found) = Limit(searchRequest)
                  /\ FinalScore(stored[i]) <= FinalScore(found[Len(found)])
=============================================================================
