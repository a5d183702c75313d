---------------------------- MODULE FailureRecall ----------------------------
(***************************************************************************)
(* memory/failure_tracking: what Record accepts and how RecallBeforeTool   *)
(* ranks.  An entry says when to recall it (families, tools, mechanical    *)
(* keys, categories), a request says what is about to happen.  Matching    *)
(* keys count first; the similarity, in tenths, only decides between       *)
(* equals or where no key matches.  Texts are data.                        *)
(***************************************************************************)
EXTENDS FiniteSets, Integers, Sequences

CONSTANTS
  DraftEntries,      \* what may be recorded, FailureEntry
  RecallRequests,
  MaxEntries,
  DefaultRecallK, ScoreThreshold

VARIABLES
  journalled,        \* failure_entries, newest first
  recalling,         \* the request that was answered, or NoRecall
  matches

recallVars == <<journalled, recalling, matches>>

NoRecall == [family |-> "", tool |-> "", keys |-> {}, categories |-> {}, query |-> "", topK |-> 0]

Init == journalled = <<>> /\ recalling = NoRecall /\ matches = <<>>

-----------------------------------------------------------------------------
(* Record *)

\* hasGroundedRecallValue: one of the values is enough.
Grounded(values, refs) == values = {} \/ values \cap refs # {}
ValidateRecallGrounding(e) ==
  /\ Grounded(e.recall.keys, e.evidence.state)
  /\ Grounded(e.recall.tools, e.evidence.workspace \cup e.evidence.observations)

HasEvidence(e) ==
  e.evidence.state \cup e.evidence.workspace \cup e.evidence.observations \cup e.evidence.narrative # {}
HasRecallTrigger(e) ==
  e.recall.families \cup e.recall.tools \cup e.recall.keys \cup e.recall.categories # {}

\* normalizeAndValidateEntry fills in what is left empty before it validates.
Normalized(e) == IF e.status = "" THEN [e EXCEPT !.status = "draft"] ELSE e

ValidEntryUngrounded(e) ==                  \* mutant: any trigger will do
  /\ e.family # "" /\ e.category # "" /\ e.told
  /\ e.status = "approved" => e.reviewed
  /\ HasEvidence(e) /\ HasRecallTrigger(e)
ValidEntry(e) ==
  /\ e.family # "" /\ e.category # ""
  /\ e.status = "approved" => e.reviewed
  /\ e.told             \* symptom, root cause, repair, lesson and what not to do
  /\ HasEvidence(e) /\ HasRecallTrigger(e)
  /\ ValidateRecallGrounding(e)

Record ==
  /\ recalling = NoRecall /\ Len(journalled) < MaxEntries
  /\ \E e \in DraftEntries :
       ValidEntry(Normalized(e)) /\ journalled' = <<Normalized(e)>> \o journalled
  /\ UNCHANGED <<recalling, matches>>

-----------------------------------------------------------------------------
(* RecallBeforeTool *)

Points(condition, n) == IF condition THEN n ELSE 0

\* The entry's own family and category count less than a trigger that names them.
StructuredScore(req, e) ==
    Points(req.family # "" /\ req.family \in e.recall.families, 3)
  + Points(req.family # "" /\ req.family = e.family /\ req.family \notin e.recall.families, 2)
  + Points(req.tool # "" /\ req.tool \in e.recall.tools, 3)
  + Cardinality(req.keys \cap e.recall.keys)
  + Cardinality(req.categories \cap e.recall.categories)
  + Points(e.category \in req.categories \ e.recall.categories, 1)

\* In fiftieths: the semantic part weighs a fifth next to a structured match.
Score(req, e) ==
  IF StructuredScore(req, e) = 0 THEN 5 * e.semantic
  ELSE 50 * StructuredScore(req, e) + e.semantic

RecallRequested(req) ==
  req.family # "" \/ req.tool # "" \/ req.keys # {} \/ req.categories # {} \/ req.query # ""

\* Approved entries that have anything to do with the request, by their place in the journal.
Related(req) ==
  {i \in DOMAIN journalled :
     /\ journalled[i].status = "approved"
     /\ StructuredScore(req, journalled[i]) > 0 \/ journalled[i].semantic > 0}

\* A stable sort, best first, and its cut.
Before(req, i, j) ==
  LET e == journalled[i]
      f == journalled[j]
  IN \/ StructuredScore(req, e) > StructuredScore(req, f)
     \/ /\ StructuredScore(req, e) = StructuredScore(req, f)
        /\ Score(req, e) > Score(req, f) \/ (Score(req, e) = Score(req, f) /\ i < j)
Limit(req) == IF req.topK <= 0 THEN DefaultRecallK ELSE req.topK
TopMatches(req) ==
  {i \in Related(req) : Cardinality({j \in Related(req) : Before(req, j, i)}) < Limit(req)}

Recalled(req) ==
  {i \in TopMatches(req) : StructuredScore(req, journalled[i]) > 0
                             \/ Score(req, journalled[i]) >= ScoreThreshold}
Ranked(req, places) ==
  [r \in 1..Cardinality(places) |->
     CHOOSE i \in places : Cardinality({j \in places : Before(req, j, i)}) = r - 1]

RecallBeforeTool ==
  /\ recalling = NoRecall
  /\ \E req \in RecallRequests :
       /\ RecallRequested(req)
       /\ recalling' = req
       /\ matches' = [r \in 1..Cardinality(Recalled(req)) |-> journalled[Ranked(req, Recalled(req))[r]]]
  /\ UNCHANGED journalled

Next == Record \/ RecallBeforeTool

-----------------------------------------------------------------------------
TypeOK ==
  /\ Len(journalled) <= MaxEntries
  /\ \A r \in DOMAIN matches : \E i \in DOMAIN journalled : matches[r] = journalled[i]

\* The keys come before the similarity: whatever the similarities, an approved entry whose
\* trigger fits is only left out for as many that fit at least as well; and what is recalled
\* for a tool or a key was reviewed and has evidence for one of its triggers of that kind.
TriggersComeFirst ==
  /\ \A i \in DOMAIN journalled :
       LET e == journalled[i] IN
       (/\ recalling # NoRecall /\ e.status = "approved" /\ StructuredScore(recalling, e) > 0
        /\ \A r \in DOMAIN matches : matches[r] # e) =>
          /\ Len(matches) = Limit(recalling)
          /\ \A r \in DOMAIN matches : StructuredScore(recalling, matches[r]) >= StructuredScore(recalling, e)
  /\ \A i \in DOMAIN matches :
       /\ matches[i].reviewed
       /\ recalling.keys \cap matches[i].recall.keys # {} =>
            matches[i].recall.keys \cap matches[i].evidence.state # {}
=============================================================================
