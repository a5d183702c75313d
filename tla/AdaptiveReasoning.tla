-------------------------- MODULE AdaptiveReasoning --------------------------
(***************************************************************************)
(* reasoning/compose with reasoning/cot: a question is routed by its       *)
(* complexity, answered directly, by one verified chain of thought or by a *)
(* search, and an answer nobody vouches for goes through the hypothesis    *)
(* loop (HypothesisLoop) or to a human.                                    *)
(***************************************************************************)
EXTENDS Integers, Sequences, SequencesExt, FiniteSetsExt

CONSTANTS MaxSteps, Threshold, Sure  \* steps of a chain; confidences are 0..Sure

VARIABLES
  route,     \* RouteDecision.Complexity, "" before
  chain,     \* ChainOfThought.Steps: the confidence of each and whether its verifier objects
  verified,  \* how many steps of it VerifyChain has asked about
  bestPath,  \* BestPathDecision, [confirmed, confidence]
  candidate, \* what the hypothesis loop is given, "" for none
  tested,    \* how the hypothesis loop ended, "" before (LoopOutcome)
  path,      \* Response.Path, kinds and statuses
  reply      \* "" while it runs, then what Solve returns

adaptiveVars == <<route, chain, verified, bestPath, candidate, tested, path, reply>>

Init ==
  /\ route = "" /\ chain = <<>> /\ verified = 0 /\ bestPath = [confirmed |-> FALSE, confidence |-> 0]
  /\ candidate = "" /\ tested = "" /\ path = <<>> /\ reply = ""

\* route: the model's decision or, when it cannot be parsed, that of the heuristic; it is the
\* complexity that counts, whatever path the model recommends.
RouteQuery ==
  /\ route = "" /\ reply = ""
  /\ route' \in {"simple", "moderate", "complex"}
  /\ UNCHANGED <<chain, verified, bestPath, candidate, tested, path, reply>>

\* Any call to a model may fail, and an answer that is no chain and no decision is an error.
ModelFails ==
  /\ reply = "" /\ reply' = "error"
  /\ UNCHANGED <<route, chain, verified, bestPath, candidate, tested, path>>

SolveSimple ==
  /\ route = "simple" /\ reply = ""
  /\ reply' = "direct" /\ path' = <<"direct completed">>
  /\ UNCHANGED <<route, chain, verified, bestPath, candidate, tested>>

\* ReasonWithCOT, normalizeParsedChain: a chain has at least one step.
ReasonWithCOT ==
  /\ route = "moderate" /\ chain = <<>> /\ reply = ""
  /\ chain' \in BoundedSeq([confidence : 0..Sure, invalid : BOOLEAN], MaxSteps) \ {<<>>}
  /\ UNCHANGED <<route, verified, bestPath, candidate, tested, path, reply>>

\* VerifyChain asks about every step; the issues are those it calls INVALID.
VerifyStep ==
  /\ verified < Len(chain) /\ reply = ""
  /\ verified' = verified + 1
  /\ UNCHANGED <<route, chain, bestPath, candidate, tested, path, reply>>

Issues == {i \in DOMAIN chain : chain[i].invalid}
LastStep == chain[Len(chain)].confidence   \* mutant: the confidence of the conclusion
WeakestStep == Min({chain[i].confidence : i \in DOMAIN chain})

\* solveModerate
FinishChain ==
  /\ route = "moderate" /\ chain # <<>> /\ verified = Len(chain) /\ path = <<>> /\ reply = ""
  /\ path' = <<"cot completed">>
  /\ IF Issues = {} /\ WeakestStep >= Threshold
     THEN reply' = "chain" /\ UNCHANGED candidate
     ELSE candidate' = "chain" /\ UNCHANGED reply
  /\ UNCHANGED <<route, chain, verified, bestPath, tested>>

\* solveComplex: whatever the confirmation says, the best path is tested.
Search ==
  /\ route = "complex" /\ path = <<>> /\ reply = ""
  /\ path' = <<"tot completed">>
  /\ UNCHANGED <<route, chain, verified, bestPath, candidate, tested, reply>>
ConfirmBestPath ==
  /\ route = "complex" /\ Len(path) = 1 /\ reply = ""
  /\ bestPath' \in [confirmed : BOOLEAN, confidence : 0..Sure]
  /\ path' = Append(path, IF bestPath'.confirmed /\ bestPath'.confidence >= Threshold
                          THEN "tot confirmed" ELSE "tot not_confirmed")
  /\ candidate' = "search"
  /\ UNCHANGED <<route, chain, verified, tested, reply>>

\* verifyWithHypothesis: at the cap one hypothesis that merely stands vouches for the answer too.
VerifyWithHypothesis ==
  /\ candidate # "" /\ tested = "" /\ reply = ""
  /\ tested' \in {"converged", "standing", "human"}
  /\ IF tested' = "human"
     THEN /\ path' = path \o <<"hypothesis completed", "escalate completed">>
          /\ reply' = "escalated"
     ELSE path' = Append(path, "hypothesis completed") /\ reply' = candidate
  /\ UNCHANGED <<route, chain, verified, bestPath, candidate>>

Next ==
  \/ RouteQuery \/ ModelFails \/ SolveSimple \/ ReasonWithCOT \/ VerifyStep \/ FinishChain
  \/ Search \/ ConfirmBestPath \/ VerifyWithHypothesis
Spec == Init /\ [][Next]_adaptiveVars

-----------------------------------------------------------------------------
TypeOK ==
  /\ verified \in 0..Len(chain) /\ Len(path) <= 4
  /\ reply \in {"", "error", "direct", "chain", "search", "escalated"}

\* No answer on trust: an answer to a question that was not simple has been verified step by
\* step with confidence in each of them, or has been through the hypothesis loop, and the path
\* says which; a human is asked exactly when the loop does.
NothingOnTrust ==
  /\ reply \in {"chain", "search"} =>
       \/ tested \in {"converged", "standing"} /\ "hypothesis completed" \in ToSet(path)
       \/ reply = "chain" /\ verified = Len(chain)
            /\ \A i \in DOMAIN chain : ~chain[i].invalid /\ chain[i].confidence >= Threshold
  /\ reply = "escalated" <=> "escalate completed" \in ToSet(path)
  /\ reply = "escalated" => tested = "human"
=============================================================================
