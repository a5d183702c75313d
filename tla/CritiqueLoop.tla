---------------------------- MODULE CritiqueLoop ----------------------------
(***************************************************************************)
(* reflection/critique: GeneratorCriticLoop.Refine generates a plan, has   *)
(* it criticised and generates it again from the criticism, until it is    *)
(* good enough or the iterations are used up.                              *)
(***************************************************************************)
EXTENDS Integers, Sequences, SequencesExt

CONSTANTS MaxCritiques, QualityThreshold, Perfect  \* maxIterations; scores are 0..Perfect

VARIABLES
  output,   \* [draft, basis]: which generation it is, the critique it was given; draft 0 for none
  critiques,  \* IterationRecords: [draft, score, approved, tool]
  refined   \* "" while it runs, then "converged", "exhausted" or "error"

critiqueVars == <<output, critiques, refined>>

Init == output = [draft |-> 0, basis |-> 0] /\ critiques = <<>> /\ refined = ""

Regenerated == [draft |-> output.draft + 1, basis |-> Len(critiques)]

\* Generate, at first without a context.
GenerateFirst ==
  /\ output.draft = 0 /\ refined = ""
  /\ output' = Regenerated /\ UNCHANGED <<critiques, refined>>

\* A round: the checklist tool reports, the critic scores, and either is enough to approve.
Criticised == Len(critiques) = output.draft
Critique ==
  /\ output.draft > 0 /\ refined = "" /\ ~Criticised
  /\ \E approves, tool \in BOOLEAN, score \in 0..Perfect :
       LET approved == approves \/ score >= QualityThreshold
       IN /\ critiques' = Append(critiques, [draft |-> output.draft, score |-> score,
                                         approved |-> approved, tool |-> tool])
          /\ refined' = IF approved THEN "converged" ELSE ""
  /\ UNCHANGED output

GoesOnAlways == TRUE                       \* mutant: the last round generates too
GoesOn == Len(critiques) < MaxCritiques      \* i < a.maxIterations-1
Regenerate ==
  /\ output.draft > 0 /\ refined = "" /\ Criticised
  /\ IF GoesOn THEN output' = Regenerated ELSE UNCHANGED output
  /\ refined' = IF Len(critiques) = MaxCritiques THEN "exhausted" ELSE ""
  /\ UNCHANGED critiques

\* The generator or the critic fails, or what the critic says is no JSON: no output at all.
ModelFails ==
  /\ refined = "" /\ (Criticised => output.draft = 0 \/ GoesOn)
  /\ refined' = "error" /\ UNCHANGED <<output, critiques>>

Next == GenerateFirst \/ Critique \/ Regenerate \/ ModelFails
Spec == Init /\ [][Next]_critiqueVars

-----------------------------------------------------------------------------
TypeOK ==
  /\ Len(critiques) <= output.draft /\ Len(critiques) <= MaxCritiques
  /\ refined \in {"", "converged", "exhausted", "error"}

\* The plan handed out is the one the reported score and critique are about, each plan was made
\* from the criticism of the one before, and none but the last was approved.
OutputIsReviewed ==
  /\ refined \in {"converged", "exhausted"} =>
       /\ critiques # <<>> /\ Last(critiques).draft = output.draft
       /\ Last(critiques).approved <=> refined = "converged"
  /\ output.basis = output.draft - 1 \/ output.draft = 0
  /\ \A i \in DOMAIN critiques : critiques[i].approved => i = Len(critiques)
=============================================================================
