--------------------------- MODULE HypothesisLoop ---------------------------
(***************************************************************************)
(* reasoning/hypothesis: every iteration the planner proposes hypotheses,  *)
(* and evidence is gathered and judged for each that is active.  The loop  *)
(* ends with one confirmed survivor or at its cap.                         *)
(***************************************************************************)
EXTENDS FiniteSets, Integers, Sequences, SequencesExt

CONSTANTS
  Explanations,              \* descriptions, each with its own id
  MaxHypotheses, MaxEvidence, MaxRounds

VARIABLES
  hypotheses, \* id -> prior is in posterior; status "unknown" is not in the tree
  order,      \* HypothesisTree.order
  active,     \* the active ones still to visit in this iteration, in the order of the tree
  evidence,   \* candidates still to judge for the first of them
  round,      \* iteration
  ending,    \* "running" or how the loop ended
  settled     \* status of those judged at the end of an iteration (an observer)

hypothesisVars == <<hypotheses, order, active, evidence, round, ending, settled>>

\* Probabilities are 0, 1 (a half) and 2 (at least 0.9).
Likely == 2
Clamp(p) == IF p < 0 THEN 0 ELSE IF p > Likely THEN Likely ELSE p
Unknown == [status |-> "unknown", posterior |-> 0, falsifiedBy |-> FALSE]
Running == "running"

Init ==
  /\ hypotheses = [e \in Explanations |-> Unknown] /\ order = <<>>
  /\ active = {} /\ evidence = 0 /\ round = 0 /\ ending = Running /\ settled = {}

ActiveUnlessRefuted ==                      \* mutant: confirmed ones too
  {e \in ToSet(order') : hypotheses'[e].status # "falsified"}
Active == {e \in ToSet(order') : hypotheses'[e].status \notin {"falsified", "confirmed"}}
Visited ==
  LET places == {i \in DOMAIN order : order[i] \in active}
  IN order[CHOOSE i \in places : \A j \in places : i <= j]
Confirmed == {e \in Explanations : hypotheses[e].status = "confirmed"}
Survivors == {e \in Explanations : hypotheses[e].status \notin {"unknown", "falsified"}}

\* The round is over: nothing is left to visit and it has not been judged yet.
RoundDone == round > 0 /\ active = {} /\ ending = Running
Judged == {[id |-> e, status |-> hypotheses[e].status] : e \in
             {x \in Explanations : hypotheses[x].status \in {"confirmed", "falsified"}}}
Converged == Cardinality(Confirmed) = 1 /\ Cardinality(Survivors) = 1

\* The planner; what is in the tree already is filtered out (limitPlanner, Add).
Plan ==
  /\ ending = Running /\ active = {} /\ evidence = 0
  /\ round < MaxRounds /\ ~(round > 0 /\ Converged)
  /\ round' = round + 1 /\ settled' = settled \cup Judged
  /\ \E proposals \in SeqOf({e \in Explanations : hypotheses[e] = Unknown}, MaxHypotheses) :
       \E prior \in [ToSet(proposals) -> 1..Likely] :
         /\ IsInjective(proposals)
         /\ order' = order \o proposals
         /\ hypotheses' = [e \in Explanations |-> IF e \notin ToSet(proposals) THEN hypotheses[e]
              ELSE [Unknown EXCEPT !.status = "proposed", !.posterior = prior[e]]]
  /\ active' = Active
  /\ evidence' = 0 /\ UNCHANGED ending

\* The generator (limitGenerator); one that finds nothing moves on.
Gather ==
  /\ ending = Running /\ active # {} /\ evidence = 0
  /\ \E found \in 0..MaxEvidence :
       /\ evidence' = found
       /\ active' = IF found = 0 THEN active \ {Visited} ELSE active
  /\ UNCHANGED <<hypotheses, order, round, ending, settled>>

RecordEvidence(h, effect, delta) ==
  LET posterior == Clamp(h.posterior + delta)
      tested    == IF h.status = "proposed" THEN "testing" ELSE h.status
  IN [posterior |-> posterior,
      falsifiedBy |-> h.falsifiedBy \/ effect = "refutes",
      status |-> CASE effect = "refutes" -> "falsified"
                   [] effect = "supports" -> IF posterior >= Likely THEN "confirmed" ELSE tested
                   [] effect = "neutral" -> tested]

\* The evaluator judges the next piece of evidence, whatever the ones before have shown.
Evaluate ==
  /\ evidence > 0
  /\ \E effect \in {"supports", "refutes", "neutral"}, delta \in -1..1 :
       hypotheses' = [hypotheses EXCEPT ![Visited] = RecordEvidence(@, effect, delta)]
  /\ evidence' = evidence - 1
  /\ active' = IF evidence = 1 THEN active \ {Visited} ELSE active
  /\ UNCHANGED <<order, round, ending, settled>>

\* convergenceOutcome, or capOutcome in the last round.
Conclude ==
  /\ RoundDone /\ (Converged \/ round = MaxRounds)
  /\ ending' = IF Converged THEN "converged"
       ELSE IF Cardinality(Survivors) = 1 THEN "standing" ELSE "human"
  /\ settled' = settled \cup Judged
  /\ UNCHANGED <<hypotheses, order, active, evidence, round>>

\* A call to a model fails, or its answer cannot be parsed.
RoleFails ==
  /\ ending = Running /\ ~(RoundDone /\ (Converged \/ round = MaxRounds))
  /\ ending' = "failed" /\ active' = {} /\ evidence' = 0
  /\ UNCHANGED <<hypotheses, order, round, settled>>

Next == Plan \/ Gather \/ Evaluate \/ Conclude \/ RoleFails

Spec == Init /\ [][Next]_hypothesisVars

-----------------------------------------------------------------------------
TypeOK ==
  /\ active \subseteq ToSet(order) /\ evidence \in 0..MaxEvidence
  /\ ToSet(order) = {e \in Explanations : hypotheses[e] # Unknown}

\* What an iteration has confirmed or refuted is not tested again, and the ending says how
\* many are left: a human is asked unless exactly one stands.
VerdictsStand ==
  /\ \A s \in settled : hypotheses[s.id].status = s.status
  /\ ending \in {"converged", "standing"} => Cardinality(Survivors) = 1
  /\ ending = "human" => Cardinality(Survivors) # 1
  /\ ending = "converged" => Confirmed = Survivors

\* "最终只相信“唯一没有被反证、且已被确认”的幸存假设" (reasoning/hypothesis/README.md): what
\* the loop converges on has not been refuted.
ConvergedIsUnrefuted ==
  ending = "converged" => \A e \in Confirmed : ~hypotheses[e].falsifiedBy
=============================================================================
