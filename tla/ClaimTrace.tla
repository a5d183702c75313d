----------------------------- MODULE ClaimTrace -----------------------------
(***************************************************************************)
(* reasoning/cot_v2 and its command: a model drafts claims, the program    *)
(* binds evidence to each, and gates let a decision through once every     *)
(* claim has passed.                                                       *)
(***************************************************************************)
EXTENDS FiniteSets, Integers, Sequences

CONSTANT MaxClaims

VARIABLES
  drafts, \* StepDraftList.Steps
  steps,  \* ClaimTrace.Steps
  checking, \* the next step of TraceRunner.Run, 0 while the trace is built
  stop,   \* StopReason, "" while it runs
  decided \* the step FinalDecision is of, 0 for none

claimVars == <<drafts, steps, checking, stop, decided>>

Kinds == {"observe", "decompose", "derive", "verify", "decide"}
\* Text is abstracted to what the gates ask of it: a subject and a predicate, one claim.
Draft == [kind : Kinds, structured : BOOLEAN, single : BOOLEAN]

Init == drafts = <<>> /\ steps = <<>> /\ checking = 0 /\ stop = "" /\ decided = 0

\* generateStepDrafts, ParseStepDraftList
Generate ==
  /\ drafts = <<>> /\ stop = ""
  /\ \/ (\E n \in 1..MaxClaims : drafts' \in [1..n -> Draft]) /\ UNCHANGED stop
     \/ stop' = "error" /\ UNCHANGED drafts
  /\ UNCHANGED <<steps, checking, decided>>

\* inferDependsOn
DependsOn(i) ==
  CASE i = 1 \/ drafts[i].kind = "observe" -> {}
    [] i > 1 /\ drafts[i].kind = "decide" -> 1..(i - 1)
    [] OTHER -> {i - 1}

\* What a callback finds: evidence of retrieval and logs, the result of a tool, which needs
\* evidence of earlier steps.  Binding adds the default validator.
Prior == \E i \in DOMAIN steps : steps[i].evidence
Binding(kind, found) ==
  [evidence  |-> found /\ kind \in {"observe", "derive", "verify"},
   action    |-> found /\ kind = "derive",
   validator |-> CASE kind = "verify" -> "evidence_exists"
                   [] kind = "decide" -> "decision_dependencies_gate" [] OTHER -> ""]
ValidateBinding(kind, b) ==
  /\ kind \in {"observe", "derive", "verify"} => b.evidence
  /\ kind = "derive" => b.action

\* ResolveEvidence and Compile of the next draft; an error gives up the trace.
BuildStep ==
  /\ checking = 0 /\ stop = "" /\ Len(steps) < Len(drafts)
  /\ LET i == Len(steps) + 1
         d == drafts[i]
     IN \E found \in BOOLEAN :
          LET b == Binding(d.kind, found)
          IN IF ValidateBinding(d.kind, b) /\ (d.kind = "derive" => Prior) /\ d.structured
             THEN /\ steps' = Append(steps, [kind |-> d.kind, single |-> d.single,
                        deps |-> DependsOn(i), evidence |-> b.evidence, action |-> b.action,
                        validator |-> b.validator, status |-> "draft"])
                  /\ UNCHANGED stop
             ELSE stop' = "error" /\ UNCHANGED steps
  /\ UNCHANGED <<drafts, checking, decided>>

StartRun ==
  /\ checking = 0 /\ stop = "" /\ drafts # <<>> /\ Len(steps) = Len(drafts)
  /\ checking' = 1
  /\ UNCHANGED <<drafts, steps, stop, decided>>

ValidateStepShape(s) ==
  /\ s.single
  /\ s.kind = "observe" => s.evidence /\ s.deps = {}
  /\ s.kind = "decompose" => s.deps # {} /\ ~s.evidence
  /\ s.kind = "derive" => s.deps # {} /\ s.action
  /\ s.kind = "verify" => s.evidence /\ s.validator # ""
  /\ s.kind = "decide" => s.deps # {} /\ s.validator # ""
DependenciesPassed(s) == \A d \in s.deps : steps[d].status = "passed"
\* ValidatorRegistry.Run with the validators the command registers.
Validated(s) ==
  CASE s.validator = "evidence_exists" -> s.evidence
    [] s.validator = "decision_dependencies_gate" -> TRUE
    [] OTHER -> FALSE
LastPassedDecision ==
  LET passed == {i \in DOMAIN steps : steps[i].kind = "decide" /\ steps'[i].status = "passed"}
  IN IF passed = {} THEN 0 ELSE CHOOSE i \in passed : \A j \in passed : j <= i
DecisionAfterAny(reason) == LastPassedDecision   \* mutant: a later failure does not withdraw it
DecisionAfter(reason) == IF reason = "" /\ checking = Len(steps) THEN LastPassedDecision ELSE 0

\* TraceRunner.Run: the first step that does not pass ends it.
RunStep ==
  /\ checking > 0 /\ stop = ""
  /\ LET s == steps[checking]
         reason == IF ~ValidateStepShape(s) THEN "invalid_step_shape"
                   ELSE IF ~DependenciesPassed(s) THEN "dependency_not_passed"
                   ELSE IF s.kind \in {"verify", "decide"} /\ ~Validated(s) THEN "step_failed"
                   ELSE ""
         last == reason = "" /\ checking = Len(steps)
     IN /\ steps' = [steps EXCEPT ![checking].status = IF reason = "" THEN "passed" ELSE "needs_review"]
        /\ decided' = DecisionAfter(reason)
        /\ stop' = IF ~last THEN reason
                   ELSE IF decided' = 0 THEN "no_decision_step" ELSE "all_required_claims_verified"
        /\ checking' = IF last \/ reason # "" THEN checking ELSE checking + 1
  /\ UNCHANGED drafts

Next == Generate \/ BuildStep \/ StartRun \/ RunStep
Spec == Init /\ [][Next]_claimVars

-----------------------------------------------------------------------------
TypeOK ==
  /\ Len(steps) <= Len(drafts) /\ checking \in 0..Len(steps)
  /\ decided \in {i \in DOMAIN steps : steps[i].kind = "decide"} \cup {0}

\* What is decided is grounded: every claim of the trace has passed, those after the decision
\* too, it is not the first, and there is evidence wherever something is observed, derived or
\* verified.
DecisionIsGrounded ==
  decided # 0 =>
    /\ \A i \in DOMAIN steps : steps[i].status = "passed"
    /\ decided > 1 /\ steps[1].evidence
    /\ \A i \in DOMAIN steps : steps[i].kind \in {"observe", "derive", "verify"} => steps[i].evidence
=============================================================================
