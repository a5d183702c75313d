-------------------------- MODULE GuardrailSandwich --------------------------
(***************************************************************************)
(* action/guardrail: a middleware between model and tools.  It hides tools *)
(* from the model, judges every call before it is executed and takes what  *)
(* is sensitive out of what comes back.                                    *)
(***************************************************************************)
EXTENDS Integers, Sequences

CONSTANTS
  Tools, AllowedTools,        \* AllowedTools = {} allows all of them
  Risk,                       \* ClassifyRisk: what arguments do to a tool, [tool, args -> level]
  AutoApprove, RequireHuman,  \* risk levels
  MaxToolRounds               \* MaxIterations

VARIABLES
  approver,  \* what it will say: "grants", "denies", "fails", or "none" is configured
  offered,   \* state.ToolInfos of the last model call
  calls,     \* tool calls judged: [tool, args, verdict, executed]
  transcript,  \* state.Messages: [role, sensitive]
  guarded    \* "asking", "calling", "final", "done" or "failed"

guardVars == <<approver, offered, calls, transcript, guarded>>

\* The arguments of a call: harmless, with a URL in them, or matching a blocked pattern.
Args == {"plain", "url", "blocked"}
Message(role, sensitive) == [role |-> role, sensitive |-> sensitive]

Init ==
  /\ approver \in {"grants", "denies", "fails", "none"}
  /\ offered = Tools /\ calls = <<>> /\ guarded = "asking"
  /\ \E sensitive \in BOOLEAN : transcript = <<Message("user", sensitive)>>

Allowed(t) == AllowedTools = {} \/ t \in AllowedTools
\* A call to the model, answered with at most one call: BeforeModelRewriteState hides tools,
\* AfterModelRewriteState redacts the answer.  A model may still name a tool it was not offered.
Ask ==
  /\ guarded = "asking"
  /\ offered' = {t \in Tools : Allowed(t)}
  /\ transcript' = Append(transcript, Message("assistant", FALSE))
  /\ guarded' \in {"calling", "final"}
  /\ UNCHANGED <<approver, calls>>

EvaluateHumanFirst(tool, args) ==   \* mutant: an approver may overrule the patterns
  LET risk == Risk[<<tool, args>>]
  IN IF risk \in RequireHuman
     THEN IF approver = "fails" THEN "error" ELSE IF approver = "grants" THEN "approved" ELSE "refused"
     ELSE IF Allowed(tool) /\ args # "blocked" /\ risk \in AutoApprove THEN "approved" ELSE "refused"
\* Policy.Evaluate; an error of the approver is an error of the tool.
Evaluate(tool, args) ==
  LET risk == Risk[<<tool, args>>]
  IN CASE ~Allowed(tool) \/ args = "blocked" -> "refused"
       [] Allowed(tool) /\ args # "blocked" /\ risk \in AutoApprove -> "approved"
       [] OTHER -> IF risk \notin RequireHuman \/ approver \in {"none", "denies"} THEN "refused"
                   ELSE IF approver = "fails" THEN "error" ELSE "approved"

\* WrapInvokableToolCall: a refusal is reported to the model, output is redacted, an error ends
\* the run.
CallTool ==
  /\ guarded = "calling"
  /\ \E tool \in Tools, args \in Args, fails \in BOOLEAN :
       LET verdict == Evaluate(tool, args)
           executed == verdict = "approved"
       IN /\ calls' = Append(calls, [tool |-> tool, args |-> args, verdict |-> verdict,
                                     executed |-> executed])
          /\ IF verdict = "error" \/ (executed /\ fails)
             THEN guarded' = "failed" /\ UNCHANGED transcript
             ELSE /\ guarded' = IF Len(calls') >= MaxToolRounds THEN "failed" ELSE "asking"
                  /\ transcript' = Append(transcript, Message("tool", FALSE))
  /\ UNCHANGED <<approver, offered>>

RedactLast(ms) == [ms EXCEPT ![Len(ms)].sensitive = FALSE]    \* mutant: the last message only
Redact(ms) == [i \in DOMAIN ms |-> Message(ms[i].role, FALSE)]
\* AfterAgent, when the model has answered without a call.
Finish ==
  /\ guarded = "final" /\ guarded' = "done"
  /\ transcript' = Redact(transcript)
  /\ UNCHANGED <<approver, offered, calls>>

Next == Ask \/ CallTool \/ Finish
Spec == Init /\ [][Next]_guardVars

-----------------------------------------------------------------------------
TypeOK ==
  /\ offered \subseteq Tools /\ guarded \in {"asking", "calling", "final", "done", "failed"}
  /\ Len(calls) <= MaxToolRounds

\* Nothing is executed that is not allowed, matches a blocked pattern or should have been asked
\* about and was not granted, and neither a tool's output nor the messages of a finished run
\* hold anything sensitive.
ExecutedIsAllowed ==
  /\ \A i \in DOMAIN calls : calls[i].executed =>
       /\ AllowedTools # {} => calls[i].tool \in AllowedTools
       /\ calls[i].args # "blocked"
       /\ Risk[<<calls[i].tool, calls[i].args>>] \in AutoApprove \/ approver = "grants"
  /\ \A i \in DOMAIN transcript : guarded = "done" \/ transcript[i].role = "tool" => ~transcript[i].sensitive
=============================================================================
