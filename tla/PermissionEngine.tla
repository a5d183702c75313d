-------------------------- MODULE PermissionEngine --------------------------
(***************************************************************************)
(* How action/claude_permissions decides one tool call: the verdicts of    *)
(* the PreToolUse hooks, the configured rules that match the call, the     *)
(* tool's own check and the permission mode are merged into one behaviour. *)
(* Reasons and sources are left out.                                       *)
(***************************************************************************)
EXTENDS Naturals, Sequences

Behavior == {"allow", "ask", "deny"}
PermissionMode == {"default", "plan", "acceptEdits", "dontAsk", "bypassPermissions"}
Passthrough == ""      \* no opinion

\* One call of a registered tool: what each hook answers, the behaviours of the
\* rules that match it in the order of the configuration, the tool's check and
\* whether its ask is BypassImmune (CheckToolPermissions refuses other marks).
Call(hooks, rules) ==
  [mode : PermissionMode, hooks : hooks, rules : rules,
   check : [behavior : Behavior \cup {Passthrough}, immune : {FALSE}]
           \cup {[behavior |-> "ask", immune |-> TRUE]}]

Priority == [b \in Behavior \cup {Passthrough} |->
              CASE b = "deny" -> 3 [] b = "ask" -> 2 [] b = "allow" -> 1 [] OTHER -> 0]

\* authorize keeps the strongest verdict while it runs the hooks in order.
LastHookDecision(hooks) ==             \* mutant: a later opinion replaces an earlier one
  LET merged[n \in 0 .. Len(hooks)] ==
        IF n = 0 THEN Passthrough
        ELSE IF hooks[n] # Passthrough THEN hooks[n] ELSE merged[n - 1]
  IN merged[Len(hooks)]
HookDecision(hooks) ==
  LET merged[n \in 0 .. Len(hooks)] ==
        IF n = 0 THEN Passthrough
        ELSE IF Priority[hooks[n]] > Priority[merged[n - 1]] THEN hooks[n] ELSE merged[n - 1]
  IN merged[Len(hooks)]

\* strongestMatchingRule: one pass over the rules for each behaviour.
HasRule(rules, b) == \E i \in DOMAIN rules : rules[i] = b
FirstMatchingRule(rules) == IF rules = <<>> THEN Passthrough ELSE rules[1]  \* mutant: the first match wins
StrongestMatchingRule(rules) ==
  IF HasRule(rules, "deny") THEN "deny"
  ELSE IF HasRule(rules, "ask") THEN "ask"
  ELSE IF HasRule(rules, "allow") THEN "allow" ELSE Passthrough

ApplyDontAsk(mode, b) == IF mode = "dontAsk" /\ b = "ask" THEN "deny" ELSE b

\* Evaluate: the order of its early returns.
Evaluate(c) ==
  LET hook == HookDecision(c.hooks)
      rule == StrongestMatchingRule(c.rules)
  IN IF "deny" \in {hook, rule, c.check.behavior} THEN "deny"
     ELSE IF rule = "ask" THEN "ask"
     ELSE IF c.check.immune THEN ApplyDontAsk(c.mode, "ask")
     ELSE IF "allow" \in {rule, hook} THEN "allow"
     ELSE IF hook = "ask" THEN ApplyDontAsk(c.mode, "ask")
     ELSE IF c.mode = "bypassPermissions" \/ c.check.behavior = "allow" THEN "allow"
     ELSE ApplyDontAsk(c.mode, "ask")

\* The same call with one more objection, from any of the three sources.
Stricter(c) ==
  {[c EXCEPT !.hooks = Append(@, b)] : b \in {"ask", "deny"}}
  \cup {[c EXCEPT !.hooks = <<b>> \o @] : b \in {"ask", "deny"}}
  \cup {[c EXCEPT !.rules = Append(@, b)] : b \in {"ask", "deny"}}
  \cup {[c EXCEPT !.rules = <<b>> \o @] : b \in {"ask", "deny"}}
  \cup {[c EXCEPT !.check = [behavior |-> "deny", immune |-> FALSE]]}
  \cup {[c EXCEPT !.check = [behavior |-> "ask", immune |-> TRUE]] :
          k \in {c.check} \ {[behavior |-> "deny", immune |-> FALSE]}}
=============================================================================
