----------------------------- MODULE FirstAnswer -----------------------------
(***************************************************************************)
(* What action/claude_permissions promises a tool call that has to ask:    *)
(* the first answer counts, it is the only one, and nothing but the        *)
(* caller's own cancellation makes the question fail.                      *)
(***************************************************************************)
CONSTANT Calls

VARIABLES
  asked,      \* the calls that had to ask
  cancelled,  \* the calls whose context is done
  answer,     \* the answer that was accepted, "none" before
  outcome     \* what the call got: an answer, "error", "none" before

vars == <<asked, cancelled, answer, outcome>>

Init ==
  /\ asked = {} /\ cancelled = {}
  /\ answer = [c \in Calls |-> "none"]
  /\ outcome = [c \in Calls |-> "none"]

\* The policy alone decides, or one of its hooks or checks fails.
Decide(c, o) ==
  /\ c \notin asked /\ outcome[c] = "none"
  /\ outcome' = [outcome EXCEPT ![c] = o]
  /\ UNCHANGED <<asked, cancelled, answer>>

Ask(c) ==
  /\ c \notin asked /\ outcome[c] = "none"
  /\ asked' = asked \cup {c}
  /\ UNCHANGED <<cancelled, answer, outcome>>

\* Somebody answers; nothing is said of what became of the call meanwhile.
Accept(c, a) ==
  /\ c \in asked /\ answer[c] = "none"
  /\ answer' = [answer EXCEPT ![c] = a]
  /\ UNCHANGED <<asked, cancelled, outcome>>

Return(c) ==
  /\ answer[c] # "none" /\ outcome[c] = "none"
  /\ outcome' = [outcome EXCEPT ![c] = answer[c]]
  /\ UNCHANGED <<asked, cancelled, answer>>

Cancel(c) ==
  /\ cancelled' = cancelled \cup {c}
  /\ UNCHANGED <<asked, answer, outcome>>

Fail(c) ==
  /\ c \in asked \cap cancelled /\ outcome[c] = "none"
  /\ outcome' = [outcome EXCEPT ![c] = "error"]
  /\ UNCHANGED <<asked, cancelled, answer>>

Next ==
  \E c \in Calls :
    \/ \E o \in {"allow", "deny", "error"} : Decide(c, o)
    \/ \E a \in {"allow", "deny"} : Accept(c, a)
    \/ Ask(c) \/ Return(c) \/ Cancel(c) \/ Fail(c)

Spec == Init /\ [][Next]_vars
=============================================================================
