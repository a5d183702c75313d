--------------------------- MODULE ReportPipeline ---------------------------
(***************************************************************************)
(* What one run of the research swarm promises its user, without           *)
(* processes, mailboxes or tasks: the searcher's cards, the analysis and   *)
(* the report are saved in this order, and the run succeeds only when all  *)
(* of them are.                                                            *)
(***************************************************************************)
VARIABLES
  saved,    \* whose artifact is in the store
  outcome   \* "none", "done" or "failed"

vars == <<saved, outcome>>

Before == [searcher |-> {}, analyst |-> {"searcher"}, writer |-> {"searcher", "analyst"}]

Init == saved = {} /\ outcome = "none"

\* Also after the run has failed: a worker may be slower than the leader.
Save(w) ==
  /\ w \notin saved
  /\ Before[w] \subseteq saved
  /\ saved' = saved \cup {w}
  /\ UNCHANGED outcome

Succeed ==
  /\ outcome = "none"
  /\ saved = DOMAIN Before
  /\ outcome' = "done"
  /\ UNCHANGED saved

\* Also after success: the leader may crash before it has returned.
Fail ==
  /\ outcome' = "failed"
  /\ UNCHANGED saved

Next == (\E w \in DOMAIN Before : Save(w)) \/ Succeed \/ Fail

Spec == Init /\ [][Next]_vars
=============================================================================
