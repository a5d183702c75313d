------------------------------ MODULE SelfHeal ------------------------------
(***************************************************************************)
(* reflection/selfheal and its command: the loop that lets models diagnose *)
(* a failure and propose a fix, applies it, replays the business cases and *)
(* keeps, retries or rolls back, over the support-SOP policy of            *)
(* cmd/self-heal-agent.                                                    *)
(***************************************************************************)
EXTENDS Integers, Sequences

CONSTANT MaxIterations

VARIABLES
  policy,     \* supportSOPScenario.policy, and snapshots by commit id below
  snapshots,
  proposal,   \* the FixDiff under review, by the changes Apply recognises in it
  commits,    \* commit ids this Heal applied, oldest first
  iteration,
  failure,    \* the current FailureSignal: severity and number of affected files
  outcome     \* "idle", "propose", "apply", "verify", "rollback" or how Heal returned

healVars == <<policy, snapshots, proposal, commits, iteration, failure, outcome>>

FirstPolicy == [version |-> 1, window |-> 0, escalation |-> FALSE, limit |-> 0, audit |-> TRUE]
Gap == [kind |-> "gap", severity |-> 2, files |-> 1]
Regression == [kind |-> "regression", severity |-> 4, files |-> 3]
None == [kind |-> "none", severity |-> 0, files |-> 0]

\* What a FixDiff can say: which of the known changes occur in its text.
FixDiffs == [window : BOOLEAN, escalation : BOOLEAN, limit : {0, 200, 500}]
Unrecognized == [window |-> FALSE, escalation |-> FALSE, limit |-> 0]

Terminal == {"fixed", "blocked", "rolled_back", "human_handoff", "error"}

Init ==
  /\ policy = FirstPolicy /\ snapshots = [v \in {} |-> FirstPolicy]
  /\ proposal = Unrecognized /\ commits = << >>
  /\ iteration = 0 /\ failure = Gap /\ outcome = "idle"

\* Heal(defaultSupportSOPFailure()).
Start ==
  /\ outcome = "idle"
  /\ outcome' = "propose"
  /\ UNCHANGED <<policy, snapshots, proposal, commits, iteration, failure>>

\* Diagnoser, fix generator and critic: an error of any of them, or an empty diff,
\* ends Heal with an error; a blocking verdict ends it with StatusBlocked.
Propose ==
  /\ outcome = "propose"
  /\ \/ proposal' \in FixDiffs /\ outcome' = "apply"
     \/ outcome' \in {"error", "blocked"} /\ UNCHANGED proposal
  /\ UNCHANGED <<policy, snapshots, commits, iteration, failure>>

\* Scenario.Apply: the snapshot is stored before the diff is recognised.
Changed(p, diff) ==
  [version    |-> p.version + 1,
   window     |-> IF diff.window THEN 24 ELSE p.window,
   escalation |-> p.escalation \/ diff.escalation,
   limit      |-> IF diff.limit = 0 THEN p.limit ELSE diff.limit,
   audit      |-> IF diff.limit = 0 THEN p.audit ELSE diff.limit = 200]

ApplyKeepingOldSnapshots ==                 \* mutant: the snapshot is not stored
  /\ outcome = "apply"
  /\ LET commit == policy.version + 1 IN
     /\ \/ /\ proposal = Unrecognized
           /\ outcome' = "error"
           /\ UNCHANGED <<policy, commits>>
        \/ /\ proposal # Unrecognized
           /\ policy' = Changed(policy, proposal)
           /\ commits' = Append(commits, commit)
           /\ outcome' = "verify"
  /\ UNCHANGED <<snapshots, proposal, iteration, failure>>
Apply ==
  /\ outcome = "apply"
  /\ LET commit == policy.version + 1 IN
     /\ snapshots' = [v \in DOMAIN snapshots \cup {commit} |->
                        IF v = commit THEN policy ELSE snapshots[v]]
     /\ \/ /\ proposal = Unrecognized
           /\ outcome' = "error"
           /\ UNCHANGED <<policy, commits>>
        \/ /\ proposal # Unrecognized
           /\ policy' = Changed(policy, proposal)
           /\ commits' = Append(commits, commit)
           /\ outcome' = "verify"
  /\ UNCHANGED <<proposal, iteration, failure>>

\* Scenario.Verify replays the business cases on the policy in force.
Replay(p) ==
  IF p.limit > 300 \/ ~p.audit THEN Regression
  ELSE IF p.window < 24 \/ ~p.escalation \/ p.limit <= 0 THEN Gap
  ELSE None

IsRegression(old, new) ==
  new.severity > old.severity \/ new.files > 2 * old.files

\* The verifier's answer: fixed, rolled back, or the failure of the next iteration.
Verify ==
  /\ outcome = "verify"
  /\ LET new == Replay(policy) IN
     \/ new = None /\ outcome' = "fixed" /\ UNCHANGED <<iteration, failure>>
     \/ /\ new # None /\ new.kind # Gap.kind /\ IsRegression(failure, new)
        /\ outcome' = "rollback" /\ UNCHANGED <<iteration, failure>>
     \/ /\ new # None /\ (new.kind = Gap.kind \/ ~IsRegression(failure, new))
        /\ failure' = new /\ iteration' = iteration + 1
        /\ outcome' = IF iteration' = MaxIterations THEN "human_handoff" ELSE "propose"
  /\ UNCHANGED <<policy, snapshots, proposal, commits>>

\* rollbackCommits, one commit at a time and the newest first; the first error
\* of the Rollbacker ends Heal and leaves the older commits applied.
RollbackOldestFirst ==                      \* mutant: the loop runs forwards
  /\ outcome = "rollback"
  /\ \/ /\ commits # << >>
        /\ policy' = snapshots[commits[1]]
        /\ commits' = Tail(commits) /\ UNCHANGED outcome
     \/ outcome' = "error" /\ commits # << >> /\ UNCHANGED <<policy, commits>>
     \/ outcome' = "rolled_back" /\ commits = << >> /\ UNCHANGED <<policy, commits>>
  /\ UNCHANGED <<snapshots, proposal, iteration, failure>>
Rollback ==
  /\ outcome = "rollback"
  /\ \/ /\ commits # << >>
        /\ policy' = snapshots[commits[Len(commits)]]
        /\ commits' = SubSeq(commits, 1, Len(commits) - 1) /\ UNCHANGED outcome
     \/ outcome' = "error" /\ commits # << >> /\ UNCHANGED <<policy, commits>>
     \/ outcome' = "rolled_back" /\ commits = << >> /\ UNCHANGED <<policy, commits>>
  /\ UNCHANGED <<snapshots, proposal, iteration, failure>>

Next == Start \/ Propose \/ Apply \/ Verify \/ Rollback

---------------------------------------------------------------------------

TypeOK ==
  /\ iteration \in 0..MaxIterations
  /\ outcome \in {"idle", "propose", "apply", "verify", "rollback"} \cup Terminal
  /\ \A i \in 1..Len(commits) : commits[i] \in DOMAIN snapshots
  /\ failure \in {Gap, Regression}

\* Whatever the models propose, and whatever the iteration: a Heal that says it
\* rolled back leaves the policy it found, one that says fixed leaves a policy that
\* passes the replay, and no Heal that returns normally leaves an unreviewed or
\* excessive compensation in force.
OutcomeTellsThePolicy ==
  /\ outcome = "rolled_back" => policy = FirstPolicy
  /\ outcome = "fixed" => Replay(policy) = None
  /\ outcome \in Terminal \ {"error"} => Replay(policy) # Regression
=============================================================================
