---------------------------- MODULE SkillRegistry ----------------------------
(***************************************************************************)
(* reflection/skillmode and the command that runs it: skills are released  *)
(* as immutable versions behind aliases, a run is given the version its    *)
(* backend resolves, and the outcomes of runs decide whether a version is  *)
(* still offered.  One skill; a release is a new backend on the same       *)
(* health store.                                                           *)
(***************************************************************************)
EXTENDS FiniteSets, Integers, Sequences

CONSTANTS
  Versions,          \* the versions that can be built
  SkillTenants,      \* tenants with an alias of their own, besides ""
  SkillRuns,         \* runs of the agent
  MinimumSamples, Window, MaxEvents, MaxClock

VARIABLES
  aliases,   \* of the newest backend: tenant -> version or NoAlias
  outcomes,    \* MemorySkillHealthStore.events, with what the run was served (an observer)
  clock,
  skillRuns  \* run -> what its backend, which no release changes, resolves; how far it is

skillVars == <<aliases, outcomes, clock, skillRuns>>

NoAlias == "none"
Viewpoints == SkillTenants \cup {""}
IdleRun == [at |-> "idle", resolved |-> NoAlias, served |-> NoAlias,
            seen |-> 0, time |-> 0]

Init ==
  /\ aliases = [t \in Viewpoints |-> NoAlias] /\ outcomes = <<>> /\ clock = 0
  /\ skillRuns = [r \in SkillRuns |-> IdleRun]

\* NewRegistryBackend: there is an alias, and every alias points to an artifact of the
\* manifest; another manifest is refused.
Release ==
  /\ aliases' \in [Viewpoints -> Versions \cup {NoAlias}]
  /\ \E t \in Viewpoints : aliases'[t] # NoAlias
  /\ UNCHANGED <<outcomes, clock, skillRuns>>

\* resolveAlias: the tenant's alias, else the channel's.
ResolveAlias(tenant) == IF aliases[tenant] # NoAlias THEN aliases[tenant] ELSE aliases[""]
ResolvedNow(r) == ResolveAlias("")                            \* mutant: the alias of today
Resolved(r) == skillRuns[r].resolved

\* Evaluate: the events of the window that speak about the version, and their success rate,
\* compared in percent.
InWindow(version) ==
  {i \in DOMAIN outcomes : outcomes[i].version = version /\ outcomes[i].at \in (clock - Window)..clock}
EvaluableAll(es) == es                                          \* mutant: not_applicable counts
Evaluable(es) == {i \in es : outcomes[i].outcome # "not_applicable"}
Health(version) ==
  LET samples   == Evaluable(InWindow(version))
      successes == {i \in samples : outcomes[i].outcome = "success"}
      below(percent) == 100 * Cardinality(successes) < percent * Cardinality(samples)
  IN IF Cardinality(samples) < MinimumSamples THEN "healthy"
     ELSE IF below(50) THEN "deprecated"
     ELSE IF below(75) THEN "degraded"
     ELSE IF below(90) THEN "watch" ELSE "healthy"

\* NewRunner on the newest backend, and List: a run whose tenant sees no alias, or whose
\* version is deprecated, answers without the skill; the first has nothing to record.
StartRun(r) ==
  /\ skillRuns[r].at = "idle"
  /\ \E t \in Viewpoints :
       /\ ResolveAlias(t) # NoAlias
       /\ skillRuns' = [skillRuns EXCEPT
            ![r].at = IF Health(ResolveAlias(t)) = "deprecated" THEN "answer" ELSE "load",
            ![r].resolved = ResolveAlias(t)]
  /\ UNCHANGED <<aliases, outcomes, clock>>

\* Get, if the model calls the skill: it checks the health again.
GetSkill(r) ==
  /\ skillRuns[r].at = "load"
  /\ skillRuns' = [skillRuns EXCEPT ![r] =
       IF Health(Resolved(r)) = "deprecated"
       THEN [@ EXCEPT !.at = "refused", !.seen = Len(outcomes), !.time = clock]
       ELSE [@ EXCEPT !.at = "answer", !.served = Resolved(r)]]
  /\ UNCHANGED <<aliases, outcomes, clock>>
SkipSkill(r) ==
  /\ skillRuns[r].at = "load"
  /\ skillRuns' = [skillRuns EXCEPT ![r].at = "answer"]
  /\ UNCHANGED <<aliases, outcomes, clock>>

\* recordCommandSkillOutcome: without a version of its own the event gets the one the run's
\* backend resolves, whether the run has loaded the skill or not.
RecordOutcome(r) ==
  /\ skillRuns[r].at \in {"answer", "refused"} /\ Len(outcomes) < MaxEvents
  /\ \E outcome \in IF skillRuns[r].at = "refused" THEN {"tool_error"}
                    ELSE {"success", "tool_error", "not_applicable"} :
       outcomes' = Append(outcomes, [version |-> Resolved(r), outcome |-> outcome, at |-> clock,
                                 served |-> skillRuns[r].served])
  /\ skillRuns' = [skillRuns EXCEPT ![r] = IdleRun]
  /\ UNCHANGED <<aliases, clock>>

Tick == clock < MaxClock /\ clock' = clock + 1 /\ UNCHANGED <<aliases, outcomes, skillRuns>>

Next ==
  \/ Release \/ Tick
  \/ \E r \in SkillRuns :
       StartRun(r) \/ GetSkill(r) \/ SkipSkill(r) \/ RecordOutcome(r)

Spec == Init /\ [][Next]_skillVars

-----------------------------------------------------------------------------
TypeOK ==
  /\ aliases \in [Viewpoints -> Versions \cup {NoAlias}]
  /\ \A r \in SkillRuns : {skillRuns[r].served, skillRuns[r].resolved} \subseteq Versions \cup {NoAlias}

\* An outcome counts for the version the run was served, whatever was released meanwhile.
OutcomeGoesToTheServed ==
  \A i \in DOMAIN outcomes : outcomes[i].served \in {NoAlias, outcomes[i].version}

\* A version is refused for cause: when the run asked, enough outcomes of the window spoke
\* about it and most of them were failures.
RefusedForCause ==
  \A r \in SkillRuns : skillRuns[r].at = "refused" =>
    LET said == {i \in 1..skillRuns[r].seen :
                   /\ outcomes[i].version = Resolved(r)
                   /\ outcomes[i].at \in (skillRuns[r].time - Window)..skillRuns[r].time}
        good == {i \in said : outcomes[i].outcome = "success"}
        bad  == {i \in said : outcomes[i].outcome = "tool_error"}
    IN /\ Cardinality(bad) > Cardinality(good)
       /\ Cardinality(good \cup bad) >= MinimumSamples
=============================================================================
