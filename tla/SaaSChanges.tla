----------------------------- MODULE SaaSChanges -----------------------------
(***************************************************************************)
(* The production changes of action/claude_permissions: five tools over a  *)
(* tenant store, each with its own check, behind the permission engine.    *)
(* The model calls them with any arguments, in any order; a call that has  *)
(* to ask waits for a person while others go on.                           *)
(***************************************************************************)
EXTENDS PermissionEngine, FiniteSets

CONSTANTS
  SaaSTenants, LockedTenants,   \* tenant ids; the spellings of TENANT-LOCKED
  Flags, SecurityFlags,     \* flags; the spellings of security_enforcement
  Operators,                \* the calls that may be under way
  MaxEffects

VARIABLES
  permissions,       \* the agent's mode and rules: what matches each tool
  featureFlags, \* InMemorySaaSExecutor: [tenant, flag] -> "on", "off" or "unset"
  notices, deleted,
  operations,   \* per operator: the call and where it is
  approved      \* the changes a person has granted, of those made (an observer)

saasVars == <<permissions, featureFlags, notices, deleted, operations, approved>>

ToolNames == {"inspect", "plan", "apply", "notice", "delete"}
NoArgs == [tool |-> "", tenant |-> "", flag |-> "", text |-> ""]
Arguments ==
  [tool : {"inspect", "delete"}, tenant : SaaSTenants \cup {""}, flag : {""}, text : {""}]
  \cup [tool : {"plan", "notice"}, tenant : SaaSTenants \cup {""}, flag : {""}, text : {"", "plain", "secret"}]
  \cup [tool : {"apply"}, tenant : SaaSTenants \cup {""}, flag : Flags \cup {""}, text : {""}]
NoOperation == [at |-> "idle", args |-> NoArgs, human |-> FALSE]

\* DefaultSaaSPermissionRules, no rules, or rules that allow everything.
RuleSets == {[t \in ToolNames |-> IF t = "delete" THEN <<"deny">> ELSE <<>>],
             [t \in ToolNames |-> <<>>], [t \in ToolNames |-> <<"allow">>]}

Init ==
  /\ permissions \in [mode : PermissionMode, rules : RuleSets]
  /\ featureFlags = [p \in SaaSTenants \X Flags |-> "unset"]
  /\ notices = {} /\ deleted = {} /\ approved = {}
  /\ operations = [o \in Operators |-> NoOperation]

Verdict(b) == [behavior |-> b, immune |-> FALSE]
ImmuneAsk == [behavior |-> "ask", immune |-> TRUE]
CheckInspect(a) == IF a.tenant = "" THEN Verdict("deny") ELSE Verdict("allow")
CheckDraft(a) == IF "" \in {a.tenant, a.text} THEN Verdict("deny") ELSE Verdict("allow")
CheckApplyByMode(a, mode) ==        \* mutant: acceptEdits is looked at before the security flag
  IF "" \in {a.tenant, a.flag} \/ a.tenant \in LockedTenants \/ mode = "plan" THEN Verdict("deny")
  ELSE IF mode = "acceptEdits" THEN Verdict("allow")
  ELSE IF a.flag \in SecurityFlags THEN ImmuneAsk ELSE Verdict("ask")
CheckApply(a, mode) ==
  IF "" \in {a.tenant, a.flag} \/ a.tenant \in LockedTenants \/ mode = "plan" THEN Verdict("deny")
  ELSE IF a.flag \in SecurityFlags THEN ImmuneAsk
  ELSE IF mode = "acceptEdits" THEN Verdict("allow") ELSE Verdict("ask")
CheckNotice(a, mode) ==
  IF "" \in {a.tenant, a.text} \/ mode = "plan" \/ a.text = "secret" THEN Verdict("deny") ELSE ImmuneAsk
Check(a, mode) ==
  CASE a.tool = "inspect" -> CheckInspect(a)
    [] a.tool = "plan"    -> CheckDraft(a)
    [] a.tool = "apply"   -> CheckApply(a, mode)
    [] a.tool = "notice"  -> CheckNotice(a, mode)
    [] OTHER              -> Verdict("deny")

\* authorize: hooks, the rules of the tool, its check and the mode.  The pre-tool hook may allow.
Authorize(o) ==
  /\ operations[o].at = "idle"
  /\ \E a \in Arguments, hook \in {Passthrough, "allow"} :
       LET decision == Evaluate([mode |-> permissions.mode, hooks |-> <<hook>>,
                                 rules |-> permissions.rules[a.tool], check |-> Check(a, permissions.mode)])
       IN /\ decision # "deny"          \* a denied call goes back to the model and changes nothing
          /\ operations' = [operations EXCEPT ![o] = [at |-> decision, args |-> a, human |-> FALSE]]
  /\ UNCHANGED <<permissions, featureFlags, notices, deleted, approved>>

Answer(o) ==
  /\ operations[o].at = "ask"
  /\ operations' \in {[operations EXCEPT ![o].at = "allow", ![o].human = TRUE],
                      [operations EXCEPT ![o] = NoOperation]}
  /\ UNCHANGED <<permissions, featureFlags, notices, deleted, approved>>

\* What the executor does for the call; reading and planning change nothing.
ApplyFeatureFlag(a) ==
  /\ a.tool = "apply" /\ a.tenant # "" /\ a.flag # ""
  /\ \E value \in {"on", "off"} : featureFlags' = [featureFlags EXCEPT ![<<a.tenant, a.flag>>] = value]
  /\ UNCHANGED <<notices, deleted>>
SendChangeNotice(a) ==
  /\ a.tool = "notice" /\ "" \notin {a.tenant, a.text}
  /\ notices' = notices \cup {a} /\ UNCHANGED <<featureFlags, deleted>>
DeleteTenant(a) ==
  /\ a.tool = "delete" /\ a.tenant # ""
  /\ featureFlags' = [p \in SaaSTenants \X Flags |-> IF p[1] = a.tenant THEN "unset" ELSE featureFlags[p]]
  /\ deleted' = deleted \cup {a.tenant} /\ UNCHANGED notices
ReadOnly(a) == a.tool \in {"inspect", "plan"} /\ UNCHANGED <<featureFlags, notices, deleted>>

Run(o) ==
  /\ operations[o].at = "allow" /\ Cardinality(approved) < MaxEffects
  /\ LET a == operations[o].args IN
       /\ ApplyFeatureFlag(a) \/ SendChangeNotice(a) \/ DeleteTenant(a) \/ ReadOnly(a)
       /\ approved' = IF operations[o].human THEN approved \cup {a} ELSE approved
  /\ operations' = [operations EXCEPT ![o] = NoOperation]
  /\ UNCHANGED permissions

Next == \E o \in Operators : Authorize(o) \/ Answer(o) \/ Run(o)
Spec == Init /\ [][Next]_saasVars

-----------------------------------------------------------------------------
TypeOK ==
  /\ featureFlags \in [SaaSTenants \X Flags -> {"on", "off", "unset"}]
  /\ \A o \in Operators : operations[o].at \in {"idle", "ask", "allow"}

\* Whatever the mode, the rules and the hooks allow: no tenant is deleted, a locked tenant keeps
\* its flags, a person has granted every notice and every change of a security flag, no notice has
\* a secret, and in plan mode nothing changes at all.
ChangesAreApproved ==
  /\ deleted = {} /\ notices \subseteq approved
  /\ \A a \in notices : a.text # "secret"
  /\ \A t \in SaaSTenants, f \in Flags : featureFlags[<<t, f>>] # "unset" =>
       /\ t \notin LockedTenants /\ permissions.mode # "plan"
       /\ f \in SecurityFlags => \E a \in approved : a.tool = "apply" /\ a.tenant = t /\ a.flag = f
  /\ permissions.mode = "plan" => notices = {}
  /\ \A o \in Operators : operations[o].at = "allow" => operations[o].args.tool # "delete"
=============================================================================
