----------------------------- MODULE MCDesigns -----------------------------
(***************************************************************************)
(* The smaller systems of the repository in one run.  They share nothing:  *)
(* Init chooses which of them runs and the others stay as they start, so   *)
(* that the states are the sum of their states and each property is that  *)
(* of its module.                                                          *)
(***************************************************************************)
EXTENDS MemoryProofs, TLC

VARIABLE design

\* hr and everybody else read p1, everybody else reads p2; one question of hr.
ReadersOfPages == ("p1" :> {"hr", "all"}) @@ ("p2" :> {"all"})
GoldenQuestions == {[roles |-> {"hr"}, expected |-> {"p1"}, forbidden |-> {"p2"}, none |-> FALSE]}
UserScopes == {{"u"}, {"u", "a"}}
RouteToPolicy == [k \in {"k1"} |-> "policy"]
RiskOfCall == [p \in Tools \X {"plain", "url", "blocked"} |->
  IF p[2] = "blocked" THEN "critical" ELSE IF p[1] = "notice" \/ p[2] = "url" THEN "high" ELSE "low"]

SlugOfTopic == ("A b" :> "a-b") @@ ("a-b" :> "a-b") @@ ("c" :> "c") @@ ("../d" :> "")
Proposed(scope, kind, topic, secret, text) ==
  [scope |-> scope, kind |-> kind, topic |-> topic, secret |-> secret, text |-> text]
\* A secret of one's own, preferences and a secret for the team, two topics with one file name
\* and one without.
ProposedMemories == {
  Proposed("private", "user", "A b", TRUE, "t"), Proposed("team", "user", "c", FALSE, "t"),
  Proposed("team", "project", "A b", FALSE, "t"), Proposed("team", "project", "a-b", FALSE, "u"),
  Proposed("team", "project", "c", FALSE, "v"), Proposed("team", "project", "c", TRUE, "w"),
  Proposed("private", "project", "../d", FALSE, "t")}
\* z reads both keys, and its result lacks what it binds second.
RefsOfCall == ("x" :> {"k1"}) @@ ("y" :> {"k2"}) @@ ("z" :> {"k1", "k2"})
OutputsOfCall == ("x" :> <<"k2">>) @@ ("y" :> <<"k1", "k2">>) @@ ("z" :> <<"k2", "k1">>)
FieldsOfResult == ("x" :> {"k2"}) @@ ("y" :> {"k1", "k2"}) @@ ("z" :> {"k2"})
\* Every outcome on safe and unsafe input, and red team and regression samples.
LabelledDecisions ==
  [unsafe : BOOLEAN, outcome : {"allow", "block", "fallback", "human_review", "redact", "error"},
   triggered : {TRUE}, attack : {"none"}, regression : {"none"}, retried : BOOLEAN, error : {""}, risk : {"high"}]
  \cup [unsafe : {TRUE}, outcome : {"allow", "error"}, triggered : {FALSE}, attack : {"held", "through"},
         regression : {"none", "passed", "failed"}, retried : {FALSE}, error : {"timeout"}, risk : {""}]
ActualCall(tool, covers, wrong, schema, status, error) ==
  [tool |-> tool, necessary |-> covers # "", covers |-> covers, wrong |-> wrong, schema |-> schema,
   entity |-> schema, status |-> status, content |-> tool = "a", relevant |-> ~wrong,
   used |-> tool = "a", error |-> error]
ActualCalls == {
  ActualCall("a", "e1", FALSE, "valid", "success", ""), ActualCall("b", "e1", FALSE, "invalid", "skipped", ""),
  ActualCall("b", "", FALSE, "none", "timeout", ""), ActualCall("a", "e2", FALSE, "valid", "timeout", "x"),
  ActualCall("c", "e3", TRUE, "none", "error", "")}
ExpectedCalls == {<<>>, <<[id |-> "e1", tools |-> {"a"}]>>,
  <<[id |-> "e1", tools |-> {"a"}], [id |-> "e2", tools |-> {"a", "b"}]>>}
LabelledTasks == [expected : ExpectedCalls, actual : UNION {[1..n -> ActualCalls] : n \in 0..2},
                  available : BOOLEAN, used : {TRUE}]
MemoryText(scope, value, semantic, keyword) ==
  [scope |-> scope, value |-> value, semantic |-> semantic, keyword |-> keyword]
RowsOfMem0 == {MemoryText({"u"}, v, p[1], p[2]) : v \in 0..2, p \in {<<1, 0>>, <<2, 0>>, <<2, 1>>}}
  \cup {MemoryText({"u", "a"}, 1, p[1], p[2]) : p \in {<<1, 0>>, <<2, 0>>, <<2, 1>>}}
SearchFor(q, k, threshold, scope, op, value) ==
  [query |-> q, topK |-> k, threshold |-> threshold, scope |-> scope, op |-> op, value |-> value]
\* Every operator and one that is not known, limits and thresholds, and what is refused.
SearchesOfMem0 ==
  {SearchFor("q", 0, 0, {"u"}, op, 1) : op \in
     {"none", "*", "eq", "ne", "contains", "in", "nin", "gt", "gte", "lt", "lte", "is"}}
  \cup {SearchFor("q", k, t, {"u", "a"}, "none", 0) : k \in {1, 2}, t \in {0, 2}}
  \cup {SearchFor("", 0, 0, {"u"}, "none", 0), SearchFor("q", -1, 0, {"u"}, "none", 0),
        SearchFor("q", 0, 3, {"u"}, "none", 0), SearchFor("q", 0, 0, {}, "none", 0)}
RecallTrigger(families, tools, keys, categories) ==
  [families |-> families, tools |-> tools, keys |-> keys, categories |-> categories]
EvidenceOf(state, workspace, observations) ==
  [state |-> state, workspace |-> workspace, observations |-> observations, narrative |-> {}]
FailureOf(category, status, reviewed, told, triggers, proof, semantic) ==
  [family |-> "f", category |-> category, status |-> status, reviewed |-> reviewed, told |-> told,
   recall |-> triggers, evidence |-> proof, semantic |-> semantic]
\* Triggers with and without evidence, strong and weak, near and far from the query, and
\* entries that are not approved, not reviewed or not told.
DraftedFailures ==
  {FailureOf("c", "approved", TRUE, TRUE, r, e, s) :
     r \in {RecallTrigger({"f"}, {}, {}, {}), RecallTrigger({"g"}, {"t"}, {}, {}),
            RecallTrigger({}, {}, {"k1"}, {}), RecallTrigger({}, {}, {"k1", "k2"}, {}),
            RecallTrigger({}, {}, {}, {"c"}), RecallTrigger({}, {}, {}, {})},
     e \in {EvidenceOf({"k1"}, {"t"}, {}), EvidenceOf({}, {}, {"t"}), EvidenceOf({}, {}, {})},
     s \in {2, 8}}
  \cup {FailureOf("c", st, reviewed, told, RecallTrigger({"f"}, {}, {}, {}), EvidenceOf({"k1"}, {}, {}), 8) :
     st \in {"", "draft", "approved"}, reviewed \in BOOLEAN, told \in BOOLEAN}
RecallFor(family, tool, keys, categories, q, k) ==
  [family |-> family, tool |-> tool, keys |-> keys, categories |-> categories, query |-> q, topK |-> k]
RecallsBeforeTool ==
  {RecallFor("f", "", {}, {}, "", 0), RecallFor("", "t", {}, {}, "", 0), RecallFor("", "", {"k1"}, {}, "", 2),
   RecallFor("", "", {"k1", "k2"}, {}, "", 1), RecallFor("f", "t", {"k1"}, {"c"}, "q", 0),
   RecallFor("", "", {}, {"c"}, "", 0), RecallFor("", "", {}, {}, "q", 2), RecallFor("", "", {}, {}, "", 1)}
LayerEntry(layer, confidence, tokens) == [layer |-> layer, confidence |-> confidence, tokens |-> tokens]
LayerEntries == {LayerEntry("policy", 0, 2), LayerEntry("task", 1, 1), LayerEntry("task", 2, 1),
                 LayerEntry("task", 2, 2), LayerEntry("scratchpad", 1, 1)}
BudgetsOfLayers == [l \in {"policy", "project", "user", "task", "scratchpad"} |->
                      IF l = "scratchpad" THEN 1 ELSE 3]
\* The tasks have an override, the scratchpad's default takes one entry.
ConfiguredBudgets == [l \in {"policy", "project", "user", "task", "scratchpad"} |->
                        IF l = "task" THEN 2 ELSE 0]
\* Keys of up to two marks, escaped ones too, and objects in objects.
Marks == {<<"char">>, <<"lbrace">>, <<"rbrace">>, <<"escape", "quote">>, <<"escape", "escape">>}
FlatObjects == {<<"lbrace", "rbrace">>} \cup
  {<<"lbrace", "quote">> \o key \o <<"quote", "char", "rbrace">> :
     key \in {<<>>} \cup Marks \cup {u \o v : u \in Marks, v \in Marks}}
RepliedObjects == FlatObjects \cup {<<"lbrace", "quote", "quote", "char">> \o o \o <<"rbrace">> : o \in FlatObjects}
ProseAround == {<<>>, <<"char">>, <<"quote">>, <<"rbrace">>, <<"lbrace", "rbrace">>, <<"lbrace", "char", "rbrace">>}
  \X {<<>>, <<"char">>, <<"rbrace">>, <<"quote", "lbrace">>}

vars == <<design, turnloop, heal, dfs, tiers, failures, progress, rag, mem0, layered,
  compaction, supporting, triageVars, treeVars, hypothesisVars, skillVars, claimVars,
  adaptiveVars, replayVars, critiqueVars, trajectoryVars, guardVars, fusionVars, topicVars,
  transcriptVars, orchestratorVars, saasVars, metricVars, searchVars, recallVars,
  contextVars, replyVars>>

Init ==
  /\ design \in {"turnloop", "selfheal", "dfs", "hierarchical", "failures", "progress",
       "rag", "mem0", "layered", "context", "support", "triage", "tot", "hypothesis",
       "skills", "claims", "adaptive", "replay", "critique", "thinking", "guardrail",
       "fusion", "topics", "transcript", "orchestrator", "saas", "metrics", "mem0_search",
       "recall", "assembly", "json"}
  /\ TL!Init
  /\ SH!Init
  /\ DFS!Init
  /\ HM!Init
  /\ FJ!Init
  /\ PL!Init
  /\ RR!Init
  /\ M0!Init
  /\ LM!Init
  /\ CC!Init
  /\ SC!Init
  /\ CT!Init
  /\ TT!Init
  /\ HL!Init
  /\ SK!Init
  /\ CL!Init
  /\ AR!Init
  /\ ER!Init
  /\ CR!Init
  /\ TH!Init
  /\ GS!Init
  /\ MF!Init
  /\ TS!Init
  /\ TR!Init
  /\ TO!Init
  /\ SA!Init
  /\ MX!Init
  /\ MS!Init
  /\ FR!Init
  /\ LC!Init
  /\ JR!Init
  /\ design = "triage" \/ <<tenant, docs>> = <<"t", {}>>
  /\ design = "tot" \/ method = "beam"
  /\ design = "thinking" \/ thinking = TRUE
  /\ design = "metrics" \/ scoring = "guardrail"
  /\ design = "guardrail" \/ <<approver, transcript>> = <<"none", <<GS!Message("user", FALSE)>>>>
  /\ design = "fusion" \/ ocr = TRUE
  /\ design = "orchestrator" \/ mechanical = [k \in StateKeys |-> ""]
  /\ design = "saas" \/ permissions = [mode |-> "default", rules |-> [t \in SA!ToolNames |-> <<>>]]

OthersStay ==
  /\ UNCHANGED design
  /\ IF design = "turnloop" THEN TRUE ELSE UNCHANGED turnloop
  /\ IF design = "selfheal" THEN TRUE ELSE UNCHANGED heal
  /\ IF design = "dfs" THEN TRUE ELSE UNCHANGED dfs
  /\ IF design = "hierarchical" THEN TRUE ELSE UNCHANGED tiers
  /\ IF design = "failures" THEN TRUE ELSE UNCHANGED failures
  /\ IF design = "progress" THEN TRUE ELSE UNCHANGED progress
  /\ IF design = "rag" THEN TRUE ELSE UNCHANGED rag
  /\ IF design = "mem0" THEN TRUE ELSE UNCHANGED mem0
  /\ IF design = "layered" THEN TRUE ELSE UNCHANGED layered
  /\ IF design = "context" THEN TRUE ELSE UNCHANGED compaction
  /\ IF design = "support" THEN TRUE ELSE UNCHANGED supporting
  /\ IF design = "triage" THEN TRUE ELSE UNCHANGED triageVars
  /\ IF design = "tot" THEN TRUE ELSE UNCHANGED treeVars
  /\ IF design = "hypothesis" THEN TRUE ELSE UNCHANGED hypothesisVars
  /\ IF design = "skills" THEN TRUE ELSE UNCHANGED skillVars
  /\ IF design = "claims" THEN TRUE ELSE UNCHANGED claimVars
  /\ IF design = "adaptive" THEN TRUE ELSE UNCHANGED adaptiveVars
  /\ IF design = "replay" THEN TRUE ELSE UNCHANGED replayVars
  /\ IF design = "critique" THEN TRUE ELSE UNCHANGED critiqueVars
  /\ IF design = "thinking" THEN TRUE ELSE UNCHANGED trajectoryVars
  /\ IF design = "guardrail" THEN TRUE ELSE UNCHANGED guardVars
  /\ IF design = "fusion" THEN TRUE ELSE UNCHANGED fusionVars
  /\ IF design = "topics" THEN TRUE ELSE UNCHANGED topicVars
  /\ IF design = "transcript" THEN TRUE ELSE UNCHANGED transcriptVars
  /\ IF design = "orchestrator" THEN TRUE ELSE UNCHANGED orchestratorVars
  /\ IF design = "saas" THEN TRUE ELSE UNCHANGED saasVars
  /\ IF design = "metrics" THEN TRUE ELSE UNCHANGED metricVars
  /\ IF design = "mem0_search" THEN TRUE ELSE UNCHANGED searchVars
  /\ IF design = "recall" THEN TRUE ELSE UNCHANGED recallVars
  /\ IF design = "assembly" THEN TRUE ELSE UNCHANGED contextVars
  /\ IF design = "json" THEN TRUE ELSE UNCHANGED replyVars

Next ==
  \/ design = "turnloop" /\ TL!Next /\ OthersStay
  \/ design = "selfheal" /\ SH!Next /\ OthersStay
  \/ design = "dfs" /\ DFS!Next /\ OthersStay
  \/ design = "hierarchical" /\ HM!Next /\ OthersStay
  \/ design = "failures" /\ FJ!Next /\ OthersStay
  \/ design = "progress" /\ PL!Next /\ OthersStay
  \/ design = "rag" /\ RR!Next /\ OthersStay
  \/ design = "mem0" /\ M0!Next /\ OthersStay
  \/ design = "layered" /\ LM!Next /\ OthersStay
  \/ design = "context" /\ CC!Next /\ OthersStay
  \/ design = "support" /\ SC!Next /\ OthersStay
  \/ design = "triage" /\ CT!Next /\ OthersStay
  \/ design = "tot" /\ TT!Next /\ OthersStay
  \/ design = "hypothesis" /\ HL!Next /\ OthersStay
  \/ design = "skills" /\ SK!Next /\ OthersStay
  \/ design = "claims" /\ CL!Next /\ OthersStay
  \/ design = "adaptive" /\ AR!Next /\ OthersStay
  \/ design = "replay" /\ ER!Next /\ OthersStay
  \/ design = "critique" /\ CR!Next /\ OthersStay
  \/ design = "thinking" /\ TH!Next /\ OthersStay
  \/ design = "guardrail" /\ GS!Next /\ OthersStay
  \/ design = "fusion" /\ MF!Next /\ OthersStay
  \/ design = "topics" /\ TS!Next /\ OthersStay
  \/ design = "transcript" /\ TR!Next /\ OthersStay
  \/ design = "orchestrator" /\ TO!Next /\ OthersStay
  \/ design = "saas" /\ SA!Next /\ OthersStay
  \/ design = "metrics" /\ MX!Next /\ OthersStay
  \/ design = "mem0_search" /\ MS!Next /\ OthersStay
  \/ design = "recall" /\ FR!Next /\ OthersStay
  \/ design = "assembly" /\ LC!Next /\ OthersStay
  \/ design = "json" /\ JR!Next /\ OthersStay

Spec == Init /\ [][Next]_vars /\ TL!Fairness

\* The state of every system has its type, and its bookkeeping agrees with itself.
TypeOK ==
  /\ design = "turnloop" => TL!TypeOK
  /\ design = "selfheal" => SH!TypeOK
  /\ design = "hierarchical" => HM!TypeOK
  /\ design = "failures" => FJ!TypeOK
  /\ design = "progress" => PL!TypeOK
  /\ design = "rag" => RR!TypeOK
  /\ design = "mem0" => M0!TypeOK
  /\ design = "layered" => LM!TypeOK
  /\ design = "context" => CC!TypeOK
  /\ design = "support" => SC!TypeOK
  /\ design = "triage" => CT!TypeOK
  /\ design = "tot" => TT!TypeOK
  /\ design = "hypothesis" => HL!TypeOK
  /\ design = "skills" => SK!TypeOK
  /\ design = "claims" => CL!TypeOK
  /\ design = "adaptive" => AR!TypeOK
  /\ design = "replay" => ER!TypeOK
  /\ design = "critique" => CR!TypeOK
  /\ design = "thinking" => TH!TypeOK
  /\ design = "guardrail" => GS!TypeOK
  /\ design = "fusion" => MF!TypeOK
  /\ design = "topics" => TS!TypeOK
  /\ design = "transcript" => TR!TypeOK
  /\ design = "orchestrator" => TO!TypeOK
  /\ design = "saas" => SA!TypeOK
  /\ design = "metrics" => MX!TypeOK
  /\ design = "mem0_search" => MS!TypeOK
  /\ design = "recall" => FR!TypeOK
  /\ design = "assembly" => LC!TypeOK
  /\ design = "json" => JR!TypeOK

\* The answer shown speaks of every message not answered before (SalesTurnLoop).
AnswerIsComplete == design = "turnloop" => TL!AnswerIsComplete

\* What Heal reports is what it leaves behind (SelfHeal).
OutcomeTellsThePolicy == design = "selfheal" => SH!OutcomeTellsThePolicy

\* The walk of the task graph accepts acyclic graphs and no other (TaskDependencyDFS).
VerdictIsAcyclic == design = "dfs" => DFS!VerdictIsAcyclic

\* What is consolidated, compacted, cut or written is found afterwards: entries of the
\* session, errors, what a summary leaves of a conversation, the last turn, what is kept as
\* an image and rows of tables, the messages of a transcript.
NothingIsForgotten ==
  /\ design = "hierarchical" => HM!NoEntryLost
  /\ design = "support" => SC!ErrorsStayVisible
  /\ design = "context" => CC!ResumeFindsEverything
  /\ design = "thinking" => TH!ResumesTheLastTurn
  /\ design = "fusion" => MF!NothingSilentlyDropped
  /\ design = "transcript" => TR!LoadHasAllAccepted

\* Two stores of one thing agree: vectors and documents, facts and rows, memory and disk,
\* memories and their index, values and the log of the calls that wrote them, a plan and
\* the record of its changes.
StoresKeepUp ==
  /\ design = "rag" => RR!VectorsMatchTheDocstore
  /\ design = "mem0" => M0!OneRowPerFact
  /\ design = "layered" => LM!DurableIsPersisted
  /\ design = "topics" => TS!WrittenStaysIndexed
  /\ design = "orchestrator" => TO!ValuesAreExplained
  /\ design = "progress" => PL!DeltaIsRecorded

\* A failure is recalled as it was reviewed, a collection is served once its gate has
\* passed, a skill is judged by the outcomes of the runs it was served to.
OnlyReviewedIsUsed ==
  /\ design = "failures" => FJ!RecallFollowsReview
  /\ design = "rag" => RR!ServedOnlyOncePassed
  /\ design = "skills" => SK!OutcomeGoesToTheServed

\* Nothing urgent gives way to what is less so, nothing certain to a guess, no match to a
\* worse one, and a handle stays with its tenant.
UrgentFirst ==
  /\ design = "triage" => CT!DroppedForTheUrgent
  /\ design = "triage" => CT!HandlesStayWithTheTenant
  /\ design = "assembly" => LC!AssembledByCertainty
  /\ design = "recall" => FR!TriggersComeFirst
  /\ design = "mem0_search" => MS!BestMatchesFound

\* What a loop or a gate goes by rests on what was done: the verdict on a hypothesis
\* stands, a lesson has its failures, a skill is refused for its outcomes, a score counts
\* each decision and call once, a search counts its answers.
LoopsKeepScore ==
  /\ design = "hypothesis" => HL!VerdictsStand
  /\ design = "replay" => ER!LessonsAreEarned
  /\ design = "skills" => SK!RefusedForCause
  /\ design = "metrics" => MX!ScoresAgree
  /\ design = "metrics" => MX!SharesAgree
  /\ design = "tot" => TT!SearchKeepsScore

\* What is read from a reply is the object in it, whole or not at all (JsonReply).
ResultsAddUp == design = "json" => JR!ExtractedIsTheObject

\* What leaves a pipeline has been through its gates: a decision, an answer, a plan, a
\* call, a change of production.
AnswersAreGrounded ==
  /\ design = "claims" => CL!DecisionIsGrounded
  /\ design = "adaptive" => AR!NothingOnTrust
  /\ design = "critique" => CR!OutputIsReviewed
  /\ design = "guardrail" => GS!ExecutedIsAllowed
  /\ design = "saas" => SA!ChangesAreApproved

\* Each message the customer sends is answered, unless the loop fails or is stopped
\* (SalesTurnLoop).
EveryMessageAnswered == TL!EveryMessageAnswered

---------------------------------------------------------------------------
(* A step of the whole is a step of the system that runs, so that the      *)
(* inductive invariants of DesignProofs carry over to Spec.                *)

LEMMA OneRuns ==
  ASSUME [Next]_vars
  PROVE  /\ design' = design
         /\ design = "selfheal" => [SH!Next]_heal
         /\ design = "turnloop" => [TL!Next]_turnloop
         /\ design = "dfs" => [DFS!Next]_dfs
         /\ design = "failures" => [FJ!Next]_failures
         /\ design = "rag" => [RR!Next]_rag
         /\ design = "mem0" => [M0!Next]_mem0
         /\ design = "layered" => [LM!Next]_layered
         /\ design = "topics" => [TS!Next]_topicVars
         /\ design = "skills" => [SK!Next]_skillVars
         /\ design = "claims" => [CL!Next]_claimVars
         /\ design = "adaptive" => [AR!Next]_adaptiveVars
         /\ design = "critique" => [CR!Next]_critiqueVars
         /\ design = "guardrail" => [GS!Next]_guardVars
         /\ design = "orchestrator" => [TO!Next]_orchestratorVars
         /\ design = "saas" => [SA!Next]_saasVars
         /\ design = "hierarchical" => [HM!Next]_tiers
         /\ design = "support" => [SC!Next]_supporting
         /\ design = "context" => [CC!Next]_compaction
         /\ design = "thinking" => [TH!Next]_trajectoryVars
         /\ design = "fusion" => [MF!Next]_fusionVars
         /\ design = "transcript" => [TR!Next]_transcriptVars
         /\ design = "hypothesis" => [HL!Next]_hypothesisVars
         /\ design = "replay" => [ER!Next]_replayVars
         /\ design = "metrics" => [MX!Next]_metricVars
         /\ design = "progress" => [PL!Next]_progress
         /\ design = "mem0_search" => [MS!Next]_searchVars
         /\ design = "recall" => [FR!Next]_recallVars
         /\ design = "assembly" => [LC!Next]_contextVars
         /\ design = "triage" => [CT!Next]_triageVars
         /\ design = "tot" => [TT!Next]_treeVars
         /\ design = "json" => [JR!Next]_replyVars
BY DEF Next, OthersStay, vars

\* Whatever the models propose and however many iterations are allowed: what Heal
\* reports is the policy it leaves (Verify and rollbackCommits of reflection/selfheal).
THEOREM HealTellsTheTruth == Spec => []OutcomeTellsThePolicy
<1> DEFINE Inv == design = "selfheal" => HealInv
<1>1. Init => Inv
  BY HealStarts DEF Init
<1>2. Inv /\ [Next]_vars => Inv'
  BY OneRuns, HealSteps
<1>3. Inv => OutcomeTellsThePolicy
  BY HealShows DEF OutcomeTellsThePolicy
<1> QED  BY <1>1, <1>2, <1>3, PTL DEF Spec

\* As long as one caller at a time pushes, no preemption, late completion or unread
\* answer makes a message fall out of the batch that is answered (prepareBatch,
\* markPreempted and markCompleted of cmd/turnloop-agent).
THEOREM NoMessageIsPassedOver == ASSUME Pushers = 1 PROVE Spec => []AnswerIsComplete
<1> DEFINE Inv == design = "turnloop" => ConversationInv
<1>1. Init => Inv
  BY ConversationStarts DEF Init
<1>2. Inv /\ [Next]_vars => Inv'
  BY OneRuns, ConversationSteps
<1>3. Inv => AnswerIsComplete
  BY ConversationShows DEF AnswerIsComplete
<1> QED  BY <1>1, <1>2, <1>3, PTL DEF Spec

\* For task lists of every size and every order of the roots: the walk accepts the
\* graphs without a cycle and no others (validateAcyclicDependencies), so that
\* ValidStoredDependencies of the store's modules may say Acyclic for it.
THEOREM WalkDecidesAcyclic == Spec => []VerdictIsAcyclic
<1> DEFINE Inv == design = "dfs" => WalkInv
<1>1. Init => Inv
  BY WalkStarts DEF Init
<1>2. Inv /\ [Next]_vars => Inv'
  BY OneRuns, WalkSteps
<1>3. Inv => VerdictIsAcyclic
  BY WalkShows DEF VerdictIsAcyclic
<1> QED  BY <1>1, <1>2, <1>3, PTL DEF Spec

\* For any number of entries, turns, inputs and messages, wherever a write or a call fails: an
\* entry keeps a tier or its row (memory/hierarchical), an old error is in sight or in the list of
\* what was dropped (perception/compaction), without a snip a message of a session is in the view of the next query
\* or a summary in it tells of it, unless it came while a summary was written, and a skill that was
\* attached is known after every restart (claude_compaction), a request resumes the last turn as it
\* was recorded (claude_native_thinking), what is to be kept as an image is a picture or a
\* note, unless OCR was asked for by name, and a table that is rendered as one tells of the rows it
\* leaves out if their number was reported (multimodal-fusion), and a transcript that loads has
\* every accepted message in order (claude_auto_memory).
THEOREM NothingGetsLost == Spec => []NothingIsForgotten
<1> DEFINE Inv == /\ design = "hierarchical" => TiersInv
                  /\ design = "support" => ErrorsInv
                  /\ design = "context" => CompactionInv
                  /\ design = "thinking" => TrajectoryInv
                  /\ design = "fusion" => FusionInv
                  /\ design = "transcript" => TranscriptInv
<1>1. Init => Inv
  BY TiersStart, ErrorsStart, CompactionStarts, TrajectoryStarts, FusionStarts, TranscriptStarts DEF Init
<1>2. Inv /\ [Next]_vars => Inv'
  BY OneRuns, TiersStep, ErrorsStep, CompactionSteps, TrajectorySteps, FusionSteps, TranscriptSteps
<1>3. Inv => NothingIsForgotten
  BY TiersShow, ErrorsShow, CompactionShows, TrajectoryShows, FusionShows, TranscriptShows DEF NothingIsForgotten
<1> QED  BY <1>1, <1>2, <1>3, PTL DEF Spec

\* However many rounds, traces, trees and runs: a verdict on a hypothesis is not taken back and the
\* loop ends as its hypotheses say (reasoning/hypothesis), a lesson has two failures or more behind it,
\* comes once a batch, and gives way only to better ones (reflection/replay), a version is
\* refused when most of the outcomes it was judged by were failures (reflection/skillmode), the
\* scores offline and online count each decision and call as one thing, so that complementary gates
\* agree and none passes on nothing (evaluation, observability/metrics), and a beam cuts no thought
\* for a worse one, while the visits of a node count the answers below it and its value is the mean
\* of their rewards (reasoning/tot).
THEOREM LoopsLearnFromWhatWasDone == Spec => []LoopsKeepScore
<1> DEFINE Inv == /\ design = "hypothesis" => VerdictsInv
                  /\ design = "replay" => LessonsInv
                  /\ design = "skills" => SkillsInv
                  /\ design = "metrics" => ScoresInv
                  /\ design = "tot" => TreeInv
<1>1. Init => Inv
  BY VerdictsStart, LessonsStart, SkillsStart, ScoresStart, TreeStarts DEF Init
<1>2. Inv /\ [Next]_vars => Inv'
  BY OneRuns, VerdictsStep, LessonsStep, SkillsStep, ScoresStep, TreeSteps
<1>3. Inv => LoopsKeepScore
  BY VerdictsShow, LessonsShow, SkillsShow, ScoresShow, TreeShows DEF LoopsKeepScore
<1> QED  BY <1>1, <1>2, <1>3, PTL DEF Spec

\* Whatever interleaves, fails or restarts: two stores of one thing agree. A collection has the
\* vectors of its documents unless a crash tore it (rag), a fact has one row but for calls that ran
\* together (mem0), the map is what a restart finds but for keys two calls wrote at a time
\* (hierarchical_v1), a topic written by an Upsert alone in its scope stays in the index
\* (claude_auto_memory), and a mechanical value is of a call that has its event, is writing, or
\* failed half way with its tool and arguments right, while an event names all its call read and
\* bound (StatefulToolOrchestrator). What a query changed in the plan has its value and its event when
\* the query answers (progress_tracking).
THEOREM StoresStayTrue == Spec => []StoresKeepUp
<1> DEFINE Inv == /\ design = "rag" => RagInv
                  /\ design = "mem0" => Mem0Inv
                  /\ design = "layered" => LayeredInv
                  /\ design = "topics" => TopicsInv
                  /\ design = "orchestrator" => ValuesInv
                  /\ design = "progress" => LedgerInv
<1>1. Init => Inv
  BY RagStarts, Mem0Starts, LayeredStarts, TopicsStart, ValuesStart, LedgerStarts DEF Init
<1>2. Inv /\ [Next]_vars => Inv'
  BY OneRuns, RagSteps, Mem0Steps, LayeredSteps, TopicsStep, ValuesStep, LedgerStep
<1>3. Inv => StoresKeepUp
  BY RagShows, Mem0Shows, LayeredShows, TopicsShow, ValuesShow, LedgerShows DEF StoresKeepUp
<1> QED  BY <1>1, <1>2, <1>3, PTL DEF Spec

\* However reviews, gates and activations interleave with what uses their results: a failure is
\* recalled as it was last reviewed (FailureJournal), a release serves what the gate passed
\* (memory/rag/release.py), and an outcome is counted for the version that was served (SkillRegistry).
THEOREM ReviewComesFirst == Spec => []OnlyReviewedIsUsed
<1> DEFINE Inv == /\ design = "failures" => FailuresInv
                  /\ design = "rag" => RagInv
                  /\ design = "skills" => SkillsInv
<1>1. Init => Inv
  BY FailuresStart, RagStarts, SkillsStart DEF Init
<1>2. Inv /\ [Next]_vars => Inv'
  BY OneRuns, FailuresStep, RagSteps, SkillsStep
<1>3. Inv => OnlyReviewedIsUsed
  BY FailuresShow, RagShows, SkillsShow DEF OnlyReviewedIsUsed
<1> QED  BY <1>1, <1>2, <1>3, PTL DEF Spec

\* For budgets, limits and journals of any size: an item is dropped only for what is at least as
\* urgent and a handle stays with its tenant (perception/triage), an entry is left out of the
\* context only for what is at least as certain (memory/hierarchical_v1), a failure is not recalled
\* only for as many that fit at least as well (failure_tracking), and a search leaves out nothing
\* better than what it returns (memory/mem0).
THEOREM UrgentComesFirst == Spec => []UrgentFirst
<1> DEFINE Inv == /\ design = "triage" => TriageInv
                  /\ design = "assembly" => ContextInv
                  /\ design = "recall" => AdviceInv
                  /\ design = "mem0_search" => SearchInv
<1>1. Init => Inv
  BY TriageStarts, ContextStarts, RecallStarts, SearchStarts DEF Init
<1>2. Inv /\ [Next]_vars => Inv'
  BY OneRuns, TriageSteps, ContextSteps, RecallSteps, SearchSteps
<1>3. Inv => UrgentFirst
  BY TriageShows, ContextShows, RecallShows, SearchShows DEF UrgentFirst
<1> QED  BY <1>1, <1>2, <1>3, PTL DEF Spec

\* For every number of rounds, claims, requests and calls: what leaves a pipeline rests on what was
\* checked - a decision on claims that all passed (cot_v2), an answer on each of its steps or on
\* the hypothesis loop (reasoning/compose), a plan on its own critique (critique), an executed call
\* on the tool policy (guardrail), a change of production on an approval (the SaaS example).
THEOREM AnswersStayGrounded == Spec => []AnswersAreGrounded
<1> DEFINE Inv == /\ design = "claims" => TraceInv
                  /\ design = "adaptive" => ReasoningInv
                  /\ design = "critique" => CritiqueInv
                  /\ design = "guardrail" => GuardInv
                  /\ design = "saas" => ChangesInv
<1>1. Init => Inv
  BY TraceStarts, ReasoningStarts, CritiqueStarts, GuardStarts, ChangesStart DEF Init
<1>2. Inv /\ [Next]_vars => Inv'
  BY OneRuns, TraceSteps, ReasoningSteps, CritiqueSteps, GuardSteps, ChangesStep
<1>3. Inv => AnswersAreGrounded
  BY TraceShows, ReasoningShows, CritiqueShows, GuardShows, ChangesShow DEF AnswersAreGrounded
<1> QED  BY <1>1, <1>2, <1>3, PTL DEF Spec

\* Whatever a model replies around an object, and whatever the strings in it hold: the scan of
\* reasoning/compose and its copies returns the object, whole, or nothing of one that is cut off,
\* and the shorter form of perception/compaction never takes another object for it.
THEOREM RepliesAreRead == Spec => []ResultsAddUp
<1> DEFINE Inv == design = "json" => JR!ExtractedIsTheObject
<1>1. Init => Inv
  BY RepliesStart DEF Init
<1>2. Inv /\ [Next]_vars => Inv'
  BY OneRuns, RepliesStep
<1>3. Inv => ResultsAddUp
  BY DEF ResultsAddUp
<1> QED  BY <1>1, <1>2, <1>3, PTL DEF Spec

\* The systems' types, ten at a time.
FirstTypes ==
  /\ design = "selfheal" => HealInv /\ HealTypes
  /\ design = "turnloop" => ConversationTypes
  /\ design = "hierarchical" => TiersInv /\ TierSizes
  /\ design = "failures" => FailuresInv /\ FailureTypes
  /\ design = "progress" => LedgerInv /\ LedgerTypes
  /\ design = "rag" => RagInv /\ RagFileTypes
  /\ design = "mem0" => Mem0Inv /\ Mem0Types
  /\ design = "layered" => LayeredInv /\ LayeredTypes
  /\ design = "context" => CompactionInv
  /\ design = "support" => ErrorsInv /\ AnchorOfTurns
SecondTypes ==
  /\ design = "triage" => TriageInv /\ TriageTypes
  /\ design = "tot" => TreeInv /\ Rewarded
  /\ design = "hypothesis" => VerdictsInv /\ HypothesisTypes
  /\ design = "skills" => SkillsInv
  /\ design = "claims" => TraceInv /\ ClaimTypes
  /\ design = "adaptive" => ReasoningInv /\ ReasoningTypes
  /\ design = "replay" => LessonsInv /\ LessonTypes
  /\ design = "critique" => CritiqueInv /\ CritiqueTypes
  /\ design = "thinking" => TrajectoryInv /\ TrajectoryTypes
  /\ design = "guardrail" => GuardInv /\ GuardTypes
ThirdTypes ==
  /\ design = "fusion" => FusionInv /\ FusionTypes
  /\ design = "topics" => TopicsInv /\ TopicsTypes
  /\ design = "transcript" => TranscriptInv /\ TranscriptTypes
  /\ design = "orchestrator" => ValuesInv /\ ValuesTypes
  /\ design = "saas" => ChangesInv /\ OperationsArePlaced
  /\ design = "metrics" => ScoresInv /\ OnlineShares
  /\ design = "mem0_search" => SearchInv /\ SearchTypes
  /\ design = "recall" => AdviceInv /\ RecallTypes
  /\ design = "assembly" => ContextInv
  /\ design = "json" => JR!TypeOK

LEMMA FirstTypesStart == Init => FirstTypes
BY HealStarts, HealTypesStart, ConversationTypesStart, TiersStart, TierSizesStart,
   FailuresStart, FailureTypesStart, LedgerStarts, LedgerTypesStart, RagStarts, RagFileTypesStart, Mem0Starts,
   Mem0TypesStart, LayeredStarts, LayeredTypesStart, CompactionStarts, ErrorsStart, AnchorStart
   DEF Init, FirstTypes

LEMMA FirstTypesStep == FirstTypes /\ [Next]_vars => FirstTypes'
<1> SUFFICES ASSUME FirstTypes, [Next]_vars PROVE FirstTypes'
  OBVIOUS
<1> USE OneRuns DEF FirstTypes
<1>1. design' = "selfheal" => HealInv' /\ HealTypes'
  BY HealSteps, HealTypesStep
<1>2. design' = "turnloop" => ConversationTypes'
  BY ConversationTypesStep
<1>3. design' = "hierarchical" => TiersInv' /\ TierSizes'
  BY TiersStep, TierSizesStep
<1>4. design' = "failures" => FailuresInv' /\ FailureTypes'
  BY FailuresStep, FailureTypesStep
<1>5. design' = "progress" => LedgerInv' /\ LedgerTypes'
  BY LedgerStep, LedgerTypesStep
<1>6. design' = "rag" => RagInv' /\ RagFileTypes'
  BY RagSteps, RagFileTypesStep
<1>7. design' = "mem0" => Mem0Inv' /\ Mem0Types'
  BY Mem0Steps, Mem0TypesStep
<1>8. design' = "layered" => LayeredInv' /\ LayeredTypes'
  BY LayeredSteps, LayeredTypesStep
<1>9. design' = "context" => CompactionInv'
  BY CompactionSteps
<1>10. design' = "support" => ErrorsInv' /\ AnchorOfTurns'
  BY ErrorsStep, AnchorStep
<1> QED  BY <1>1, <1>2, <1>3, <1>4, <1>5, <1>6, <1>7, <1>8, <1>9, <1>10

LEMMA FirstTypesShow ==
  FirstTypes =>
    /\ design = "selfheal" => SH!TypeOK
    /\ design = "turnloop" => TL!TypeOK
    /\ design = "hierarchical" => HM!TypeOK
    /\ design = "failures" => FJ!TypeOK
    /\ design = "progress" => PL!TypeOK
    /\ design = "rag" => RR!TypeOK
    /\ design = "mem0" => M0!TypeOK
    /\ design = "layered" => LM!TypeOK
    /\ design = "context" => CC!TypeOK
    /\ design = "support" => SC!TypeOK
BY HealTypesShow, ConversationTypesShow, TierTypesShow, FailureTypesShow, LedgerTypesShow, RagTypesShow,
   Mem0TypesShow, LayeredTypesShow, CompactionTypesShow, ErrorsTypesShow
   DEF FirstTypes

LEMMA SecondTypesStart == Init => SecondTypes
BY TriageStarts, TriageTypesStart, TreeStarts, RewardedStart, VerdictsStart, HypothesisTypesStart,
   SkillsStart, TraceStarts, TraceTypesStart, ReasoningStarts, ReasoningTypesStart, LessonsStart,
   LessonTypesStart, CritiqueStarts, CritiqueTypesStart, TrajectoryStarts, TrajectoryTypesStart, GuardStarts,
   GuardTypesStart
   DEF Init, SecondTypes, TT!Init

LEMMA SecondTypesStep == SecondTypes /\ [Next]_vars => SecondTypes'
<1> SUFFICES ASSUME SecondTypes, [Next]_vars PROVE SecondTypes'
  OBVIOUS
<1> USE OneRuns DEF SecondTypes
<1>1. design' = "triage" => TriageInv' /\ TriageTypes'
  BY TriageSteps, TriageTypesStep
<1>2. design' = "tot" => TreeInv' /\ Rewarded'
  BY TreeSteps, RewardedStep
<1>3. design' = "hypothesis" => VerdictsInv' /\ HypothesisTypes'
  BY VerdictsStep, HypothesisTypesStep
<1>4. design' = "skills" => SkillsInv'
  BY SkillsStep
<1>5. design' = "claims" => TraceInv' /\ ClaimTypes'
  BY TraceSteps, TraceTypesStep
<1>6. design' = "adaptive" => ReasoningInv' /\ ReasoningTypes'
  BY ReasoningSteps, ReasoningTypesStep
<1>7. design' = "replay" => LessonsInv' /\ LessonTypes'
  BY LessonsStep, LessonTypesStep
<1>8. design' = "critique" => CritiqueInv' /\ CritiqueTypes'
  BY CritiqueSteps, CritiqueTypesStep
<1>9. design' = "thinking" => TrajectoryInv' /\ TrajectoryTypes'
  BY TrajectorySteps, TrajectoryTypesStep
<1>10. design' = "guardrail" => GuardInv' /\ GuardTypes'
  BY GuardSteps, GuardTypesStep
<1> QED  BY <1>1, <1>2, <1>3, <1>4, <1>5, <1>6, <1>7, <1>8, <1>9, <1>10

LEMMA SecondTypesShow ==
  SecondTypes =>
    /\ design = "triage" => CT!TypeOK
    /\ design = "tot" => TT!TypeOK
    /\ design = "hypothesis" => HL!TypeOK
    /\ design = "skills" => SK!TypeOK
    /\ design = "claims" => CL!TypeOK
    /\ design = "adaptive" => AR!TypeOK
    /\ design = "replay" => ER!TypeOK
    /\ design = "critique" => CR!TypeOK
    /\ design = "thinking" => TH!TypeOK
    /\ design = "guardrail" => GS!TypeOK
BY TriageTypesShow, RewardedShow, HypothesisTypesShow, SkillsTypesShow, TraceTypesShow, ReasoningTypesShow,
   LessonTypesShow, CritiqueTypesShow, TrajectoryTypesShow, GuardTypesShow
   DEF SecondTypes

LEMMA ThirdTypesStart == Init => ThirdTypes
BY FusionStarts, FusionTypesStart, TopicsStart, TopicsTypesStart, TranscriptStarts, TranscriptTypesStart,
   ValuesStart, ValuesTypesStart, ChangesStart, OperationsStart, ScoresStart, OnlineSharesStart, SearchStarts,
   SearchTypesStart, RecallStarts, RecallTypesStart, ContextStarts, RepliesTypesStart
   DEF Init, ThirdTypes

LEMMA ThirdTypesStep == ThirdTypes /\ [Next]_vars => ThirdTypes'
<1> SUFFICES ASSUME ThirdTypes, [Next]_vars PROVE ThirdTypes'
  OBVIOUS
<1> USE OneRuns DEF ThirdTypes
<1>1. design' = "fusion" => FusionInv' /\ FusionTypes'
  BY FusionSteps, FusionTypesStep
<1>2. design' = "topics" => TopicsInv' /\ TopicsTypes'
  BY TopicsStep, TopicsTypesStep
<1>3. design' = "transcript" => TranscriptInv' /\ TranscriptTypes'
  BY TranscriptSteps, TranscriptTypesStep
<1>4. design' = "orchestrator" => ValuesInv' /\ ValuesTypes'
  BY ValuesStep, ValuesTypesStep
<1>5. design' = "saas" => ChangesInv' /\ OperationsArePlaced'
  BY ChangesStep, OperationsStep
<1>6. design' = "metrics" => ScoresInv' /\ OnlineShares'
  BY ScoresStep, OnlineSharesStep
<1>7. design' = "mem0_search" => SearchInv' /\ SearchTypes'
  BY SearchSteps, SearchTypesStep
<1>8. design' = "recall" => AdviceInv' /\ RecallTypes'
  BY RecallSteps, RecallTypesStep
<1>9. design' = "assembly" => ContextInv'
  BY ContextSteps
<1>10. design' = "json" => JR!TypeOK'
  BY RepliesTypesStep
<1> QED  BY <1>1, <1>2, <1>3, <1>4, <1>5, <1>6, <1>7, <1>8, <1>9, <1>10

LEMMA ThirdTypesShow ==
  ThirdTypes =>
    /\ design = "fusion" => MF!TypeOK
    /\ design = "topics" => TS!TypeOK
    /\ design = "transcript" => TR!TypeOK
    /\ design = "orchestrator" => TO!TypeOK
    /\ design = "saas" => SA!TypeOK
    /\ design = "metrics" => MX!TypeOK
    /\ design = "mem0_search" => MS!TypeOK
    /\ design = "recall" => FR!TypeOK
    /\ design = "assembly" => LC!TypeOK
    /\ design = "json" => JR!TypeOK
BY FusionTypesShow, TopicsTypesShow, TranscriptTypesShow, ValuesTypesShow, OperationsTypesShow,
   ScoresTypesShow, SearchTypesShow, RecallTypesShow, ContextTypesShow
   DEF ThirdTypes

\* For all constants: the state of every system has its type, and its bookkeeping agrees with
\* itself: no counter passes its bound, no id or key is of something that does not exist, no
\* position points behind the end of what it is in, and a call is where its data let it be.
THEOREM TypeCorrect == Spec => []TypeOK
<1> DEFINE Inv == FirstTypes /\ SecondTypes /\ ThirdTypes
<1>1. Init => Inv
  BY FirstTypesStart, SecondTypesStart, ThirdTypesStart
<1>2. Inv /\ [Next]_vars => Inv'
  BY FirstTypesStep, SecondTypesStep, ThirdTypesStep
<1>3. Inv => TypeOK
  BY FirstTypesShow, SecondTypesShow, ThirdTypesShow DEF TypeOK
<1> QED  BY <1>1, <1>2, <1>3, PTL DEF Spec
=============================================================================
