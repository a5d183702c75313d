------------------------- MODULE SupportCompaction --------------------------
(***************************************************************************)
(* perception/compaction: a support session keeps every turn; before each  *)
(* model call the view of the model is made from all of them, under the    *)
(* lock of the session, in three levels: long observations are masked, old *)
(* turns are folded into the anchor, old errors into a list.  Queries of   *)
(* one session may run at the same time: the lock is free while the agent  *)
(* runs and between the turns that it appends.                             *)
(***************************************************************************)
EXTENDS FiniteSets, Integers, Sequences, SequencesExt

CONSTANTS
  SupportQueries, MaxTurns,
  TriggerTokens, TargetTokens, PreserveRecent, MaxRecentErrors

VARIABLES
  turns,       \* SupportSession.turns
  anchor,      \* numbers of the turns folded into the anchor
  events,      \* the levels and counts of the compactions so far
  support      \* per query: its phase, the view it was built, what it must append

supportVars == <<turns, anchor, events, support>>

\* An observation may be long and an error; a masked turn and a list of errors are short.
Turn == {[kind |-> "message", tokens |-> 1, error |-> FALSE],
         [kind |-> "observation", tokens |-> 2, error |-> FALSE],
         [kind |-> "observation", tokens |-> 2, error |-> TRUE]}
NoView == [level |-> 0, shown |-> {}, listed |-> {}, anchored |-> {}, from |-> 0]
NoSupportQuery == [at |-> "idle", view |-> NoView, todo |-> <<>>]

Init ==
  /\ turns = <<>> /\ anchor = {} /\ events = {}
  /\ support = [q \in SupportQueries |-> NoSupportQuery]

All == DOMAIN turns
Recent == {i \in All : i > Len(turns) - PreserveRecent}
Old == All \ Recent
Errors(indices) == {i \in indices : turns[i].error}
Cost(indices, masked) ==
  FoldSet(LAMBDA i, sum : sum + (IF i \in masked THEN 1 ELSE turns[i].tokens), 0, indices)
ShouldCompact == Cost(All, {}) >= TriggerTokens /\ Cost(All, {}) > TargetTokens

\* clearObservations: neither errors nor the recent turns.
Masked == {i \in Old \ Errors(Old) : turns[i].kind = "observation"}
\* tailTurns: the last errors of the old turns keep their text.
RecentErrors == {i \in Errors(Old) : Cardinality({j \in Errors(Old) : j >= i}) <= MaxRecentErrors}

\* compactClassified: the first level that meets the target, or the third.
Level ==
  IF ~ShouldCompact THEN 0
  ELSE IF Cost(All, Masked) <= TargetTokens THEN 1
  ELSE IF 1 + Cost(Errors(Old) \cup Recent, {}) <= TargetTokens THEN 2 ELSE 3

ShownWithoutErrors ==                       \* mutant: level 2 is the anchor and the recent turns
  IF Level \in {0, 1} THEN All ELSE IF Level = 2 THEN Recent ELSE RecentErrors \cup Recent
\* Whole turns; a long one is cut to its beginning when the prompt is written (SystemPrompt).
Shown == CASE Level \in {0, 1} -> All
           [] Level = 2        -> Errors(Old) \cup Recent
           [] Level = 3        -> RecentErrors \cup Recent

\* ErrorTracesIn and ErrorTracesRepresented, as recordEvent and the end of level 3 count.
Event ==
  [level |-> Level, in |-> Cardinality(Errors(All)),
   represented |-> IF Level < 3 THEN Cardinality(Errors(Shown))
     ELSE Cardinality(Errors(Recent)) + Cardinality(RecentErrors)
            + Cardinality(Errors(Old) \ RecentErrors)]

\* Query up to the agent.  The updater may leave out of the anchor what it likes; when it
\* fails the query fails.
BuildPromptView(q) ==
  /\ support[q].at = "idle" /\ Len(turns) < MaxTurns
  /\ \E told \in SUBSET (Old \ Errors(Old)) :
       /\ Level < 2 => told = {}
       /\ anchor' = anchor \cup told
       /\ support' = [support EXCEPT ![q] = [at |-> "agent", todo |-> <<>>, view |->
            [level |-> Level, shown |-> Shown, from |-> Len(turns), anchored |-> anchor \cup told,
             listed |-> IF Level = 3 THEN Errors(Old) \ RecentErrors ELSE {}]]]
  /\ events' = IF Level > 0 THEN events \cup {Event} ELSE events
  /\ UNCHANGED turns

\* The agent answers after at most one tool call; the question is kept only now.
AgentAnswers(q) ==
  /\ support[q].at = "agent"
  /\ \E observed \in SeqOf(Turn \ {[kind |-> "message", tokens |-> 1, error |-> FALSE]}, 1) :
       LET message == [kind |-> "message", tokens |-> 1, error |-> FALSE] IN
       support' = [support EXCEPT ![q].at = "append", ![q].todo = <<message>> \o observed \o <<message>>]
  /\ UNCHANGED <<turns, anchor, events>>

AppendTurn(q) ==
  /\ support[q].at = "append"
  /\ LET todo == support[q].todo IN
     /\ turns' = Append(turns, Head(todo))
     /\ support' = IF Len(todo) = 1 THEN [support EXCEPT ![q] = NoSupportQuery]
                   ELSE [support EXCEPT ![q].todo = Tail(todo)]
  /\ UNCHANGED <<anchor, events>>

QueryFails(q) ==
  /\ support[q].at = "agent"
  /\ support' = [support EXCEPT ![q] = NoSupportQuery]
  /\ UNCHANGED <<turns, anchor, events>>

Next ==
  \E q \in SupportQueries : BuildPromptView(q) \/ AgentAnswers(q) \/ AppendTurn(q) \/ QueryFails(q)

Spec == Init /\ [][Next]_supportVars

-----------------------------------------------------------------------------
TypeOK ==
  /\ \A i \in All : turns[i] \in Turn
  /\ anchor \subseteq All

\* "错误 Turn 是排障证据": whatever the level, every error there was when a view was made is
\* in it or in its list, and the counts of the event say so (AllErrorsRepresented).
ErrorsStayVisible ==
  /\ \A q \in SupportQueries : support[q].at = "agent" =>
       \A i \in 1..support[q].view.from :
         turns[i].error => i \in support[q].view.shown \cup support[q].view.listed
  /\ \A e \in events : e.represented >= e.in
=============================================================================
