------------------------- MODULE ContextCompaction --------------------------
(***************************************************************************)
(* perception/claude_compaction: the message list of a session only grows, *)
(* and what a query sees of it begins at the last boundary.  The session's *)
(* PrepareNextQuery copies the list, shrinks tool results, snips or        *)
(* summarises, and appends the boundary it made to the list there is by    *)
(* then; the summary model runs without the lock.  Skills that were        *)
(* invoked are attached after a summary and read back from there after a   *)
(* restart.                                                                *)
(***************************************************************************)
EXTENDS FiniteSets, Integers, Sequences

CONSTANTS
  Skills, SkillBudget,      \* the number of skills whose files fit the token budget
  SnipTokens, KeepRecent,   \* HistorySnip: 0 is disabled
  SummaryTokens,            \* AutoCompactPolicy: effective window less buffer
  MaxResultTokens,          \* ApplyToolResultBudget
  MaxHistory, MaxBoundaries \* bounds: messages appended, boundaries written

VARIABLES
  messages,     \* QuerySession.messages
  appended,     \* messages that callers appended; they are numbered
  invokedSkills,\* SkillState: most recently invoked first
  request,      \* what PrepareNextQuery waits for the model with
  overtaken     \* numbers appended while it waited (an observer)

compactionVars == <<messages, appended, invokedSkills, request, overtaken>>

\* covers: the messages a summary tells of; skill: the attachment's.
Msg(kind, number, tokens) ==
  [kind |-> kind, number |-> number, tokens |-> tokens, covers |-> {}, skill |-> "none"]
Boundary == {"snip", "compact"}
NoRequest == [at |-> "idle", view |-> <<>>, snipped |-> <<>>, since |-> 0]
Total(view) ==
  LET Upto[i \in 0..Len(view)] == IF i = 0 THEN 0 ELSE Upto[i - 1] + view[i].tokens
  IN Upto[Len(view)]
Covered(view) == UNION {({view[i].number} \ {0}) \cup view[i].covers : i \in DOMAIN view}

Init ==
  /\ messages = <<>> /\ appended = 0 /\ invokedSkills = <<>>
  /\ request = NoRequest /\ overtaken = {}

UseIsOpen ==
  \E i \in DOMAIN messages :
    messages[i].kind = "use" /\ \A j \in i..Len(messages) : messages[j].kind # "result"

\* Append: a text, a tool use or its result; others than the one who waits may append.
AppendMessage ==
  /\ appended < MaxHistory /\ appended' = appended + 1
  /\ \E kind \in {"text", "use", "result"}, tokens \in 1..3 :
       /\ (kind = "result") <=> UseIsOpen
       /\ kind # "result" => tokens = 1
       /\ messages' = Append(messages, Msg(kind, appended + 1, tokens))
  /\ UNCHANGED <<invokedSkills, request, overtaken>>

\* The table has one entry of a skill, and this invocation is its last.
RecordInvokedSkill(skills, s) ==
  LET known == {i \in DOMAIN skills : skills[i] = s}
      last == IF known = {} THEN Len(skills) + 1 ELSE CHOOSE i \in known : TRUE
  IN <<s>> \o SubSeq(skills, 1, last - 1) \o SubSeq(skills, last + 1, Len(skills))

InvokeSkill ==
  /\ \E s \in Skills :
       /\ RecordInvokedSkill(invokedSkills, s) # invokedSkills
       /\ invokedSkills' = RecordInvokedSkill(invokedSkills, s)
  /\ UNCHANGED <<messages, appended, request, overtaken>>

MessagesAfterLastCompactBoundary(msgs) ==
  LET boundaries == {i \in DOMAIN msgs : msgs[i].kind \in Boundary}
      first == IF boundaries = {} THEN 1 ELSE CHOOSE i \in boundaries : \A j \in boundaries : j <= i
  IN SubSeq(msgs, first, Len(msgs))

\* RestoreFromMessages: every attachment, in order.
SkillMessagesInView(msgs) ==                \* mutant: only those since the last boundary
  {i \in DOMAIN msgs : /\ msgs[i].kind = "skill"
                       /\ \A j \in i..Len(msgs) : msgs[j].kind \notin Boundary}
SkillMessages(msgs) == {i \in DOMAIN msgs : msgs[i].kind = "skill"}
Restored(skills, msgs) ==
  LET After[i \in 0..Len(msgs)] ==
        IF i = 0 THEN skills
        ELSE IF i \in SkillMessages(msgs) THEN RecordInvokedSkill(After[i - 1], msgs[i].skill)
        ELSE After[i - 1]
  IN After[Len(msgs)]

ApplyToolResultBudget(view) == [i \in DOMAIN view |->
  IF view[i].kind = "result" /\ view[i].tokens > MaxResultTokens
  THEN [view[i] EXCEPT !.tokens = 1] ELSE view[i]]

\* One recent result keeps its content.
Microcompact(view) == [i \in DOMAIN view |->
  IF view[i].kind = "result" /\ \E j \in DOMAIN view : j > i /\ view[j].kind = "result"
  THEN [view[i] EXCEPT !.tokens = 1] ELSE view[i]]

\* adjustSnipStartForToolPair looks one message back.
SnipStart(view) ==
  LET start == Len(view) - KeepRecent
  IN IF start > 0 /\ view[start + 1].kind = "result" /\ view[start].kind = "use"
     THEN start - 1 ELSE start
Snips(view) == SnipTokens > 0 /\ Total(view) > SnipTokens /\ SnipStart(view) > 0
HistorySnip(view) ==
  IF Snips(view) THEN <<Msg("snip", 0, 0)>> \o SubSeq(view, SnipStart(view) + 1, Len(view))
  ELSE view

\* Run up to the decision; without a summary the snip boundary is written back at once.
PrepareNextQuery ==
  /\ request = NoRequest
  /\ Cardinality({i \in DOMAIN messages : messages[i].kind \in Boundary}) < MaxBoundaries
  /\ LET view     == ApplyToolResultBudget(MessagesAfterLastCompactBoundary(messages))
         snipped  == IF Snips(view) THEN <<Msg("snip", 0, 0)>> ELSE <<>>
         prepared == Microcompact(HistorySnip(view))
     IN IF Total(prepared) >= SummaryTokens
        THEN /\ request' = [at |-> "summary", view |-> prepared, snipped |-> snipped, since |-> appended]
             /\ messages' = messages
        ELSE /\ messages' = messages \o snipped
             /\ request' = request
  /\ UNCHANGED <<appended, invokedSkills, overtaken>>

Attachments ==
  LET fit == IF Len(invokedSkills) < SkillBudget THEN Len(invokedSkills) ELSE SkillBudget
  IN [i \in 1..fit |-> [kind |-> "skill", number |-> 0, tokens |-> 0, covers |-> {},
                         skill |-> invokedSkills[i]]]

\* buildResult and the writeback: boundary, summary, what is kept, attachments.
WriteBack(covers, keep) ==
  LET post == <<Msg("compact", 0, 0), [Msg("summary", 0, 1) EXCEPT !.covers = covers]>>
                \o keep \o Attachments
  IN /\ messages' = messages \o request.snipped \o post
     /\ invokedSkills' = Restored(invokedSkills, post)
     /\ overtaken' = overtaken \cup (request.since + 1)..appended
     /\ request' = NoRequest
     /\ UNCHANGED appended

\* Compact with the model: the summary tells of the view.
SummaryByModel == request.at = "summary" /\ WriteBack(Covered(request.view), <<>>)

\* compactFromSessionMemory: notes that tell of all up to a message of the view, which are
\* the ones a caller should pass; the rest of the view is kept (messagesAfterID).
SummaryFromSessionMemory ==
  /\ request.at = "summary"
  /\ \E i \in DOMAIN request.view :
       /\ request.view[i].number # 0
       /\ WriteBack(1..request.view[i].number,
                    SubSeq(request.view, i + 1, Len(request.view)))

SummaryFails ==
  /\ request.at = "summary" /\ request' = NoRequest
  /\ UNCHANGED <<messages, appended, invokedSkills, overtaken>>

\* NewQuerySessionWithSkillState, with the messages of the transcript.
Resume ==
  /\ invokedSkills' = Restored(<<>>, messages)
  /\ request' = NoRequest
  /\ UNCHANGED <<messages, appended, overtaken>>

Next ==
  \/ AppendMessage \/ InvokeSkill \/ PrepareNextQuery
  \/ SummaryByModel \/ SummaryFromSessionMemory \/ SummaryFails \/ Resume

Spec == Init /\ [][Next]_compactionVars

-----------------------------------------------------------------------------
TypeOK ==
  /\ \A i \in DOMAIN messages : messages[i].tokens \in 0..3 /\ messages[i].covers \subseteq 1..appended
  /\ Len(invokedSkills) <= Cardinality(Skills) /\ \A i \in DOMAIN invokedSkills : invokedSkills[i] \in Skills

\* What a query sees, or a summary in it tells, is everything that was appended, except
\* what was appended while a summary was being written.
MessagesStayTold ==
  1..appended \subseteq Covered(MessagesAfterLastCompactBoundary(messages)) \cup overtaken

\* A skill that was attached once is known after every restart and later summary.
AttachedSkillsStay ==
  \A i \in DOMAIN messages :
    messages[i].kind = "skill" => \E k \in DOMAIN invokedSkills : invokedSkills[k] = messages[i].skill

\* "保留最近尾部" (history_snip.go): the last messages are in the view of the next query.
RecentTailStays ==
  {n \in 1..appended : n > appended - KeepRecent} \subseteq
    Covered(MessagesAfterLastCompactBoundary(messages)) \cup overtaken

\* Both; a snip without a summary hides what it keeps (RecentTailStays).
ResumeFindsEverything == (SnipTokens = 0 => MessagesStayTold) /\ AttachedSkillsStay
=============================================================================
