---------------------------- MODULE SessionMemory ----------------------------
(***************************************************************************)
(* The two memories of memory/claude_auto_memory around one conversation:  *)
(* Runner.RunTurn keeps the transcript and the context it sends to the     *)
(* model; a background goroutine maintains the session summary and its     *)
(* boundary; another one extracts long-term memories behind a cursor; and  *)
(* SessionCompactor replaces old messages of the context by the summary.   *)
(* A message is its position in the transcript and costs one token.        *)
(***************************************************************************)
EXTENDS Naturals, Sequences, FiniteSets, TLAPS, FiniteSetTheorems

CONSTANTS
  MaxMessages,               \* bound on the transcript
  MinimumTokensToInit, MinimumTokensBetweenUpdates, ToolCallsBetweenUpdates,
  CompactTokens, MinimumRecentMessages,      \* SessionMemoryConfig
  Answers,                   \* the kinds of answer: "plain", "tools" (one tool call)
  Faults                     \* a subset of FaultKinds

FaultKinds == {"model_error", "io_error", "slow", "crash"}
ASSUME SessionAssumption ==
  /\ {MaxMessages, MinimumTokensToInit, MinimumTokensBetweenUpdates,
      ToolCallsBetweenUpdates, CompactTokens, MinimumRecentMessages} \subseteq Nat \ {0}
  /\ Answers \subseteq {"plain", "tools"}
  /\ Faults \subseteq FaultKinds

VARIABLES
  transcript,          \* transcript.jsonl, and Runner.transcript while it runs
  pc,                  \* where RunTurn is, "off" when the process is down
  from, head,          \* Runner.contextMessages: the first real message, and the last
                       \* message that the summary in front of it tells of (0: no summary)
  summary,             \* summary.md: the last message it tells of
  boundary,            \* state.json: LastSummarizedMessageID; TokensAtLastUpdate is equal
  writing,             \* Commit has written the summary and not yet the state
  sCurrent, sPending,  \* SessionScheduler
  eCurrent, ePending,  \* ExtractionScheduler
  cursor,              \* Extractor.lastExtractedMessageID
  extracted,           \* history: how often each message was extracted
  failed               \* history: something has failed, or was too slow

context == <<from, head>>
store == <<summary, boundary, writing>>
sessionQueue == <<sCurrent, sPending>>
extraction == <<eCurrent, ePending, cursor, extracted>>
vars == <<transcript, pc, context, store, sessionQueue, extraction, failed>>

\* The empty template and the empty state; files that exist are left alone (Crash, Resume).
InitStore == summary = 0 /\ boundary = 0 /\ writing = FALSE

Init ==
  /\ transcript = <<>>
  /\ pc = "idle"
  /\ from = 1 /\ head = 0
  /\ InitStore
  /\ sCurrent = 0 /\ sPending = 0
  /\ eCurrent = 0 /\ ePending = 0
  /\ cursor = 0
  /\ extracted = [i \in 1 .. MaxMessages |-> 0]
  /\ failed = FALSE

Smaller(a, b) == IF a < b THEN a ELSE b

---------------------------------------------------------------------------
(* The queue that scheduler.go and session_scheduler.go both have: one     *)
(* goroutine works on one snapshot of the transcript (current, 0 when it   *)
(* has ended), and while it is busy only the newest of the snapshots that  *)
(* arrive is kept (waiting).  The transcript only grows, so that a         *)
(* snapshot is its length.                                                 *)

Idle(current) == current = 0

\* Schedule: start the goroutine, or replace what waits for it.
ScheduleFirstWins(current, waiting, snapshot) ==   \* mutant: what waits is not replaced
  IF Idle(current) THEN current' = snapshot /\ UNCHANGED waiting
                   ELSE /\ waiting' = IF waiting = 0 THEN snapshot ELSE waiting
                        /\ UNCHANGED current
Schedule(current, waiting, snapshot) ==
  IF Idle(current) THEN current' = snapshot /\ UNCHANGED waiting
                   ELSE waiting' = snapshot /\ UNCHANGED current

\* run: after one snapshot take the one that waits, or end.
Finish(current, waiting) == current' = waiting /\ waiting' = 0

---------------------------------------------------------------------------
(* RunTurn.  The runner's mutex makes turns sequential; the background     *)
(* goroutines run beside them.                                             *)

Estimate(last) == last + 1 - from + (IF head > 0 THEN 1 ELSE 0)

\* The user's message is on disk before anything else happens.
RunTurn ==
  /\ pc = "idle"
  /\ Len(transcript) < MaxMessages - 1
  /\ transcript' = Append(transcript, "user")
  /\ pc' = IF Estimate(Len(transcript) + 1) < CompactTokens THEN "generate" ELSE "wait"
  /\ UNCHANGED <<context, store, sessionQueue, extraction, failed>>

\* MaybeCompact waits for the summary goroutine, or until it has waited enough.
Wait ==
  /\ pc = "wait"
  /\ Idle(sCurrent) \/ "slow" \in Faults
  /\ pc' = "compact"
  /\ failed' = (failed \/ ~Idle(sCurrent))
  /\ UNCHANGED <<transcript, context, store, sessionQueue, extraction>>

\* The answer is appended, and both goroutines are given the new transcript.
Generate(answer) ==
  /\ pc = "generate"
  /\ transcript' = Append(transcript, answer)
  /\ Schedule(sCurrent, sPending, Len(transcript'))
  /\ Schedule(eCurrent, ePending, Len(transcript'))
  /\ pc' = "idle"
  /\ UNCHANGED <<context, store, cursor, extracted, failed>>

\* No answer, or it could not be appended: the user's message stays in the
\* transcript and in the context.
GenerateError ==
  /\ Faults \cap {"model_error", "io_error"} # {}
  /\ pc = "generate"
  /\ pc' = "idle"
  /\ failed' = TRUE
  /\ UNCHANGED <<transcript, context, store, sessionQueue, extraction>>

---------------------------------------------------------------------------
(* SessionCompactor.MaybeCompact after the wait.  The snapshot is read     *)
(* under the store's mutex, which Commit holds for both of its writes.     *)

RecentStart ==
  IF Len(transcript) + 1 - from <= MinimumRecentMessages
  THEN from ELSE Len(transcript) + 1 - MinimumRecentMessages

BoundaryInContext == boundary >= from

KeptFromRecent == RecentStart                \* mutant: only the recent tail
KeptFromBoundary == IF BoundaryInContext THEN boundary + 1 ELSE RecentStart  \* mutant: no recent tail
KeptFrom == IF BoundaryInContext THEN Smaller(boundary + 1, RecentStart) ELSE RecentStart

\* An answer is not kept without its question.
WithQuestion(start) ==
  IF /\ start > from /\ start <= Len(transcript)
     /\ transcript[start] # "user" /\ transcript[start - 1] = "user"
  THEN start - 1 ELSE start

\* Without its boundary a context is cut only on resume, or when it already
\* begins with a summary.
CanCompact(resume) == boundary > 0 /\ (BoundaryInContext \/ resume \/ head > 0)

CompactContext(resume) ==
  IF CanCompact(resume)
  THEN /\ from' = WithQuestion(KeptFrom)
       /\ head' = summary
  ELSE UNCHANGED context

Compact ==
  /\ pc = "compact"
  /\ ~writing
  /\ \/ CompactContext(FALSE) /\ UNCHANGED failed
     \/ "io_error" \in Faults /\ UNCHANGED context /\ failed' = TRUE
  /\ pc' = "generate"
  /\ UNCHANGED <<transcript, store, sessionQueue, extraction>>

---------------------------------------------------------------------------
(* SessionMemoryUpdater.Update, on the snapshot of the goroutine.          *)

\* sessionMessagesAfterBoundary, up to message n; the boundary is in every transcript.
NewMessages(n) == boundary + 1 .. n

ToolCalls(messages) == Cardinality({i \in messages : transcript[i] = "tools"})

NaturalBoundary(n) == transcript[n] = "plain"

ShouldUpdate(n) ==
  /\ NewMessages(n) # {}
  /\ IF boundary = 0 THEN n >= MinimumTokensToInit
                     ELSE n - boundary >= MinimumTokensBetweenUpdates
  /\ \/ ToolCalls(NewMessages(n)) >= ToolCallsBetweenUpdates
     \/ NaturalBoundary(n)

\* Nothing to do, or the model or the write of the summary failed.
UpdateSkipped ==
  /\ ~Idle(sCurrent)
  /\ ~writing
  /\ ~ShouldUpdate(sCurrent) \/ Faults \cap {"model_error", "io_error"} # {}
  /\ failed' = (failed \/ ShouldUpdate(sCurrent))
  /\ Finish(sCurrent, sPending)
  /\ UNCHANGED <<transcript, pc, context, store, extraction>>

\* Commit: the summary first, then the state.
CommitStateFirst ==                    \* mutant: the two files in the other order
  /\ ~Idle(sCurrent) /\ ~writing /\ ShouldUpdate(sCurrent)
  /\ boundary' = sCurrent
  /\ writing' = TRUE
  /\ UNCHANGED <<transcript, pc, context, summary, sessionQueue, extraction, failed>>
CommitSummary ==
  /\ ~Idle(sCurrent) /\ ~writing /\ ShouldUpdate(sCurrent)
  /\ summary' = sCurrent
  /\ writing' = TRUE
  /\ UNCHANGED <<transcript, pc, context, boundary, sessionQueue, extraction, failed>>

CommitState ==
  /\ writing
  /\ \/ boundary' = sCurrent /\ UNCHANGED failed
     \/ "io_error" \in Faults /\ UNCHANGED boundary /\ failed' = TRUE
  /\ writing' = FALSE
  /\ Finish(sCurrent, sPending)
  /\ UNCHANGED <<transcript, pc, context, summary, extraction>>

---------------------------------------------------------------------------
(* Extractor.ExtractNew: the messages after the cursor, and the cursor     *)
(* moves only when the model has answered.                                 *)

MessagesAfterCursor(n) == cursor + 1 .. n

ExtractPastSnapshot ==                 \* mutant: the cursor leaves the snapshot
  /\ ~Idle(eCurrent)
  /\ extracted' = [i \in DOMAIN extracted |->
                    extracted[i] + (IF i \in MessagesAfterCursor(eCurrent) THEN 1 ELSE 0)]
  /\ cursor' = eCurrent + 1
  /\ Finish(eCurrent, ePending)
  /\ UNCHANGED <<transcript, pc, context, store, sessionQueue, failed>>
Extract ==
  /\ ~Idle(eCurrent)
  /\ \/ /\ extracted' = [i \in DOMAIN extracted |->
                           extracted[i] + (IF i \in MessagesAfterCursor(eCurrent) THEN 1 ELSE 0)]
        /\ cursor' = eCurrent
        /\ UNCHANGED failed
     \/ "model_error" \in Faults /\ UNCHANGED <<cursor, extracted>> /\ failed' = TRUE
  /\ Finish(eCurrent, ePending)
  /\ UNCHANGED <<transcript, pc, context, store, sessionQueue>>

---------------------------------------------------------------------------
(* The process ends without draining; only the files remain.  A new        *)
(* process resumes the session: the cursor is set to the end of the        *)
(* transcript and the context is built from the summary.                   *)

Crash ==
  /\ "crash" \in Faults
  /\ pc # "off"
  /\ pc' = "off"
  /\ from' = 1 /\ head' = 0
  /\ writing' = FALSE
  /\ sCurrent' = 0 /\ sPending' = 0 /\ eCurrent' = 0 /\ ePending' = 0
  /\ cursor' = 0
  /\ failed' = TRUE
  /\ UNCHANGED <<transcript, summary, boundary, extracted>>

ResumeWithoutCursor ==                 \* mutant: extraction starts over
  /\ pc = "off"
  /\ \/ CompactContext(TRUE)
     \/ "io_error" \in Faults /\ UNCHANGED context
  /\ pc' = "idle"
  /\ UNCHANGED <<transcript, store, sessionQueue, extraction, failed>>
Resume ==
  /\ pc = "off"
  /\ cursor' = Len(transcript)
  /\ \/ CompactContext(TRUE)
     \/ "io_error" \in Faults /\ UNCHANGED context
  /\ pc' = "idle"
  /\ UNCHANGED <<transcript, store, sessionQueue, eCurrent, ePending, extracted, failed>>

---------------------------------------------------------------------------

Foreground == Wait \/ Compact \/ \E a \in Answers : Generate(a)
Background == UpdateSkipped \/ CommitSummary \/ CommitState

Next ==
  \/ RunTurn \/ Foreground \/ GenerateError
  \/ Background \/ Extract
  \/ Crash \/ Resume

Spec == Init /\ [][Next]_vars

---------------------------------------------------------------------------
(* Properties.                                                             *)

\* The type invariant: every position kept in a cursor, a boundary, a queue or
\* the context is one of the transcript.
TypeOK ==
  /\ transcript \in Seq({"user", "plain", "tools"}) /\ Len(transcript) <= MaxMessages
  /\ pc \in {"off", "idle", "wait", "compact", "generate"}
  /\ from \in 1 .. Len(transcript) + 1
  /\ {head, summary, boundary, sCurrent, sPending, eCurrent, ePending, cursor}
       \subseteq 0 .. Len(transcript)
  /\ writing \in BOOLEAN /\ failed \in BOOLEAN
  /\ DOMAIN extracted = 1 .. MaxMessages /\ \A i \in DOMAIN extracted : extracted[i] \in Nat

\* The boundary never claims more than the summary tells, whichever write of
\* Commit was the last before a crash or an error (session_store.go, Commit).
SummaryCoversBoundary == boundary <= summary

\* Compaction never cuts into the most recent messages, and never keeps an
\* answer whose question it has cut (session_compactor.go).
RecentTurnsStay ==
  /\ from = 1 \/ from <= Len(transcript) + 1 - MinimumRecentMessages
  /\ (from > 1 /\ from <= Len(transcript) /\ transcript[from] # "user")
       => transcript[from - 1] # "user"

\* No message is extracted twice into the long-term memory, whatever fails and
\* however often the session is resumed (Extractor's cursor, ResumeAfter).
ExtractedAtMostOnce == \A i \in DOMAIN extracted : extracted[i] <= 1

\* As long as nothing fails, every message of the transcript is in the context
\* of the model or told by the summary at its head: SessionCompactor only
\* replaces old messages that are summarised (session_compactor.go:9).
NothingForgotten == ~failed => from <= head + 1

\* As long as nothing fails, an extraction that has come to rest has seen every
\* answer: the newest snapshot is not lost behind a busy goroutine
\* (ExtractionScheduler).
EveryAnswerExtracted ==
  (~failed /\ Idle(eCurrent)) =>
    \A i \in DOMAIN transcript : transcript[i] # "user" => i <= cursor

---------------------------------------------------------------------------
(* Theorems, for every bound, every configuration of the thresholds and    *)
(* every set of faults.                                                    *)

\* A turn that is under way has room for its answer, and a process that is down has no
\* goroutine.
TurnInv ==
  /\ pc \in {"wait", "compact", "generate"} => Len(transcript) < MaxMessages
  /\ pc = "off" => /\ sCurrent = 0 /\ sPending = 0 /\ eCurrent = 0 /\ ePending = 0
                   /\ ~writing /\ failed

\* Between its two writes, Commit has written the summary of the snapshot it works on.
CommitInv ==
  /\ writing => sCurrent # 0 /\ summary = sCurrent
  /\ SummaryCoversBoundary

\* The context is never empty once there is a message: compaction keeps a recent one.
ContextInv ==
  /\ transcript # <<>> => from <= Len(transcript)
  /\ RecentTurnsStay

\* The snapshots of the extraction come in order: cursor, current, pending.
QueueInv ==
  /\ eCurrent = 0 => ePending = 0
  /\ eCurrent # 0 => cursor < eCurrent
  /\ ePending # 0 => eCurrent < ePending

\* Nothing behind the cursor has been extracted, and nothing twice.  A process that is down has
\* no cursor; the next one starts behind the transcript.
CursorInv ==
  \A i \in 1 .. MaxMessages :
    /\ extracted[i] <= 1
    /\ extracted[i] # 0 => i <= IF pc = "off" THEN Len(transcript) ELSE cursor

\* The newest snapshot that the extraction has or has had.
Newest == IF ePending # 0 THEN ePending ELSE IF eCurrent # 0 THEN eCurrent ELSE cursor
NewestInv == ~failed => \A i \in DOMAIN transcript : transcript[i] # "user" => i <= Newest

IInv == TypeOK /\ TurnInv /\ CommitInv /\ ContextInv /\ QueueInv /\ CursorInv /\ NewestInv

---------------------------------------------------------------------------
(* The operators.                                                          *)

\* A compaction keeps a recent message, and no answer without its question.
LEMMA CompactionKeeps ==
  ASSUME TypeOK, ContextInv, transcript # <<>>
  PROVE  LET new == WithQuestion(KeptFrom)
         IN  /\ new \in 1 .. Len(transcript)
             /\ new = 1 \/ new <= Len(transcript) + 1 - MinimumRecentMessages
             /\ (new > 1 /\ transcript[new] # "user") => transcript[new - 1] # "user"
<1> DEFINE n == Len(transcript)
<1> DEFINE start == KeptFrom
<1>1. /\ n \in Nat /\ n >= 1 /\ from \in 1 .. n /\ boundary \in 0 .. n
      /\ MinimumRecentMessages \in Nat \ {0}
  BY SessionAssumption DEF TypeOK, ContextInv
<1>2. from = 1 \/ from <= n + 1 - MinimumRecentMessages
  BY DEF ContextInv, RecentTurnsStay
<1>3. /\ RecentStart \in from .. n
      /\ RecentStart = 1 \/ RecentStart <= n + 1 - MinimumRecentMessages
  BY <1>1, <1>2 DEF RecentStart
<1>4. start \in from .. RecentStart
  BY <1>1, <1>3 DEF KeptFrom, BoundaryInContext, Smaller
<1>5. start \in 1 .. n /\ (start = 1 \/ start <= n + 1 - MinimumRecentMessages)
  BY <1>1, <1>3, <1>4
<1> HIDE DEF start
<1>6. CASE start > from /\ transcript[start] # "user" /\ transcript[start - 1] = "user"
  <2>1. WithQuestion(start) = start - 1
    BY <1>1, <1>4, <1>5, <1>6 DEF WithQuestion
  <2> QED BY <2>1, <1>1, <1>4, <1>5, <1>6 DEF start
<1>7. CASE ~(start > from /\ transcript[start] # "user" /\ transcript[start - 1] = "user")
  <2>1. WithQuestion(start) = start
    BY <1>7 DEF WithQuestion
  <2>2. (start > 1 /\ transcript[start] # "user") => transcript[start - 1] # "user"
    BY <1>1, <1>4, <1>5, <1>7 DEF ContextInv, RecentTurnsStay
  <2> QED BY <2>1, <2>2, <1>5 DEF start
<1> QED BY <1>6, <1>7

\* So does the whole step, whether it compacts or not.
LEMMA CompactContextKeeps ==
  ASSUME TypeOK, ContextInv, NEW resume \in BOOLEAN, CompactContext(resume),
         UNCHANGED transcript
  PROVE  /\ from' \in 1 .. Len(transcript) + 1 /\ head' \in 0 .. Len(transcript)
         /\ ContextInv'
<1>1. CASE CanCompact(resume)
  <2>1. transcript # <<>>
    BY <1>1 DEF CanCompact, TypeOK
  <2>2. from' = WithQuestion(KeptFrom) /\ head' = summary
    BY <1>1 DEF CompactContext
  <2>3. summary \in 0 .. Len(transcript) /\ Len(transcript) \in Nat
    BY DEF TypeOK
  <2> QED BY <2>1, <2>2, <2>3, CompactionKeeps DEF ContextInv, RecentTurnsStay
<1>2. CASE ~CanCompact(resume)
  BY <1>2 DEF CompactContext, context, TypeOK, ContextInv, RecentTurnsStay
<1> QED BY <1>1, <1>2

\* The empty transcript has no message to speak of.
LEMMA EmptyTranscript ==
  ASSUME transcript = <<>>
  PROVE  /\ transcript \in Seq({"user", "plain", "tools"}) /\ Len(transcript) = 0
         /\ DOMAIN transcript = {}
OBVIOUS

LEMMA Bounds == MaxMessages \in Nat \ {0} /\ MinimumRecentMessages \in Nat \ {0}
BY SessionAssumption

LEMMA AppendKeeps ==
  ASSUME TypeOK, NEW m \in {"user", "plain", "tools"}, transcript' = Append(transcript, m)
  PROVE  /\ transcript' \in Seq({"user", "plain", "tools"})
         /\ Len(transcript) \in Nat /\ Len(transcript') = Len(transcript) + 1
         /\ \A i \in 1 .. Len(transcript) : transcript'[i] = transcript[i]
         /\ transcript'[Len(transcript) + 1] = m
         /\ DOMAIN transcript = 1 .. Len(transcript)
         /\ DOMAIN transcript' = 1 .. Len(transcript) + 1
         /\ transcript' # <<>>
BY DEF TypeOK

---------------------------------------------------------------------------
(* One lemma per action.                                                   *)

LEMMA InitIInv == Init => IInv
<1> SUFFICES ASSUME Init PROVE IInv
  OBVIOUS
<1>1. transcript \in Seq({"user", "plain", "tools"}) /\ Len(transcript) = 0
      /\ DOMAIN transcript = {} /\ transcript = <<>>
  BY EmptyTranscript DEF Init
<1> USE <1>1, Bounds DEF Init, InitStore
<1>2. TypeOK
  <2>1. DOMAIN extracted = 1 .. MaxMessages /\ \A i \in DOMAIN extracted : extracted[i] \in Nat
    OBVIOUS
  <2>2. {head, summary, boundary, sCurrent, sPending, eCurrent, ePending, cursor} = {0}
    OBVIOUS
  <2>3. writing = FALSE /\ failed = FALSE /\ pc = "idle" /\ from = 1
    OBVIOUS
  <2>4. Len(transcript) <= MaxMessages /\ from \in 1 .. Len(transcript) + 1
        /\ {head, summary, boundary, sCurrent, sPending, eCurrent, ePending, cursor}
              \subseteq 0 .. Len(transcript)
    BY <2>2, <2>3
  <2>5. transcript \in Seq({"user", "plain", "tools"})
    BY <1>1
  <2> HIDE <1>1 DEF Init, InitStore
  <2> QED BY <2>1, <2>3, <2>4, <2>5 DEF TypeOK
<1>3. TurnInv /\ CommitInv /\ QueueInv
  BY DEF TurnInv, CommitInv, SummaryCoversBoundary, QueueInv
<1>4. ContextInv
  BY DEF ContextInv, RecentTurnsStay
<1>5. CursorInv
  BY DEF CursorInv
<1>6. NewestInv
  BY DEF NewestInv
<1> QED BY <1>2, <1>3, <1>4, <1>5, <1>6 DEF IInv

LEMMA RunTurnKeepsIInv == IInv /\ RunTurn => IInv'
<1> SUFFICES ASSUME IInv, RunTurn PROVE IInv'
  OBVIOUS
<1> USE DEF IInv, RunTurn, context, store, sessionQueue, extraction
<1>1. transcript' = Append(transcript, "user") /\ Len(transcript) < MaxMessages - 1
  OBVIOUS
<1>2. MaxMessages \in Nat
  BY SessionAssumption
<1>3. /\ transcript' \in Seq({"user", "plain", "tools"})
      /\ Len(transcript) \in Nat /\ Len(transcript') = Len(transcript) + 1
      /\ \A i \in 1 .. Len(transcript) : transcript'[i] = transcript[i]
      /\ transcript'[Len(transcript) + 1] = "user"
      /\ DOMAIN transcript = 1 .. Len(transcript)
      /\ DOMAIN transcript' = 1 .. Len(transcript) + 1
      /\ transcript' # <<>>
  BY <1>1, AppendKeeps
<1>4. TypeOK'
  BY <1>1, <1>2, <1>3 DEF TypeOK
<1>5. TurnInv'
  BY <1>1, <1>2, <1>3 DEF TurnInv
<1>6. CommitInv' /\ QueueInv'
  BY DEF CommitInv, SummaryCoversBoundary, QueueInv
<1>7. ContextInv'
  <2>1. from \in 1 .. Len(transcript) + 1 /\ from' = from
    BY DEF TypeOK
  <2>2. from = 1 \/ from <= Len(transcript) + 1 - MinimumRecentMessages
    BY DEF ContextInv, RecentTurnsStay
  <2>3. from' <= Len(transcript') /\ (from' = 1 \/ from' <= Len(transcript') + 1 - MinimumRecentMessages)
    BY <1>3, <2>1, <2>2, Bounds
  <2>4. from' > 1 /\ transcript'[from'] # "user" => transcript'[from' - 1] # "user"
    BY <1>3, <2>1 DEF ContextInv, RecentTurnsStay
  <2> QED BY <2>3, <2>4 DEF ContextInv, RecentTurnsStay
<1>8. CursorInv'
  BY <1>3 DEF CursorInv
<1>9. NewestInv'
  BY <1>3 DEF NewestInv, Newest
<1> QED BY <1>4, <1>5, <1>6, <1>7, <1>8, <1>9

LEMMA WaitKeepsIInv == IInv /\ Wait => IInv'
BY DEF IInv, Wait, context, store, sessionQueue, extraction, TypeOK, TurnInv, CommitInv,
       SummaryCoversBoundary, ContextInv, RecentTurnsStay, QueueInv, CursorInv, NewestInv, Newest

LEMMA GenerateKeepsIInv ==
  ASSUME IInv, NEW a \in Answers, Generate(a)
  PROVE  IInv'
<1> USE DEF IInv, Generate, context, store, sessionQueue, extraction
<1> DEFINE n == Len(transcript)
<1>1. transcript' = Append(transcript, a) /\ n < MaxMessages /\ MaxMessages \in Nat
  BY SessionAssumption DEF TurnInv
<1>2. a \in {"user", "plain", "tools"}
  BY SessionAssumption
<1>3. /\ transcript' \in Seq({"user", "plain", "tools"})
      /\ n \in Nat /\ Len(transcript') = n + 1
      /\ \A i \in 1 .. n : transcript'[i] = transcript[i]
      /\ transcript'[n + 1] = a
      /\ DOMAIN transcript = 1 .. n /\ DOMAIN transcript' = 1 .. n + 1
      /\ transcript' # <<>>
  BY <1>1, <1>2, AppendKeeps
<1>4. \/ sCurrent = 0 /\ sCurrent' = n + 1 /\ sPending' = sPending
      \/ sCurrent # 0 /\ sCurrent' = sCurrent /\ sPending' = n + 1
  BY <1>3 DEF Schedule, Idle
<1>5. \/ eCurrent = 0 /\ eCurrent' = n + 1 /\ ePending' = ePending
      \/ eCurrent # 0 /\ eCurrent' = eCurrent /\ ePending' = n + 1
  BY <1>3 DEF Schedule, Idle
<1>6. TypeOK'
  BY <1>1, <1>3, <1>4, <1>5 DEF TypeOK
<1>7. TurnInv'
  BY DEF TurnInv
<1>8. CommitInv'
  BY <1>4 DEF CommitInv, SummaryCoversBoundary
<1>9. ContextInv'
  <2>1. from \in 1 .. n + 1 /\ (from > 1 => from <= n) /\ from' = from
    <3>1. n # 0 => transcript # <<>>
      OBVIOUS
    <3> QED BY <1>3, <3>1 DEF TypeOK, ContextInv
  <2>2. from = 1 \/ from <= n + 1 - MinimumRecentMessages
    BY DEF ContextInv, RecentTurnsStay
  <2>3. from' <= n + 1 /\ (from' = 1 \/ from' <= n + 2 - MinimumRecentMessages)
    BY <1>3, <2>1, <2>2, Bounds
  <2>4. from' > 1 /\ transcript'[from'] # "user" => transcript'[from' - 1] # "user"
    BY <1>3, <2>1 DEF ContextInv, RecentTurnsStay
  <2> QED BY <1>3, <2>1, <2>3, <2>4, Bounds DEF ContextInv, RecentTurnsStay
<1>10. QueueInv'
  BY <1>3, <1>5 DEF QueueInv, TypeOK
<1>11. CursorInv'
  BY <1>3 DEF CursorInv, TypeOK
<1>12. NewestInv'
  <2>1. Newest' = n + 1
    BY <1>3, <1>5 DEF Newest, QueueInv
  <2> QED BY <2>1, <1>3 DEF NewestInv
<1> QED BY <1>6, <1>7, <1>8, <1>9, <1>10, <1>11, <1>12

LEMMA GenerateErrorKeepsIInv == IInv /\ GenerateError => IInv'
BY DEF IInv, GenerateError, context, store, sessionQueue, extraction, TypeOK, TurnInv, CommitInv,
       SummaryCoversBoundary, ContextInv, RecentTurnsStay, QueueInv, CursorInv, NewestInv, Newest

LEMMA CompactKeepsIInv == IInv /\ Compact => IInv'
<1> SUFFICES ASSUME IInv, Compact PROVE IInv'
  OBVIOUS
<1> USE DEF IInv, Compact, context, store, sessionQueue, extraction
<1>1. /\ from' \in 1 .. Len(transcript) + 1 /\ head' \in 0 .. Len(transcript)
      /\ ContextInv'
  <2>1. CASE CompactContext(FALSE)
    BY <2>1, CompactContextKeeps
  <2>2. CASE UNCHANGED context
    BY <2>2 DEF TypeOK, ContextInv, RecentTurnsStay
  <2> QED BY <2>1, <2>2
<1>2. TypeOK'
  BY <1>1 DEF TypeOK
<1>3. TurnInv' /\ CommitInv' /\ QueueInv' /\ CursorInv'
  BY DEF TurnInv, CommitInv, SummaryCoversBoundary, QueueInv, CursorInv
<1>4. NewestInv'
  <2>1. failed => failed'
    OBVIOUS
  <2> QED BY <2>1 DEF NewestInv, Newest
<1> QED BY <1>1, <1>2, <1>3, <1>4

LEMMA UpdateSkippedKeepsIInv == IInv /\ UpdateSkipped => IInv'
<1> SUFFICES ASSUME IInv, UpdateSkipped PROVE IInv'
  OBVIOUS
<1> USE DEF IInv, UpdateSkipped, context, store, extraction, Finish
<1>1. ShouldUpdate(sCurrent) \in BOOLEAN
  BY DEF ShouldUpdate
<1>2. failed' \in BOOLEAN /\ (failed => failed') /\ Len(transcript) \in Nat
  BY <1>1 DEF TypeOK
<1>3. TypeOK'
  BY <1>2 DEF TypeOK
<1>4. TurnInv' /\ CommitInv' /\ ContextInv' /\ QueueInv'
  BY <1>2 DEF TurnInv, CommitInv, SummaryCoversBoundary, ContextInv, RecentTurnsStay, QueueInv
<1>5. CursorInv' /\ NewestInv'
  BY <1>2 DEF CursorInv, NewestInv, Newest
<1> QED BY <1>3, <1>4, <1>5

LEMMA CommitSummaryKeepsIInv == IInv /\ CommitSummary => IInv'
<1> SUFFICES ASSUME IInv, CommitSummary PROVE IInv'
  OBVIOUS
<1> USE DEF IInv, CommitSummary, context, sessionQueue, extraction, Idle
<1>1. TypeOK'
  BY DEF TypeOK
<1>2. summary' = sCurrent /\ boundary < sCurrent
  BY DEF ShouldUpdate, NewMessages, TypeOK
<1>3. TurnInv' /\ CommitInv'
  BY <1>2 DEF TurnInv, CommitInv, SummaryCoversBoundary, TypeOK
<1>4. ContextInv' /\ QueueInv' /\ CursorInv' /\ NewestInv'
  BY DEF ContextInv, RecentTurnsStay, QueueInv, CursorInv, NewestInv, Newest
<1> QED BY <1>1, <1>3, <1>4

LEMMA CommitStateKeepsIInv == IInv /\ CommitState => IInv'
<1> SUFFICES ASSUME IInv, CommitState PROVE IInv'
  OBVIOUS
<1> USE DEF IInv, CommitState, context, extraction, Finish
<1>1. Len(transcript) \in Nat
  BY DEF TypeOK
<1>2. TypeOK'
  <2>1. failed' \in BOOLEAN /\ boundary' \in {boundary, sCurrent}
    BY DEF TypeOK
  <2>2. UNCHANGED <<transcript, pc, from, head, summary, eCurrent, ePending, cursor, extracted>>
        /\ sCurrent' = sPending /\ sPending' = 0 /\ writing' = FALSE
    OBVIOUS
  <2>3. {head', summary', boundary', sCurrent', sPending', eCurrent', ePending', cursor'}
          \subseteq 0 .. Len(transcript')
    BY <1>1, <2>1, <2>2 DEF TypeOK
  <2> QED BY <2>1, <2>2, <2>3 DEF TypeOK
<1>3. TurnInv' /\ CommitInv'
  BY <1>1 DEF TurnInv, CommitInv, SummaryCoversBoundary, TypeOK
<1>4. ContextInv' /\ QueueInv' /\ CursorInv' /\ NewestInv'
  BY DEF ContextInv, RecentTurnsStay, QueueInv, CursorInv, NewestInv, Newest
<1> QED BY <1>2, <1>3, <1>4

LEMMA ExtractKeepsIInv == IInv /\ Extract => IInv'
<1> SUFFICES ASSUME IInv, Extract PROVE IInv'
  OBVIOUS
<1> USE DEF IInv, Extract, context, store, sessionQueue, Finish, Idle
<1> DEFINE Answered ==
      /\ extracted' = [i \in DOMAIN extracted |->
                         extracted[i] + (IF i \in MessagesAfterCursor(eCurrent) THEN 1 ELSE 0)]
      /\ cursor' = eCurrent
      /\ failed' = failed
<1>1. Answered \/ (UNCHANGED <<cursor, extracted>> /\ failed' = TRUE)
  OBVIOUS
<1>2. /\ Len(transcript) \in Nat /\ pc # "off" /\ cursor < eCurrent
      /\ {eCurrent, ePending, cursor} \subseteq 0 .. Len(transcript)
  BY DEF TypeOK, TurnInv, QueueInv
<1>3. TypeOK'
  <2>1. DOMAIN extracted' = 1 .. MaxMessages /\ \A i \in DOMAIN extracted' : extracted'[i] \in Nat
    <3>1. CASE Answered
      <4>1. DOMAIN extracted' = DOMAIN extracted
        BY <3>1
      <4>2. ASSUME NEW i \in DOMAIN extracted PROVE extracted'[i] \in Nat
        BY <3>1, <4>2 DEF TypeOK
      <4> QED BY <4>1, <4>2 DEF TypeOK
    <3>2. CASE UNCHANGED <<cursor, extracted>>
      BY <3>2 DEF TypeOK
    <3> QED BY <1>1, <3>1, <3>2
  <2>2. failed' \in BOOLEAN /\ cursor' \in {cursor, eCurrent}
    BY <1>1 DEF TypeOK
  <2> QED BY <1>2, <2>1, <2>2 DEF TypeOK
<1>4. TurnInv' /\ CommitInv' /\ ContextInv'
  BY <1>1 DEF TurnInv, CommitInv, SummaryCoversBoundary, ContextInv, RecentTurnsStay
<1>5. QueueInv'
  BY <1>1, <1>2 DEF QueueInv
<1>6. CursorInv'
  <2>1. CASE Answered
    <3> SUFFICES ASSUME NEW i \in 1 .. MaxMessages
                 PROVE  extracted'[i] <= 1 /\ (extracted'[i] # 0 => i <= cursor')
      BY <1>2 DEF CursorInv
    <3>1. /\ extracted[i] \in Nat /\ extracted[i] <= 1 /\ (extracted[i] # 0 => i <= cursor)
          /\ extracted'[i] = extracted[i] + (IF i \in MessagesAfterCursor(eCurrent) THEN 1 ELSE 0)
      BY <1>2, <2>1 DEF CursorInv, TypeOK
    <3> QED BY <2>1, <3>1, <1>2, SessionAssumption DEF MessagesAfterCursor
  <2>2. CASE UNCHANGED <<cursor, extracted>>
    BY <2>2 DEF CursorInv
  <2> QED BY <1>1, <2>1, <2>2
<1>7. NewestInv'
  BY <1>1, <1>2 DEF NewestInv, Newest, QueueInv
<1> QED BY <1>3, <1>4, <1>5, <1>6, <1>7

LEMMA CrashKeepsIInv == IInv /\ Crash => IInv'
<1> SUFFICES ASSUME IInv, Crash PROVE IInv'
  OBVIOUS
<1> USE DEF IInv, Crash
<1>1. Len(transcript) \in Nat /\ cursor <= Len(transcript)
  BY DEF TypeOK
<1>2. TypeOK'
  <2>1. {head', summary', boundary', sCurrent', sPending', eCurrent', ePending', cursor'}
          \subseteq 0 .. Len(transcript')
    BY <1>1 DEF TypeOK
  <2>2. from' \in 1 .. Len(transcript') + 1
    BY <1>1
  <2> QED BY <2>1, <2>2 DEF TypeOK
<1>3. TurnInv' /\ CommitInv' /\ QueueInv' /\ NewestInv'
  BY DEF TurnInv, CommitInv, SummaryCoversBoundary, QueueInv, NewestInv
<1>4. ContextInv'
  <2>1. transcript # <<>> => 1 <= Len(transcript)
    BY DEF TypeOK
  <2> QED BY <2>1 DEF ContextInv, RecentTurnsStay
<1>5. CursorInv'
  BY <1>1 DEF CursorInv, TypeOK
<1> QED BY <1>2, <1>3, <1>4, <1>5

LEMMA ResumeKeepsIInv == IInv /\ Resume => IInv'
<1> SUFFICES ASSUME IInv, Resume PROVE IInv'
  OBVIOUS
<1> USE DEF IInv, Resume, store, sessionQueue
<1>1. /\ from' \in 1 .. Len(transcript) + 1 /\ head' \in 0 .. Len(transcript)
      /\ ContextInv'
  <2>1. CASE CompactContext(TRUE)
    BY <2>1, CompactContextKeeps
  <2>2. CASE UNCHANGED context
    BY <2>2 DEF context, TypeOK, ContextInv, RecentTurnsStay
  <2> QED BY <2>1, <2>2
<1>2. TypeOK'
  BY <1>1 DEF TypeOK
<1>3. TurnInv' /\ CommitInv' /\ QueueInv'
  BY DEF TurnInv, CommitInv, SummaryCoversBoundary, QueueInv
<1>4. CursorInv' /\ NewestInv'
  BY DEF CursorInv, NewestInv, TurnInv
<1> QED BY <1>1, <1>2, <1>3, <1>4

LEMMA StutterKeepsIInv == IInv /\ UNCHANGED vars => IInv'
BY DEF IInv, vars, context, store, sessionQueue, extraction, TypeOK, TurnInv, CommitInv,
       SummaryCoversBoundary, ContextInv, RecentTurnsStay, QueueInv, CursorInv, NewestInv, Newest

---------------------------------------------------------------------------
(* The theorems.                                                           *)

\* The inductive invariant holds of every behaviour of the session.
THEOREM InductiveInvariant == Spec => []IInv
<1>1. Init => IInv
  BY InitIInv
<1>2. IInv /\ [Next]_vars => IInv'
  BY RunTurnKeepsIInv, WaitKeepsIInv, GenerateKeepsIInv, GenerateErrorKeepsIInv,
     CompactKeepsIInv, UpdateSkippedKeepsIInv, CommitSummaryKeepsIInv, CommitStateKeepsIInv,
     ExtractKeepsIInv, CrashKeepsIInv, ResumeKeepsIInv, StutterKeepsIInv
     DEF Next, Foreground, Background
<1> QED BY <1>1, <1>2, PTL DEF Spec

\* The variables of the session keep their types: no cursor, boundary, queue or context
\* points behind the end of the transcript, whatever fails.
THEOREM TypeCorrect == Spec => []TypeOK
<1>1. IInv => TypeOK
  BY DEF IInv
<1> QED BY <1>1, InductiveInvariant, PTL

\* The boundary on disk never claims more than the summary on disk tells (Commit).
THEOREM BoundaryIsTold == Spec => []SummaryCoversBoundary
<1>1. IInv => SummaryCoversBoundary
  BY DEF IInv, CommitInv
<1> QED BY <1>1, InductiveInvariant, PTL

\* No compaction cuts into the recent messages or parts an answer from its question.
THEOREM RecentTurnsSurvive == Spec => []RecentTurnsStay
<1>1. IInv => RecentTurnsStay
  BY DEF IInv, ContextInv
<1> QED BY <1>1, InductiveInvariant, PTL

\* No message is extracted twice, with any number of failures, crashes and resumptions.
THEOREM ExtractionIsOnce == Spec => []ExtractedAtMostOnce
<1>1. IInv => ExtractedAtMostOnce
  BY DEF IInv, TypeOK, CursorInv, ExtractedAtMostOnce
<1> QED BY <1>1, InductiveInvariant, PTL

\* Without a failure, an extraction at rest has seen every answer.
THEOREM NoAnswerIsMissed == Spec => []EveryAnswerExtracted
<1>1. IInv => EveryAnswerExtracted
  BY DEF IInv, QueueInv, NewestInv, Newest, EveryAnswerExtracted, Idle
<1> QED BY <1>1, InductiveInvariant, PTL

---------------------------------------------------------------------------
(* NothingForgotten.  It does not hold for every configuration (a turn     *)
(* that ends in a tool call may leave the summary behind), but it does     *)
(* when each answer may move the summary and the context is compacted      *)
(* later than the summary is updated.                                      *)

UpdatesKeepUp ==
  /\ "tools" \in Answers => ToolCallsBetweenUpdates = 1
  /\ MinimumTokensBetweenUpdates + 2 <= CompactTokens

\* As long as nothing fails, the last answer of the transcript.
LastAnswer == IF pc = "idle" THEN Len(transcript) ELSE Len(transcript) - 1
AnswersInv ==
  /\ pc # "idle" => transcript # <<>>
  /\ LastAnswer # 0 => transcript[LastAnswer] \in Answers

\* The goroutine of the summary gets to the last answer; at rest, it has nothing to do there.
SummaryQueueInv ==
  /\ sCurrent = 0 => sPending = 0
  /\ sPending # 0 => sPending = LastAnswer
  /\ sCurrent # 0 /\ sPending = 0 => sCurrent = LastAnswer
  /\ sCurrent = 0 /\ LastAnswer # 0 => ~ShouldUpdate(LastAnswer)
  /\ pc = "compact" => sCurrent = 0

\* What is cut from the context is told by its head, and what the head tells by the summary.
HeadInv ==
  /\ from <= head + 1 /\ head <= boundary
  /\ ~writing => summary = boundary
  /\ pc \in {"wait", "compact"} => Estimate(Len(transcript)) >= CompactTokens

SummaryInv == ~failed => AnswersInv /\ SummaryQueueInv /\ HeadInv

\* What is to be done for a snapshot does not depend on what the transcript gets behind it.
LEMMA LaterMessagesDoNotMatter ==
  ASSUME TypeOK, NEW n \in 1 .. Len(transcript), NEW m \in {"user", "plain", "tools"},
         transcript' = Append(transcript, m), boundary' = boundary
  PROVE  ShouldUpdate(n)' <=> ShouldUpdate(n)
<1>1. \A i \in NewMessages(n) \cup {n} : transcript'[i] = transcript[i]
  BY AppendKeeps DEF NewMessages, TypeOK
<1>2. NewMessages(n)' = NewMessages(n)
  BY DEF NewMessages
<1>3. {i \in NewMessages(n) : transcript'[i] = "tools"} = {i \in NewMessages(n) : transcript[i] = "tools"}
  BY <1>1
<1>4. ToolCalls(NewMessages(n))' = ToolCalls(NewMessages(n))
  BY <1>2, <1>3 DEF ToolCalls
<1>5. NaturalBoundary(n)' <=> NaturalBoundary(n)
  BY <1>1 DEF NaturalBoundary
<1> QED BY <1>2, <1>4, <1>5 DEF ShouldUpdate

\* When the context is too long although it was cut at the boundary, the last answer is due.
LEMMA LongContextIsDue ==
  ASSUME TypeOK, UpdatesKeepUp, AnswersInv, boundary > 0, from = boundary + 1,
         head > 0, pc = "compact", Estimate(Len(transcript)) >= CompactTokens
  PROVE  LastAnswer # 0 /\ ShouldUpdate(LastAnswer)
<1> DEFINE n == LastAnswer
<1>0. /\ Len(transcript) \in Nat /\ n = Len(transcript) - 1 /\ boundary \in Nat /\ head \in Nat
      /\ MinimumTokensBetweenUpdates \in Nat \ {0} /\ CompactTokens \in Nat
  BY SessionAssumption DEF TypeOK, LastAnswer
<1>1. n \in Int /\ n - boundary >= MinimumTokensBetweenUpdates
  <2>1. Estimate(Len(transcript)) = Len(transcript) + 1 - boundary
    BY <1>0 DEF Estimate
  <2>2. \A k \in Nat, b \in Nat, u \in Nat, c \in Nat :
           u + 2 <= c /\ k + 1 - b >= c => k - 1 - b >= u
    OBVIOUS
  <2>3. n \in Int
    BY <1>0
  <2>4. Len(transcript) - 1 - boundary >= MinimumTokensBetweenUpdates
    BY <1>0, <2>1, <2>2 DEF UpdatesKeepUp
  <2> QED BY <1>0, <2>3, <2>4
<1>2. n \in Nat /\ n > boundary
  BY <1>0, <1>1
<1>3. transcript[n] \in Answers
  BY <1>0, <1>2 DEF AnswersInv
<1> HIDE DEF n
<1>4. n \in NewMessages(n)
  BY <1>0, <1>2 DEF NewMessages
<1>5. transcript[n] = "tools" => ToolCalls(NewMessages(n)) >= ToolCallsBetweenUpdates
  <2> SUFFICES ASSUME transcript[n] = "tools" PROVE ToolCalls(NewMessages(n)) >= 1
    BY <1>3 DEF UpdatesKeepUp
  <2> DEFINE calls == {i \in NewMessages(n) : transcript[i] = "tools"}
  <2>1. n \in calls
    BY <1>4
  <2>2. calls \subseteq boundary + 1 .. n
    BY DEF NewMessages
  <2>3. IsFiniteSet(calls)
    <3>1. boundary + 1 \in Int /\ n \in Int
      BY <1>0, <1>2
    <3>2. IsFiniteSet(boundary + 1 .. n)
      BY <3>1, FS_Interval
    <3> QED BY <2>2, <3>2, FS_Subset
  <2>4. Cardinality(calls) \in Nat /\ Cardinality(calls) # 0
    BY <2>1, <2>3, FS_CardinalityType, FS_EmptySet
  <2> HIDE DEF calls
  <2>5. Cardinality(calls) >= 1
    BY <2>4
  <2> QED BY <2>5 DEF ToolCalls, calls
<1>6. transcript[n] = "plain" \/ transcript[n] = "tools"
  BY <1>3, SessionAssumption
<1>7. ShouldUpdate(n)
  BY <1>0, <1>1, <1>2, <1>4, <1>5, <1>6 DEF ShouldUpdate, NaturalBoundary
<1>8. n # 0
  BY <1>0, <1>2
<1> QED BY <1>7, <1>8 DEF n

\* So a compaction never cuts what the summary does not tell.
LEMMA CompactCutsWhatIsTold ==
  ASSUME TypeOK, UpdatesKeepUp, AnswersInv, SummaryQueueInv, HeadInv, pc = "compact",
         ~writing, CompactContext(FALSE)
  PROVE  from' <= head' + 1 /\ head' <= boundary
<1>1. /\ Len(transcript) \in Nat /\ boundary \in Nat /\ head \in Nat /\ from \in Nat
      /\ summary = boundary /\ from <= head + 1 /\ head <= boundary
  BY DEF TypeOK, HeadInv
<1>2. CASE ~CanCompact(FALSE)
  BY <1>1, <1>2 DEF CompactContext, context
<1>3. CASE CanCompact(FALSE)
  <2>1. from' = WithQuestion(KeptFrom) /\ head' = boundary /\ boundary > 0
    BY <1>1, <1>3 DEF CompactContext, CanCompact
  <2>2. BoundaryInContext
    <3> SUFFICES ASSUME ~BoundaryInContext PROVE FALSE
      OBVIOUS
    <3>1. head > 0 /\ from = boundary + 1
      BY <1>1, <1>3 DEF CanCompact, BoundaryInContext
    <3>2. Estimate(Len(transcript)) >= CompactTokens /\ sCurrent = 0
      BY DEF HeadInv, SummaryQueueInv
    <3> QED BY <2>1, <3>1, <3>2, LongContextIsDue DEF SummaryQueueInv
  <2>3. RecentStart \in Int
    BY <1>1, Bounds DEF RecentStart
  <2>4. KeptFrom \in Int /\ KeptFrom <= boundary + 1
    BY <1>1, <2>2, <2>3 DEF KeptFrom, Smaller
  <2>5. WithQuestion(KeptFrom) <= boundary + 1
    BY <1>1, <2>4 DEF WithQuestion
  <2> QED BY <1>1, <2>1, <2>5
<1> QED BY <1>2, <1>3

LEMMA StepKeepsSummaryInv ==
  ASSUME UpdatesKeepUp, IInv, SummaryInv, [Next]_vars
  PROVE  SummaryInv'
<1> SUFFICES ASSUME ~failed' PROVE AnswersInv' /\ SummaryQueueInv' /\ HeadInv'
  BY DEF SummaryInv
<1> USE DEF IInv
<1>1. ~failed
  BY DEF Next, Foreground, Background, RunTurn, Wait, Generate, GenerateError, Compact, UpdateSkipped,
         CommitSummary, CommitState, Extract, Crash, Resume, vars
<1>2. AnswersInv /\ SummaryQueueInv /\ HeadInv /\ TypeOK /\ pc # "off" /\ Len(transcript) \in Nat
  BY <1>1 DEF SummaryInv, TurnInv, TypeOK
<1>3. CASE RunTurn
  <2>1. /\ pc = "idle" /\ pc' \in {"generate", "wait"} /\ transcript' = Append(transcript, "user")
        /\ pc' = "wait" => ~(Estimate(Len(transcript) + 1) < CompactTokens)
        /\ from' = from /\ head' = head /\ boundary' = boundary /\ summary' = summary
        /\ writing' = writing /\ sCurrent' = sCurrent /\ sPending' = sPending
    BY <1>3 DEF RunTurn, context, store, sessionQueue
  <2>2. /\ Len(transcript') = Len(transcript) + 1 /\ transcript' # <<>>
        /\ \A i \in 1 .. Len(transcript) : transcript'[i] = transcript[i]
    BY <1>2, <2>1, AppendKeeps
  <2>3. LastAnswer' = LastAnswer /\ LastAnswer = Len(transcript)
    BY <1>2, <2>1, <2>2 DEF LastAnswer
  <2>4. AnswersInv'
    BY <1>2, <2>1, <2>2, <2>3 DEF AnswersInv
  <2>5. LastAnswer # 0 => (ShouldUpdate(LastAnswer)' <=> ShouldUpdate(LastAnswer))
    <3> SUFFICES ASSUME LastAnswer # 0 PROVE ShouldUpdate(LastAnswer)' <=> ShouldUpdate(LastAnswer)
      OBVIOUS
    <3> DEFINE n == LastAnswer
    <3>1. n \in 1 .. Len(transcript) /\ n' = n
      BY <1>2, <2>3
    <3> HIDE DEF n
    <3>2. \A k \in 1 .. Len(transcript) : ShouldUpdate(k)' <=> ShouldUpdate(k)
      BY <1>2, <2>1, LaterMessagesDoNotMatter
    <3> QED BY <3>1, <3>2 DEF n
  <2>6. SummaryQueueInv'
    BY <1>2, <2>1, <2>3, <2>5 DEF SummaryQueueInv
  <2>7. Estimate(Len(transcript))' = Estimate(Len(transcript) + 1) /\ Estimate(Len(transcript) + 1) \in Int
    BY <1>2, <2>1, <2>2 DEF Estimate, TypeOK
  <2>8. CompactTokens \in Nat
    BY SessionAssumption
  <2>9. HeadInv'
    BY <1>2, <2>1, <2>7, <2>8 DEF HeadInv
  <2> QED BY <2>4, <2>6, <2>9
<1>4. CASE Wait
  <2>1. /\ pc = "wait" /\ pc' = "compact" /\ sCurrent = 0
        /\ UNCHANGED <<transcript, from, head, summary, boundary, writing, sCurrent, sPending>>
    BY <1>4 DEF Wait, Idle, context, store, sessionQueue
  <2> QED BY <1>2, <2>1 DEF AnswersInv, SummaryQueueInv, HeadInv, LastAnswer, ShouldUpdate, NewMessages,
                 ToolCalls, NaturalBoundary, Estimate
<1>5. ASSUME NEW a \in Answers, Generate(a) PROVE AnswersInv' /\ SummaryQueueInv' /\ HeadInv'
  <2>1. /\ pc = "generate" /\ pc' = "idle" /\ transcript' = Append(transcript, a)
        /\ Schedule(sCurrent, sPending, Len(transcript'))
        /\ from' = from /\ head' = head /\ boundary' = boundary /\ summary' = summary
        /\ writing' = writing
    BY <1>5 DEF Generate, context, store
  <2>2. a \in {"user", "plain", "tools"}
    BY SessionAssumption
  <2>3. /\ Len(transcript') = Len(transcript) + 1 /\ transcript'[Len(transcript) + 1] = a
    BY <1>2, <2>1, <2>2, AppendKeeps
  <2>4. LastAnswer' = Len(transcript) + 1
    BY <2>1, <2>3 DEF LastAnswer
  <2>5. AnswersInv'
    BY <1>2, <2>1, <2>3, <2>4 DEF AnswersInv
  <2>6. SummaryQueueInv'
    BY <1>2, <2>1, <2>3, <2>4 DEF SummaryQueueInv, Schedule, Idle
  <2>7. HeadInv'
    BY <1>2, <2>1 DEF HeadInv
  <2> QED BY <2>5, <2>6, <2>7
<1>6. CASE Compact
  <2>1. /\ pc = "compact" /\ pc' = "generate" /\ ~writing /\ CompactContext(FALSE)
        /\ UNCHANGED <<transcript, summary, boundary, writing, sCurrent, sPending>>
    BY <1>6 DEF Compact, store, sessionQueue
  <2>2. from' <= head' + 1 /\ head' <= boundary
    BY <1>2, <2>1, CompactCutsWhatIsTold
  <2>3. HeadInv'
    BY <1>2, <2>1, <2>2 DEF HeadInv
  <2>4. AnswersInv' /\ SummaryQueueInv'
    BY <1>2, <2>1 DEF AnswersInv, SummaryQueueInv, LastAnswer, ShouldUpdate, NewMessages, ToolCalls,
         NaturalBoundary
  <2> QED BY <2>3, <2>4
<1>7. CASE UpdateSkipped
  <2>1. /\ sCurrent # 0 /\ ~writing /\ ~ShouldUpdate(sCurrent) /\ sCurrent' = sPending /\ sPending' = 0
        /\ UNCHANGED <<transcript, pc, from, head, summary, boundary, writing>>
    BY <1>7 DEF UpdateSkipped, Finish, Idle, context, store
  <2>2. AnswersInv' /\ HeadInv' /\ LastAnswer' = LastAnswer
    BY <1>2, <2>1 DEF AnswersInv, HeadInv, LastAnswer, Estimate
  <2>3. ShouldUpdate(LastAnswer)' <=> ShouldUpdate(LastAnswer)
    BY <2>1 DEF LastAnswer, ShouldUpdate, NewMessages, ToolCalls, NaturalBoundary
  <2>4. SummaryQueueInv'
    BY <1>2, <2>1, <2>2, <2>3 DEF SummaryQueueInv
  <2> QED BY <2>2, <2>4
<1>8. CASE CommitSummary
  <2>1. /\ sCurrent # 0 /\ writing'
        /\ UNCHANGED <<transcript, pc, from, head, boundary, sCurrent, sPending>>
    BY <1>8 DEF CommitSummary, Idle, context, sessionQueue
  <2> QED BY <1>2, <2>1 DEF AnswersInv, SummaryQueueInv, HeadInv, LastAnswer, Estimate
<1>9. CASE CommitState
  <2>1. /\ writing /\ ~writing' /\ boundary' = sCurrent /\ sCurrent' = sPending /\ sPending' = 0
        /\ UNCHANGED <<transcript, pc, from, head, summary>>
    BY <1>9 DEF CommitState, Finish, context
  <2>2. sCurrent # 0 /\ summary = sCurrent /\ boundary <= summary
        /\ {sCurrent, boundary, head, summary} \subseteq Nat
    BY <2>1 DEF CommitInv, SummaryCoversBoundary, TypeOK
  <2>3. AnswersInv' /\ LastAnswer' = LastAnswer
    BY <1>2, <2>1 DEF AnswersInv, LastAnswer
  <2>4. HeadInv'
    BY <1>2, <2>1, <2>2 DEF HeadInv, Estimate
  <2>5. \A n \in Nat : n = sCurrent => ~ShouldUpdate(n)'
    <3>1. ASSUME NEW n \in Nat, n = sCurrent PROVE ~ShouldUpdate(n)'
      <4>1. NewMessages(n)' = boundary' + 1 .. n
        BY DEF NewMessages
      <4>2. NewMessages(n)' = {}
        BY <2>1, <3>1, <4>1
      <4> QED BY <4>2 DEF ShouldUpdate
    <3> QED BY <3>1
  <2>6. sPending = 0 => ~ShouldUpdate(LastAnswer)'
    <3> SUFFICES ASSUME sPending = 0 PROVE ~ShouldUpdate(LastAnswer)'
      OBVIOUS
    <3> DEFINE m == LastAnswer
    <3>1. m = sCurrent /\ m \in Nat /\ m' = m
      BY <1>2, <2>2, <2>3 DEF SummaryQueueInv
    <3> HIDE DEF m
    <3>2. \A n \in Nat : n = m => ~ShouldUpdate(n)'
      BY <2>5, <3>1
    <3> QED BY <3>1, <3>2 DEF m
  <2>7. SummaryQueueInv'
    BY <1>2, <2>1, <2>2, <2>3, <2>6 DEF SummaryQueueInv
  <2> QED BY <2>3, <2>4, <2>7
<1>10. CASE Extract
  <2>1. UNCHANGED <<transcript, pc, from, head, summary, boundary, writing, sCurrent, sPending>>
    BY <1>10 DEF Extract, context, store, sessionQueue
  <2> QED BY <1>2, <2>1 DEF AnswersInv, SummaryQueueInv, HeadInv, LastAnswer, Estimate, ShouldUpdate,
                 NewMessages, ToolCalls, NaturalBoundary
<1>11. CASE UNCHANGED vars
  <2>1. UNCHANGED <<transcript, pc, from, head, summary, boundary, writing, sCurrent, sPending>>
    BY <1>11 DEF vars, context, store, sessionQueue
  <2> QED BY <1>2, <2>1 DEF AnswersInv, SummaryQueueInv, HeadInv, LastAnswer, Estimate, ShouldUpdate,
                 NewMessages, ToolCalls, NaturalBoundary
<1>12. ~GenerateError /\ ~Crash /\ ~Resume
  BY <1>2 DEF GenerateError, Crash, Resume
<1> QED BY <1>3, <1>4, <1>5, <1>6, <1>7, <1>8, <1>9, <1>10, <1>11, <1>12 DEF Next, Foreground, Background

\* If each answer may move the summary and the context is compacted later than the summary is
\* updated, then without a failure every message is in the context or told by the summary at
\* its head, however long the conversation (SessionCompactor, session_compactor.go:9).
THEOREM NothingForgottenWhileUpdatesKeepUp == ASSUME UpdatesKeepUp PROVE Spec => []NothingForgotten
<1>1. Init => SummaryInv
  <2> SUFFICES ASSUME Init PROVE SummaryInv
    OBVIOUS
  <2>1. Len(transcript) = 0
    BY EmptyTranscript DEF Init
  <2> QED BY <2>1 DEF Init, InitStore, SummaryInv, AnswersInv, SummaryQueueInv, HeadInv, LastAnswer
<1>2. IInv /\ SummaryInv /\ [Next]_vars => SummaryInv'
  BY StepKeepsSummaryInv
<1>3. SummaryInv => NothingForgotten
  BY DEF SummaryInv, HeadInv, NothingForgotten
<1> QED BY <1>1, <1>2, <1>3, InductiveInvariant, PTL DEF Spec
=============================================================================
