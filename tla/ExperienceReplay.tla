-------------------------- MODULE ExperienceReplay --------------------------
(***************************************************************************)
(* reflection/replay: traces of runs are kept, every failure is reflected  *)
(* on, and when failures become frequent lessons are drawn from them and   *)
(* shown to later runs, the most effective first.                          *)
(***************************************************************************)
EXTENDS FiniteSets, Integers, Sequences

CONSTANTS
  Batch, CompareWindow,     \* traces between two extractions, and in each of the windows compared
  MaxLessons,        \* lessons shown
  MaxTraces, MaxUses \* MaxTraces is at most 20, the traces a lesson is drawn from

VARIABLES
  traces,        \* the outcome of each run
  reflections,   \* indices of the traces reflected on
  lessons,       \* [at, sources, applied, succeeded]
  extractedAt,   \* lastExtractionAt
  shown          \* the lessons in the answer to the last call, when it was Advise

replayVars == <<traces, reflections, lessons, extractedAt, shown>>

Init == traces = <<>> /\ reflections = <<>> /\ lessons = <<>> /\ extractedAt = 0 /\ shown = {}

Failures(ts) == {i \in DOMAIN ts : ts[i] = "failure"}
FailuresIn(ts, first, last) == Cardinality({i \in first..last : ts[i] = "failure"})

ShouldExtractAlways(ts) ==            \* mutant: without the pause between two extractions
  LET n == Len(ts)
  IN /\ n >= 2 * CompareWindow
     /\ 2 * FailuresIn(ts, n - CompareWindow + 1, n) > 3 * FailuresIn(ts, n - 2 * CompareWindow + 1, n - CompareWindow)
\* shouldExtractLessons, with the spike of 3/2 that is its default.
ShouldExtract(ts) ==
  LET n == Len(ts)
  IN /\ n - extractedAt >= Batch /\ n >= 2 * CompareWindow
     /\ 2 * FailuresIn(ts, n - CompareWindow + 1, n) > 3 * FailuresIn(ts, n - 2 * CompareWindow + 1, n - CompareWindow)

\* RecordTrace: the trace stays when the call that reflects on it or draws the lessons fails, and
\* one failure among the recent traces uses up the extraction without a lesson.
RecordTrace ==
  /\ Len(traces) < MaxTraces
  /\ \E outcome \in {"success", "failure"}, reflects, extracts \in BOOLEAN, found \in 0..1 :
       LET ts == Append(traces, outcome)
           goesOn == outcome = "success" \/ reflects
           many == Cardinality(Failures(ts)) >= 2
       IN /\ traces' = ts
          /\ reflections' = IF outcome = "failure" /\ reflects THEN Append(reflections, Len(ts)) ELSE reflections
          /\ IF goesOn /\ ShouldExtract(ts) /\ (many => extracts)
             THEN /\ lessons' = IF ~many \/ found = 0 THEN lessons
                       ELSE Append(lessons, [at |-> Len(ts), sources |-> Failures(ts),
                                             applied |-> 0, succeeded |-> 0])
                  /\ extractedAt' = Len(ts)
             ELSE UNCHANGED <<lessons, extractedAt>>
  /\ shown' = {}

\* Lesson.Effectiveness, as a fraction; one never applied counts a half.
Effectiveness(l) == IF l.applied = 0 THEN <<1, 2>> ELSE <<l.succeeded, l.applied>>
Better(l, k) == Effectiveness(l)[1] * Effectiveness(k)[2] > Effectiveness(k)[1] * Effectiveness(l)[2]

RelevantFirst == {i \in DOMAIN lessons : i <= MaxLessons}  \* mutant: the cut without the sort
\* GetRelevantExperience: a stable sort, cut at MaxLessons.
Relevant ==
  {i \in DOMAIN lessons :
     Cardinality({j \in DOMAIN lessons : Better(lessons[j], lessons[i])
                    \/ (j < i /\ ~Better(lessons[i], lessons[j]))}) < MaxLessons}
Advise ==
  /\ shown' = Relevant
  /\ UNCHANGED <<traces, reflections, lessons, extractedAt>>

\* UpdateLessonEffectiveness: the index is that of the list, not of what was shown.
UpdateLesson ==
  /\ \E i \in DOMAIN lessons, ok \in BOOLEAN :
       /\ lessons[i].applied < MaxUses
       /\ lessons' = [lessons EXCEPT ![i].applied = @ + 1,
                                     ![i].succeeded = IF ok THEN @ + 1 ELSE @]
  /\ shown' = {}
  /\ UNCHANGED <<traces, reflections, extractedAt>>

Next == RecordTrace \/ Advise \/ UpdateLesson
Spec == Init /\ [][Next]_replayVars

-----------------------------------------------------------------------------
TypeOK ==
  /\ traces \in Seq({"success", "failure"}) /\ Len(traces) <= MaxTraces
  /\ extractedAt \in 0..Len(traces)
  /\ \A i \in DOMAIN lessons : lessons[i].succeeded <= lessons[i].applied
  /\ shown \subseteq DOMAIN lessons

\* A lesson has two failures or more behind it, the next comes a batch of traces later, and no
\* lesson is shown while a more effective one is left out.
LessonsAreEarned ==
  /\ \A i \in DOMAIN lessons : Cardinality(lessons[i].sources \cap Failures(traces)) >= 2
  /\ \A i, j \in DOMAIN lessons : i < j => lessons[j].at - lessons[i].at >= Batch
  /\ \A i \in shown, j \in DOMAIN lessons \ shown : ~Better(lessons[j], lessons[i])
=============================================================================
