---------------------------- MODULE SalesTurnLoop ----------------------------
(***************************************************************************)
(* cmd/turnloop-agent: one sales conversation over adk's TurnLoop.  Each   *)
(* customer message gets a sequence number and is pushed; a push while a   *)
(* turn runs asks for its preemption; a turn consumes everything buffered  *)
(* and everything that earlier, discarded turns had consumed.  The loop    *)
(* itself is adk's: it runs one turn at a time and hands it the whole      *)
(* buffer.                                                                 *)
(***************************************************************************)
EXTENDS FiniteSets, Integers

CONSTANTS MaxMessages, Pushers    \* Pushers: calls of PushUserMessage in flight

VARIABLES
  latestSequence,  \* messages numbered so far
  pushing,         \* numbered, not yet in the loop
  inbox,           \* the loop's buffer
  turn,            \* what the running turn consumed ({}: no turn)
  preemptAsked,    \* a push asked for the preemption of the running turn
  interrupted,     \* inputs of discarded turns
  final,           \* inputs of the answer nobody has read yet ({}: channel empty)
  answered,        \* inputs of the answers WaitAnswer returned
  lost,            \* messages whose push or whose turn returned an error
  loop             \* "running", "stopping" (Stop was called) or "ended"

conversation == <<pushing, inbox, turn, preemptAsked, interrupted, final, answered, lost>>
turnloopVars == <<latestSequence, conversation, loop>>

Latest(items) == CHOOSE n \in items : \A k \in items : k <= n

Init ==
  /\ latestSequence = 0
  /\ pushing = {} /\ inbox = {} /\ turn = {} /\ preemptAsked = FALSE
  /\ interrupted = {} /\ final = {} /\ answered = {} /\ lost = {}
  /\ loop = "running"

\* PushUserMessage up to s.mu.Unlock: the number, and the end of an unread answer.
NextItem ==
  /\ loop # "stopping" /\ latestSequence < MaxMessages
  /\ Cardinality(pushing) < Pushers
  /\ latestSequence' = latestSequence + 1
  /\ pushing' = pushing \cup {latestSequence + 1}
  /\ interrupted' = interrupted \cup final
  /\ final' = {}
  /\ UNCHANGED <<inbox, turn, preemptAsked, answered, lost, loop>>

\* loop.Push with preemptActiveTurn: a preemption is asked only of a running turn.
Push(n) ==
  /\ pushing' = pushing \ {n}
  /\ \/ /\ loop = "running"
        /\ inbox' = inbox \cup {n}
        /\ preemptAsked' = (preemptAsked \/ turn # {})
        /\ UNCHANGED lost
     \/ /\ loop # "running"
        /\ lost' = lost \cup {n}
        /\ UNCHANGED <<inbox, preemptAsked>>
  /\ UNCHANGED <<latestSequence, turn, interrupted, final, answered, loop>>

\* GenInput: prepareBatch empties the interrupted inputs into the turn.
BeginTurnWithoutInterrupted ==              \* mutant: the batch is only what is new
  /\ loop = "running" /\ turn = {} /\ inbox # {}
  /\ turn' = inbox
  /\ inbox' = {} /\ interrupted' = {} /\ preemptAsked' = FALSE
  /\ UNCHANGED <<latestSequence, pushing, final, answered, lost, loop>>
BeginTurn ==
  /\ loop = "running" /\ turn = {} /\ inbox # {}
  /\ turn' = interrupted \cup inbox
  /\ inbox' = {} /\ interrupted' = {} /\ preemptAsked' = FALSE
  /\ UNCHANGED <<latestSequence, pushing, final, answered, lost, loop>>

\* markPreempted: the preemption reached the turn before its events ended.
TurnPreempted ==
  /\ turn # {} /\ preemptAsked
  /\ interrupted' = interrupted \cup turn
  /\ turn' = {} /\ preemptAsked' = FALSE
  /\ UNCHANGED <<latestSequence, pushing, inbox, final, answered, lost, loop>>

\* markCompleted: an answer that misses the newest message is discarded too, and
\* an answer that finds one unread in the channel is dropped.
TurnCompletedStale ==                 \* mutant: <= for <, every answer is stale
  /\ turn # {} /\ Latest(turn) <= latestSequence
  /\ interrupted' = interrupted \cup turn
  /\ turn' = {} /\ preemptAsked' = FALSE
  /\ UNCHANGED <<latestSequence, pushing, inbox, final, answered, lost, loop>>
TurnCompleted ==
  /\ turn # {}
  /\ \/ /\ Latest(turn) < latestSequence
        /\ interrupted' = interrupted \cup turn
        /\ UNCHANGED final
     \/ /\ Latest(turn) = latestSequence
        /\ final' = IF final = {} THEN turn ELSE final
        /\ UNCHANGED interrupted
  /\ turn' = {} /\ preemptAsked' = FALSE
  /\ UNCHANGED <<latestSequence, pushing, inbox, answered, lost, loop>>

\* handleAgentEvents returns an error that is not a preemption: the loop ends.
TurnFailed ==
  /\ turn # {}
  /\ loop' = IF loop = "running" THEN "ended" ELSE loop
  /\ lost' = lost \cup turn
  /\ turn' = {} /\ preemptAsked' = FALSE
  /\ UNCHANGED <<latestSequence, pushing, inbox, interrupted, final, answered>>

\* WaitAnswer with an answer in the channel; a timeout of it changes nothing.
WaitAnswer ==
  /\ final # {}
  /\ answered' = answered \cup final
  /\ final' = {}
  /\ UNCHANGED <<latestSequence, pushing, inbox, turn, preemptAsked, interrupted, lost, loop>>

\* session.Stop: immediate, the running turn and the buffer stay unanswered.
Stop ==
  /\ loop # "stopping"
  /\ loop' = "stopping"
  /\ UNCHANGED <<latestSequence, conversation>>

Next ==
  \/ NextItem
  \/ \E n \in pushing : Push(n)
  \/ BeginTurn
  \/ TurnPreempted
  \/ TurnCompleted
  \/ TurnFailed
  \/ WaitAnswer
  \/ Stop

\* The caller's goroutine finishes its push, the loop's goroutine its turn (a model
\* call ends), and somebody reads the answers.
Fairness ==
  /\ WF_turnloopVars(\E n \in pushing : Push(n))
  /\ WF_turnloopVars(BeginTurn)
  /\ WF_turnloopVars(TurnPreempted \/ TurnCompleted \/ TurnFailed)
  /\ WF_turnloopVars(WaitAnswer)

---------------------------------------------------------------------------

TypeOK ==
  /\ latestSequence \in 0..MaxMessages
  /\ {pushing, inbox, turn, interrupted, final, answered, lost}
       \subseteq SUBSET (1..latestSequence)
  /\ preemptAsked \in BOOLEAN
  /\ loop \in {"running", "stopping", "ended"}

\* While the loop runs, the answer waiting to be read covers every message the
\* customer has sent and nobody has answered: no preemption, late completion or
\* unread answer makes one fall out of the batch ("保证下一轮模型看到完整用户意图").
AnswerIsComplete ==
  final # {} => 1..latestSequence \subseteq final \cup answered \cup lost

\* Each message the customer sends is answered, unless the loop fails or is stopped.
EveryMessageAnswered ==
  \A n \in 1..MaxMessages : latestSequence >= n ~> n \in answered \/ loop # "running"
=============================================================================
