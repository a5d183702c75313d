------------------------ MODULE PermissionGateProofs ------------------------
(***************************************************************************)
(* For every set of calls and hooks and every size of the queue: one       *)
(* answer wins the race for a call (OneAnswer), a hook's answer counts,    *)
(* and the gate implements FirstAnswer.  For hooks and rules of any        *)
(* number: no objection makes the policy's outcome milder.                 *)
(*                                                                         *)
(* OneAnswer is not inductive.  A claim leads from "pending" to one        *)
(* holder, but Register must not make a call pending that is already       *)
(* answered: before it no hook has run (Early), nothing is sent            *)
(* (NotAsked), and no result is there while the goroutine still runs       *)
(* (Running).  ErrorIsCancelled is for the refinement: an error of the     *)
(* goroutine that the call still sees means that the call is cancelled.    *)
(***************************************************************************)
EXTENDS PermissionGate, TLAPS, WellFoundedInduction, SequenceTheorems

\* TypeOK, with Calls in the place of Asked.
Types ==
  /\ call \in [Calls -> {"idle", "starting", "waiting", "returned"}]
  /\ result \in [Calls -> Answer \cup {"error", "none"}]
  /\ \A c \in Calls : call[c] = "returned" <=> result[c] # "none"
  /\ broker \in [Calls -> {"off", "register", "publish", "await", "ended"}]
  /\ pending \subseteq Calls
  /\ response \in [Calls -> Answer \cup {"none"}]
  /\ brokerResult \in [Calls -> Answer \cup {"error", "none"}]
  /\ requests \in Seq(Calls) /\ Len(requests) <= Buffer
  /\ hook \in [Calls -> [Hooks -> Answer \cup {"off", "running", "ended"}]]
  /\ prompt \in Calls \cup {NoRequest}
  /\ typed \in Answer \cup {"none"}
  /\ typed # "none" => prompt # NoRequest
  /\ cancelled \subseteq Calls
  /\ host \in Hosts

\* Hooks start after the request is registered.
Early ==
  \A c \in Calls :
    /\ call[c] \in {"idle", "starting"} => \A h \in Hooks : hook[c][h] = "off"
    /\ call[c] = "idle" => broker[c] = "off"
    /\ call[c] = "waiting" => broker[c] \notin {"off", "register"}
    /\ call[c] = "starting" => broker[c] # "off"

\* Before it is registered a request is nowhere.
NotAsked ==
  \A c \in Calls : broker[c] \in {"off", "register"} =>
    /\ c \notin pending /\ prompt # c /\ response[c] = "none"
    /\ \A h \in Hooks : ~HookHolds(c, h)
    /\ \A i \in DOMAIN requests : requests[i] # c

Running == \A c \in Calls : broker[c] # "ended" => brokerResult[c] = "none"

ErrorIsCancelled ==
  \A c \in Calls : brokerResult[c] = "error" => RunContextDone(c)

IInv == Types /\ Early /\ NotAsked /\ Running /\ ErrorIsCancelled /\ OneAnswer /\ EndedIsNotPending

---------------------------------------------------------------------------

LEMMA InitInvariant == Init => IInv
<1> SUFFICES ASSUME Init PROVE IInv
  OBVIOUS
<1> QED
  BY NoRequestAssumption, GateAssumption DEF Init, IInv, Types, Early, NotAsked, Running, ErrorIsCancelled, OneAnswer,
     EndedIsNotPending, Answer, HookHolds, TerminalHolds, Delivered, RunContextDone

\* Evaluate always decides: Passthrough is no outcome.
LEMMA EvaluateBehavior == \A i : Evaluate(i) \in Behavior
BY DEF Evaluate, ApplyDontAsk, Behavior

LEMMA AuthorizeInvariant == ASSUME NEW c \in Calls, NEW i \in Inputs, IInv, Authorize(c, i) PROVE IInv'
<1> USE NoRequestAssumption, GateAssumption DEF IInv, Types, Answer, NoRequest, Returns, answerVars
<1>1. CASE Evaluate(i) = "ask"
  <2>1. /\ call[c] = "idle" /\ call' = [call EXCEPT ![c] = "starting"]
        /\ broker' = [broker EXCEPT ![c] = "register"]
        /\ UNCHANGED <<result, cancelled, pending, response, brokerResult, requests, hook, prompt,
                       typed, host>>
    BY <1>1 DEF Authorize
  <2>2. Types' /\ Early'
    BY <2>1 DEF Early
  <2>3. NotAsked' /\ Running'
    BY <2>1 DEF NotAsked, HookHolds, Early, Running
  <2>4. ErrorIsCancelled'
    BY <2>1 DEF ErrorIsCancelled, RunContextDone
  <2>5. OneAnswer' /\ EndedIsNotPending'
    BY <2>1 DEF OneAnswer, HookHolds, TerminalHolds, Delivered, EndedIsNotPending
  <2> QED
    BY <2>2, <2>3, <2>4, <2>5
<1>2. CASE Evaluate(i) # "ask"
  <2>1. /\ call[c] = "idle" /\ call' = [call EXCEPT ![c] = "returned"]
        /\ Evaluate(i) \in Answer /\ result' = [result EXCEPT ![c] = Evaluate(i)]
        /\ UNCHANGED <<broker, cancelled, pending, response, brokerResult, requests, hook, prompt,
                       typed, host>>
    BY <1>2, EvaluateBehavior DEF Authorize, Behavior
  <2>2. Types' /\ Early'
    BY <2>1 DEF Early
  <2>3. NotAsked' /\ Running'
    BY <2>1 DEF NotAsked, HookHolds, Running
  <2>4. ErrorIsCancelled'
    BY <2>1 DEF ErrorIsCancelled, RunContextDone
  <2>5. OneAnswer' /\ EndedIsNotPending'
    BY <2>1 DEF OneAnswer, HookHolds, TerminalHolds, Delivered, EndedIsNotPending
  <2> QED
    BY <2>2, <2>3, <2>4, <2>5
<1> QED
  BY <1>1, <1>2

LEMMA AuthorizeErrorInvariant == ASSUME NEW c \in Calls, IInv, AuthorizeError(c) PROVE IInv'
<1> USE NoRequestAssumption, GateAssumption DEF IInv, Types, Answer, NoRequest, AuthorizeError, Returns, brokerVars, answerVars
<1>1. Types'
  BY DEF Early
<1>2. Early'
  BY DEF Early
<1>3. NotAsked'
  BY DEF NotAsked, HookHolds, Early
<1>4. Running'
  BY DEF Running
<1>5. ErrorIsCancelled'
  BY DEF ErrorIsCancelled, RunContextDone, Running
<1>6. OneAnswer'
  BY DEF OneAnswer, NotAsked, Running, Early, HookHolds, TerminalHolds, Delivered
<1>7. EndedIsNotPending'
  BY DEF EndedIsNotPending, OneAnswer, TerminalHolds, Delivered
<1> QED
  BY <1>1, <1>2, <1>3, <1>4, <1>5, <1>6, <1>7 DEF IInv

LEMMA StartHooksInvariant == ASSUME NEW c \in Calls, IInv, StartHooks(c) PROVE IInv'
<1> USE NoRequestAssumption, GateAssumption DEF IInv, Types, Answer, NoRequest, StartHooks, brokerVars
<1>1. Types'
  BY DEF Early
<1>2. Early'
  BY DEF Early
<1>3. NotAsked'
  BY DEF NotAsked, HookHolds, Early
<1>4. Running'
  BY DEF Running
<1>5. ErrorIsCancelled'
  BY DEF ErrorIsCancelled, RunContextDone, Running
<1>6. OneAnswer'
  BY DEF OneAnswer, NotAsked, Running, Early, HookHolds, TerminalHolds, Delivered
<1>7. EndedIsNotPending'
  BY DEF EndedIsNotPending, OneAnswer, TerminalHolds, Delivered
<1> QED
  BY <1>1, <1>2, <1>3, <1>4, <1>5, <1>6, <1>7 DEF IInv

LEMMA ReturnErrorInvariant == ASSUME NEW c \in Calls, IInv, ReturnError(c) PROVE IInv'
<1> USE NoRequestAssumption, GateAssumption DEF IInv, Types, Answer, NoRequest, ReturnError, Returns, brokerVars, answerVars
<1>1. Types'
  BY DEF Early
<1>2. Early'
  BY DEF Early
<1>3. NotAsked'
  BY DEF NotAsked, HookHolds, Early
<1>4. Running'
  BY DEF Running
<1>5. ErrorIsCancelled'
  BY DEF ErrorIsCancelled, RunContextDone, Running
<1>6. OneAnswer'
  BY DEF OneAnswer, NotAsked, Running, Early, HookHolds, TerminalHolds, Delivered
<1>7. EndedIsNotPending'
  BY DEF EndedIsNotPending, OneAnswer, TerminalHolds, Delivered
<1> QED
  BY <1>1, <1>2, <1>3, <1>4, <1>5, <1>6, <1>7 DEF IInv

LEMMA ReturnResponseInvariant == ASSUME NEW c \in Calls, IInv, ReturnResponse(c) PROVE IInv'
<1> USE NoRequestAssumption, GateAssumption DEF IInv, Types, Answer, NoRequest, ReturnResponse, Returns, brokerVars, answerVars
<1>1. Types'
  BY DEF Early
<1>2. Early'
  BY DEF Early
<1>3. NotAsked'
  BY DEF NotAsked, HookHolds, Early
<1>4. Running'
  BY DEF Running
<1>5. ErrorIsCancelled'
  BY DEF ErrorIsCancelled, RunContextDone, Running
<1>6. OneAnswer'
  BY DEF OneAnswer, NotAsked, Running, Early, HookHolds, TerminalHolds, Delivered
<1>7. EndedIsNotPending'
  BY DEF EndedIsNotPending, OneAnswer, TerminalHolds, Delivered
<1> QED
  BY <1>1, <1>2, <1>3, <1>4, <1>5, <1>6, <1>7 DEF IInv

LEMMA CancelInvariant == ASSUME NEW c \in Calls, IInv, Cancel(c) PROVE IInv'
<1> USE NoRequestAssumption, GateAssumption DEF IInv, Types, Answer, NoRequest, Cancel, brokerVars, answerVars
<1>1. Types'
  BY DEF Early
<1>2. Early'
  BY DEF Early
<1>3. NotAsked'
  BY DEF NotAsked, HookHolds, Early
<1>4. Running'
  BY DEF Running
<1>5. ErrorIsCancelled'
  BY DEF ErrorIsCancelled, RunContextDone, Running
<1>6. OneAnswer'
  BY DEF OneAnswer, NotAsked, Running, Early, HookHolds, TerminalHolds, Delivered
<1>7. EndedIsNotPending'
  BY DEF EndedIsNotPending, OneAnswer, TerminalHolds, Delivered
<1> QED
  BY <1>1, <1>2, <1>3, <1>4, <1>5, <1>6, <1>7 DEF IInv

LEMMA RegisterInvariant == ASSUME NEW c \in Calls, IInv, Register(c) PROVE IInv'
<1> USE NoRequestAssumption, GateAssumption DEF IInv, Types, Answer, NoRequest, Register, callVars, answerVars
<1>1. Types'
  BY DEF Early
<1>2. Early'
  BY DEF Early
<1>3. NotAsked'
  BY DEF NotAsked, HookHolds, Early
<1>4. Running'
  BY DEF Running
<1>5. ErrorIsCancelled'
  BY DEF ErrorIsCancelled, RunContextDone, Running
<1>6. OneAnswer'
  BY DEF OneAnswer, NotAsked, Running, Early, HookHolds, TerminalHolds, Delivered
<1>7. EndedIsNotPending'
  BY DEF EndedIsNotPending, OneAnswer, TerminalHolds, Delivered
<1> QED
  BY <1>1, <1>2, <1>3, <1>4, <1>5, <1>6, <1>7 DEF IInv

LEMMA PublishInvariant == ASSUME NEW c \in Calls, IInv, Publish(c) PROVE IInv'
<1> USE NoRequestAssumption, GateAssumption DEF IInv, Types, Answer, NoRequest, Publish, callVars, answerVars
<1>1. Types'
  BY DEF Early
<1>2. Early'
  BY DEF Early
<1>3. NotAsked'
  BY DEF NotAsked, HookHolds, Early
<1>4. Running'
  BY DEF Running
<1>5. ErrorIsCancelled'
  BY DEF ErrorIsCancelled, RunContextDone, Running
<1>6. OneAnswer'
  BY DEF OneAnswer, NotAsked, Running, Early, HookHolds, TerminalHolds, Delivered
<1>7. EndedIsNotPending'
  BY DEF EndedIsNotPending, OneAnswer, TerminalHolds, Delivered
<1> QED
  BY <1>1, <1>2, <1>3, <1>4, <1>5, <1>6, <1>7 DEF IInv

LEMMA TakeInvariant == ASSUME NEW c \in Calls, IInv, Take(c) PROVE IInv'
<1> USE NoRequestAssumption, GateAssumption DEF IInv, Types, Answer, NoRequest, Take, callVars, answerVars
<1>1. Types'
  BY DEF Early
<1>2. Early'
  BY DEF Early
<1>3. NotAsked'
  BY DEF NotAsked, HookHolds, Early
<1>4. Running'
  BY DEF Running
<1>5. ErrorIsCancelled'
  BY DEF ErrorIsCancelled, RunContextDone, Running
<1>6. OneAnswer'
  BY DEF OneAnswer, NotAsked, Running, Early, HookHolds, TerminalHolds, Delivered
<1>7. EndedIsNotPending'
  BY DEF EndedIsNotPending, OneAnswer, TerminalHolds, Delivered
<1> QED
  BY <1>1, <1>2, <1>3, <1>4, <1>5, <1>6, <1>7 DEF IInv

LEMMA AbandonInvariant == ASSUME NEW c \in Calls, IInv, Abandon(c) PROVE IInv'
<1> USE NoRequestAssumption, GateAssumption DEF IInv, Types, Answer, NoRequest, Abandon, callVars, answerVars
<1>1. Types'
  BY DEF Early
<1>2. Early'
  BY DEF Early
<1>3. NotAsked'
  BY DEF NotAsked, HookHolds, Early
<1>4. Running'
  BY DEF Running
<1>5. ErrorIsCancelled'
  BY DEF ErrorIsCancelled, RunContextDone, Running
<1>6. OneAnswer'
  BY DEF OneAnswer, NotAsked, Running, Early, HookHolds, TerminalHolds, Delivered
<1>7. EndedIsNotPending'
  BY DEF EndedIsNotPending, OneAnswer, TerminalHolds, Delivered
<1> QED
  BY <1>1, <1>2, <1>3, <1>4, <1>5, <1>6, <1>7 DEF IInv

LEMMA HookClaimsInvariant == ASSUME NEW c \in Calls, NEW h \in Hooks, NEW a \in Answer, IInv, HookClaims(c, h, a) PROVE IInv'
<1> USE NoRequestAssumption, GateAssumption DEF IInv, Types, Answer, NoRequest, HookClaims, Hook, Claim, callVars
<1>1. Types'
  BY DEF Early
<1>2. Early'
  BY DEF Early
<1>3. NotAsked'
  BY DEF NotAsked, HookHolds, Early
<1>4. Running'
  BY DEF Running
<1>5. ErrorIsCancelled'
  BY DEF ErrorIsCancelled, RunContextDone, Running
<1>6. OneAnswer'
  BY DEF OneAnswer, NotAsked, Running, Early, HookHolds, TerminalHolds, Delivered
<1>7. EndedIsNotPending'
  BY DEF EndedIsNotPending, OneAnswer, TerminalHolds, Delivered
<1> QED
  BY <1>1, <1>2, <1>3, <1>4, <1>5, <1>6, <1>7 DEF IInv

LEMMA HookTooLateInvariant == ASSUME NEW c \in Calls, NEW h \in Hooks, IInv, HookTooLate(c, h) PROVE IInv'
<1> USE NoRequestAssumption, GateAssumption DEF IInv, Types, Answer, NoRequest, HookTooLate, Hook, callVars
<1>1. Types'
  BY DEF Early
<1>2. Early'
  BY DEF Early
<1>3. NotAsked'
  BY DEF NotAsked, HookHolds, Early
<1>4. Running'
  BY DEF Running
<1>5. ErrorIsCancelled'
  BY DEF ErrorIsCancelled, RunContextDone, Running
<1>6. OneAnswer'
  BY DEF OneAnswer, NotAsked, Running, Early, HookHolds, TerminalHolds, Delivered
<1>7. EndedIsNotPending'
  BY DEF EndedIsNotPending, OneAnswer, TerminalHolds, Delivered
<1> QED
  BY <1>1, <1>2, <1>3, <1>4, <1>5, <1>6, <1>7 DEF IInv

LEMMA HookSilentInvariant == ASSUME NEW c \in Calls, NEW h \in Hooks, IInv, HookSilent(c, h) PROVE IInv'
<1> USE NoRequestAssumption, GateAssumption DEF IInv, Types, Answer, NoRequest, HookSilent, Hook, callVars
<1>1. Types'
  BY DEF Early
<1>2. Early'
  BY DEF Early
<1>3. NotAsked'
  BY DEF NotAsked, HookHolds, Early
<1>4. Running'
  BY DEF Running
<1>5. ErrorIsCancelled'
  BY DEF ErrorIsCancelled, RunContextDone, Running
<1>6. OneAnswer'
  BY DEF OneAnswer, NotAsked, Running, Early, HookHolds, TerminalHolds, Delivered
<1>7. EndedIsNotPending'
  BY DEF EndedIsNotPending, OneAnswer, TerminalHolds, Delivered
<1> QED
  BY <1>1, <1>2, <1>3, <1>4, <1>5, <1>6, <1>7 DEF IInv

LEMMA HookSendsInvariant == ASSUME NEW c \in Calls, NEW h \in Hooks, NEW a \in Answer, IInv, HookSends(c, h, a) PROVE IInv'
<1> USE NoRequestAssumption, GateAssumption DEF IInv, Types, Answer, NoRequest, HookSends, Hook, Send, callVars
<1>1. Types'
  BY DEF Early
<1>2. Early'
  BY DEF Early
<1>3. NotAsked'
  BY DEF NotAsked, HookHolds, Early
<1>4. Running'
  BY DEF Running
<1>5. ErrorIsCancelled'
  BY DEF ErrorIsCancelled, RunContextDone, Running
<1>6. OneAnswer'
  BY DEF OneAnswer, NotAsked, Running, Early, HookHolds, TerminalHolds, Delivered
<1>7. EndedIsNotPending'
  BY DEF EndedIsNotPending, OneAnswer, TerminalHolds, Delivered
<1> QED
  BY <1>1, <1>2, <1>3, <1>4, <1>5, <1>6, <1>7 DEF IInv

LEMMA TerminalShowsInvariant == ASSUME IInv, TerminalShows PROVE IInv'
<1> USE NoRequestAssumption, GateAssumption DEF IInv, Types, Answer, NoRequest, TerminalShows, callVars
<1>1. Types'
  BY DEF Early
<1>2. Early'
  BY DEF Early
<1>3. NotAsked'
  BY DEF NotAsked, HookHolds, Early
<1>4. Running'
  BY DEF Running
<1>5. ErrorIsCancelled'
  BY DEF ErrorIsCancelled, RunContextDone, Running
<1>6. OneAnswer'
  BY DEF OneAnswer, NotAsked, Running, Early, HookHolds, TerminalHolds, Delivered
<1>7. EndedIsNotPending'
  BY DEF EndedIsNotPending, OneAnswer, TerminalHolds, Delivered
<1> QED
  BY <1>1, <1>2, <1>3, <1>4, <1>5, <1>6, <1>7 DEF IInv

LEMMA TerminalClaimsInvariant == ASSUME NEW a \in Answer, IInv, TerminalClaims(a) PROVE IInv'
<1> USE NoRequestAssumption, GateAssumption DEF IInv, Types, Answer, NoRequest, TerminalClaims, Claim, callVars
<1>1. Types'
  BY DEF Early
<1>2. Early'
  BY DEF Early
<1>3. NotAsked'
  BY DEF NotAsked, HookHolds, Early
<1>4. Running'
  BY DEF Running
<1>5. ErrorIsCancelled'
  BY DEF ErrorIsCancelled, RunContextDone, Running
<1>6. OneAnswer'
  BY DEF OneAnswer, NotAsked, Running, Early, HookHolds, TerminalHolds, Delivered
<1>7. EndedIsNotPending'
  BY DEF EndedIsNotPending, OneAnswer, TerminalHolds, Delivered
<1> QED
  BY <1>1, <1>2, <1>3, <1>4, <1>5, <1>6, <1>7 DEF IInv

LEMMA TerminalTooLateInvariant == ASSUME IInv, TerminalTooLate PROVE IInv'
<1> USE NoRequestAssumption, GateAssumption DEF IInv, Types, Answer, NoRequest, TerminalTooLate, callVars, brokerVars
<1>1. Types'
  BY DEF Early
<1>2. Early'
  BY DEF Early
<1>3. NotAsked'
  BY DEF NotAsked, HookHolds, Early
<1>4. Running'
  BY DEF Running
<1>5. ErrorIsCancelled'
  BY DEF ErrorIsCancelled, RunContextDone, Running
<1>6. OneAnswer'
  BY DEF OneAnswer, NotAsked, Running, Early, HookHolds, TerminalHolds, Delivered
<1>7. EndedIsNotPending'
  BY DEF EndedIsNotPending, OneAnswer, TerminalHolds, Delivered
<1> QED
  BY <1>1, <1>2, <1>3, <1>4, <1>5, <1>6, <1>7 DEF IInv

LEMMA TerminalSendsInvariant == ASSUME IInv, TerminalSends PROVE IInv'
<1> USE NoRequestAssumption, GateAssumption DEF IInv, Types, Answer, NoRequest, TerminalSends, Send, callVars
<1>1. Types'
  BY DEF Early
<1>2. Early'
  BY DEF Early
<1>3. NotAsked'
  BY DEF NotAsked, HookHolds, Early
<1>4. Running'
  BY DEF Running
<1>5. ErrorIsCancelled'
  BY DEF ErrorIsCancelled, RunContextDone, Running
<1>6. OneAnswer'
  BY DEF OneAnswer, NotAsked, Running, Early, HookHolds, TerminalHolds, Delivered
<1>7. EndedIsNotPending'
  BY DEF EndedIsNotPending, OneAnswer, TerminalHolds, Delivered
<1> QED
  BY <1>1, <1>2, <1>3, <1>4, <1>5, <1>6, <1>7 DEF IInv

LEMMA NextInvariant == IInv /\ [Next]_vars => IInv'
<1> SUFFICES ASSUME IInv, [Next]_vars PROVE IInv'
  OBVIOUS
<1>1. CASE UNCHANGED vars
  BY <1>1 DEF vars, callVars, brokerVars, answerVars, IInv, Types, Early, NotAsked, Running,
     ErrorIsCancelled, OneAnswer, EndedIsNotPending, HookHolds, TerminalHolds, Delivered,
     RunContextDone
<1>2. ASSUME NEW c \in Calls, NEW i \in Inputs, Authorize(c, i) PROVE IInv'
  BY <1>2, AuthorizeInvariant
<1>3. ASSUME NEW c \in Calls, AuthorizeError(c) \/ Cancel(c) PROVE IInv'
  BY <1>3, AuthorizeErrorInvariant, CancelInvariant
<1>4. ASSUME NEW c \in Calls, CallStep(c) PROVE IInv'
  BY <1>4, StartHooksInvariant, ReturnErrorInvariant, ReturnResponseInvariant DEF CallStep
<1>5. ASSUME NEW c \in Calls, BrokerStep(c) PROVE IInv'
  BY <1>5, RegisterInvariant, PublishInvariant, TakeInvariant, AbandonInvariant DEF BrokerStep
<1>6. ASSUME NEW c \in Calls, NEW h \in Hooks, HookStep(c, h) PROVE IInv'
  BY <1>6, HookClaimsInvariant, HookTooLateInvariant, HookSilentInvariant, HookSendsInvariant
     DEF HookStep
<1>7. CASE TerminalStep
  BY <1>7, TerminalShowsInvariant, TerminalClaimsInvariant, TerminalTooLateInvariant,
     TerminalSendsInvariant DEF TerminalStep
<1> QED
  BY <1>1, <1>2, <1>3, <1>4, <1>5, <1>6, <1>7 DEF Next

\* The gate never leaves its inductive invariant, for any calls, hooks, queue
\* and policy inputs.
THEOREM GateInvariant == Spec => []IInv
BY InitInvariant, NextInvariant, PTL DEF Spec

\* Of all who race to answer a call one wins (PermissionBroker.Resolve).
THEOREM OneAnswerWins == Spec => []OneAnswer
<1>1. IInv => OneAnswer
  BY DEF IInv
<1> QED
  BY <1>1, GateInvariant, PTL

\* A request whose goroutine has ended cannot be resolved (removePending).
THEOREM EndedStaysUnresolvable == Spec => []EndedIsNotPending
<1>1. IInv => EndedIsNotPending
  BY DEF IInv
<1> QED
  BY <1>1, GateInvariant, PTL

\* The type invariant, from the inductive one: what is pending, queued or shown
\* has asked because of NotAsked.
THEOREM TypeCorrect == Spec => []TypeOK
<1>1. IInv => TypeOK
  <2> SUFFICES ASSUME IInv PROVE TypeOK
    OBVIOUS
  <2>1. pending \subseteq Asked /\ prompt \in Asked \cup {NoRequest}
    BY DEF IInv, Types, NotAsked, Asked
  <2>2. requests \in Seq(Asked)
    <3>1. requests \in [1 .. Len(requests) -> Calls]
      BY DEF IInv, Types
    <3>2. \A i \in 1 .. Len(requests) : requests[i] \in Asked
      BY <3>1 DEF IInv, Types, NotAsked, Asked
    <3> QED
      BY <3>1, <3>2 DEF IInv, Types
  <2> QED
    BY <2>1, <2>2 DEF IInv, Types, TypeOK
<1> QED
  BY <1>1, GateInvariant, PTL

---------------------------------------------------------------------------
(* HookAnswerCounts.  A call that is cancelled before its request is       *)
(* registered has returned while the goroutine goes on to register it, so  *)
(* that where the call is does not tell whether its hooks run: NotStarted. *)

NotStarted ==
  \A c \in Calls : broker[c] \in {"off", "register"} => \A h \in Hooks : hook[c][h] = "off"

HookInv == NotStarted /\ HookAnswerCounts

\* Steps that leave the hooks alone and make no request pending.
LEMMA HooksUntouched ==
  ASSUME HookInv, UNCHANGED <<hook, host>>, pending' \subseteq pending,
         \A c \in Calls : broker'[c] \in {"off", "register"} => broker[c] \in {"off", "register"}
  PROVE  HookInv'
<1>1. NotStarted'
  BY DEF HookInv, NotStarted
<1>2. HookAnswerCounts'
  BY DEF HookInv, NotStarted, HookAnswerCounts
<1> QED BY <1>1, <1>2 DEF HookInv

LEMMA InitHooks == Init => HookInv
BY DEF Init, HookInv, NotStarted, HookAnswerCounts

LEMMA CallKeepsHooks ==
  ASSUME IInv, HookInv, NEW c \in Calls,
         \/ \E i \in Inputs : Authorize(c, i)
         \/ AuthorizeError(c) \/ Cancel(c) \/ ReturnError(c) \/ ReturnResponse(c)
  PROVE  HookInv'
<1>1. UNCHANGED <<hook, host, pending>>
  BY DEF Authorize, AuthorizeError, Cancel, ReturnError, ReturnResponse, brokerVars, answerVars
<1>2. \A d \in Calls : broker'[d] \in {"off", "register"} => broker[d] \in {"off", "register"}
  <2>1. CASE \E i \in Inputs : Authorize(c, i)
    <3>1. broker[c] = "off" /\ broker \in [Calls -> {"off", "register", "publish", "await", "ended"}]
      BY <2>1 DEF Authorize, IInv, Early, Types
    <3>2. broker' = broker \/ broker' = [broker EXCEPT ![c] = "register"]
      BY <2>1 DEF Authorize
    <3> QED BY <3>1, <3>2
  <2>2. CASE AuthorizeError(c) \/ Cancel(c) \/ ReturnError(c) \/ ReturnResponse(c)
    BY <2>2 DEF AuthorizeError, Cancel, ReturnError, ReturnResponse, brokerVars
  <2> QED BY <2>1, <2>2
<1> QED BY <1>1, <1>2, HooksUntouched

LEMMA StartHooksKeepsHooks ==
  ASSUME IInv, HookInv, NEW c \in Calls, StartHooks(c)
  PROVE  HookInv'
<1>1. /\ hook' = [hook EXCEPT ![c] = [h \in Hooks |-> "running"]]
      /\ UNCHANGED <<host, pending, broker>> /\ broker[c] \notin {"off", "register"}
      /\ hook \in [Calls -> [Hooks -> Answer \cup {"off", "running", "ended"}]]
  BY DEF StartHooks, brokerVars, IInv, Types
<1>2. /\ \A h \in Hooks : hook'[c][h] = "running"
      /\ \A d \in Calls \ {c} : hook'[d] = hook[d]
  BY <1>1
<1> QED BY <1>1, <1>2 DEF HookInv, NotStarted, HookAnswerCounts

LEMMA BrokerKeepsHooks ==
  ASSUME IInv, HookInv, NEW c \in Calls, BrokerStep(c)
  PROVE  HookInv'
<1>1. broker \in [Calls -> {"off", "register", "publish", "await", "ended"}]
  BY DEF IInv, Types
<1>2. CASE Register(c)
  BY <1>1, <1>2 DEF Register, answerVars, HookInv, NotStarted, HookAnswerCounts
<1>3. CASE Publish(c) \/ Take(c) \/ Abandon(c)
  <2>1. UNCHANGED <<hook, host>> /\ pending' \subseteq pending
    BY <1>3 DEF Publish, Take, Abandon, answerVars
  <2>2. \A d \in Calls : broker'[d] \in {"off", "register"} => broker[d] \in {"off", "register"}
    BY <1>1, <1>3 DEF Publish, Take, Abandon
  <2> QED BY <2>1, <2>2, HooksUntouched
<1> QED BY <1>2, <1>3 DEF BrokerStep

LEMMA HookKeepsHooks ==
  ASSUME IInv, HookInv, NEW c \in Calls, NEW h \in Hooks, HookStep(c, h)
  PROVE  HookInv'
<1>1. PICK from, to : Hook(c, h, from, to) /\ from \in Answer \cup {"running"}
  BY DEF HookStep, HookClaims, HookTooLate, HookSilent, HookSends
<1>2. /\ hook \in [Calls -> [Hooks -> Answer \cup {"off", "running", "ended"}]]
      /\ UNCHANGED <<broker, host>>
  BY <1>1 DEF Hook, IInv, Types
<1>3. \A d \in Calls : \A g \in Hooks : hook'[d][g] # hook[d][g] => d = c /\ g = h
  BY <1>1, <1>2 DEF Hook
<1>4. broker[c] \notin {"off", "register"}
  BY <1>1 DEF Hook, HookInv, NotStarted, Answer
<1>5. pending' \subseteq pending /\ (host = "headless" => c \notin pending')
  <2>1. CASE \E a \in Answer : HookClaims(c, h, a)
    BY <2>1 DEF HookClaims, Claim
  <2>2. CASE HookTooLate(c, h)
    BY <2>2 DEF HookTooLate
  <2>3. CASE HookSilent(c, h)
    BY <2>3 DEF HookSilent
  <2>4. CASE \E a \in Answer : HookSends(c, h, a)
    BY <2>4 DEF HookSends, Hook, Answer, HookInv, HookAnswerCounts
  <2> QED BY <2>1, <2>2, <2>3, <2>4 DEF HookStep
<1>6. NotStarted'
  BY <1>2, <1>3, <1>4 DEF HookInv, NotStarted
<1>7. HookAnswerCounts'
  BY <1>2, <1>3, <1>4, <1>5 DEF HookInv, HookAnswerCounts
<1> QED BY <1>6, <1>7 DEF HookInv

LEMMA TerminalKeepsHooks ==
  ASSUME HookInv, TerminalStep
  PROVE  HookInv'
<1>1. UNCHANGED <<hook, host, broker>> /\ pending' \subseteq pending
  BY DEF TerminalStep, TerminalShows, TerminalTooLate, TerminalSends, TerminalClaims, Claim, brokerVars
<1> QED BY <1>1, HooksUntouched

LEMMA NextKeepsHooks == IInv /\ HookInv /\ [Next]_vars => HookInv'
<1> SUFFICES ASSUME IInv, HookInv, [Next]_vars PROVE HookInv'
  OBVIOUS
<1>1. CASE UNCHANGED vars
  <2>1. UNCHANGED <<hook, host, broker, pending>>
    BY <1>1 DEF vars, brokerVars, answerVars
  <2> QED BY <2>1, HooksUntouched
<1>2. CASE Next
  BY <1>2, CallKeepsHooks, StartHooksKeepsHooks, BrokerKeepsHooks, HookKeepsHooks, TerminalKeepsHooks
     DEF Next, CallStep
<1> QED BY <1>1, <1>2

\* Without a terminal, no request that a hook has answered is still to be resolved, and none is
\* registered after its hook has ended, for any number of hooks (PermissionCoordinator.Resolve).
THEOREM HookSettlesTheCall == Spec => []HookAnswerCounts
<1>1. IInv /\ HookInv => HookAnswerCounts
  BY DEF HookInv
<1> QED
  BY <1>1, InitHooks, NextKeepsHooks, GateInvariant, PTL DEF Spec

---------------------------------------------------------------------------
(* The refinement.  A claim accepts an answer; from then on it is carried  *)
(* from its claimant to the response channel and to the result, and never  *)
(* twice, so that Accepted(c) does not change again.                       *)

LEMMA AcceptedSame ==
  ASSUME \A d \in Calls : \A x \in Answer : Carries(d, x)' <=> Carries(d, x)
  PROVE  [d \in Calls |-> Accepted(d)]' = [d \in Calls |-> Accepted(d)]
<1>1. \A d \in Calls : Accepted(d)' = Accepted(d)
  BY DEF Accepted, Answer
<1> QED
  BY <1>1

\* Before anybody has claimed a pending request, nothing is accepted for it.
LEMMA PendingIsOpen ==
  ASSUME IInv, NEW c \in pending, NEW x \in Answer
  PROVE  ~Carries(c, x)
BY DEF IInv, Types, OneAnswer, HookHolds, TerminalHolds, Delivered, Carries, Answer

LEMMA ClaimAccepts ==
  ASSUME NEW c \in Calls, NEW a \in Answer, IInv, c \in pending,
         \A x \in Answer : Carries(c, x)' <=> x = a,
         \A d \in Calls \ {c} : \A x \in Answer : Carries(d, x)' <=> Carries(d, x),
         UNCHANGED <<broker, cancelled, result>>
  PROVE  Promise!Accept(c, a)
<1>1. c \in Asked
  BY DEF IInv, Types, NotAsked, Asked
<1>2. Accepted(c) = "none" /\ Accepted(c)' = a
  BY PendingIsOpen DEF Accepted, Answer
<1>3. \A d \in Calls \ {c} : Accepted(d)' = Accepted(d)
  BY DEF Accepted, Answer
<1> QED
  BY <1>1, <1>2, <1>3 DEF Promise!Accept, Asked

LEMMA InitPromise == Init => Promise!Init
BY DEF Init, Promise!Init, Asked, Accepted, Carries, Answer

\* The steps that neither answer nor end a call.
LEMMA QuietStep ==
  ASSUME UNCHANGED <<result, cancelled>>, Asked' = Asked,
         \A d \in Calls : \A x \in Answer : Carries(d, x)' <=> Carries(d, x)
  PROVE  UNCHANGED Promise!vars
BY AcceptedSame DEF Promise!vars

LEMMA StepPromise == IInv /\ IInv' /\ [Next]_vars => [Promise!Next]_(Promise!vars)
<1> SUFFICES ASSUME IInv, IInv', [Next]_vars PROVE Promise!Next \/ UNCHANGED Promise!vars
  OBVIOUS
<1> USE DEF callVars, brokerVars, answerVars
<1>1. CASE UNCHANGED vars
  <2>1. UNCHANGED <<result, cancelled>> /\ Asked' = Asked
    BY <1>1 DEF vars, Asked
  <2>2. \A d \in Calls : \A x \in Answer : Carries(d, x)' <=> Carries(d, x)
    BY <1>1 DEF vars, Carries
  <2> QED
    BY <2>1, <2>2, QuietStep
<1>2. ASSUME NEW c \in Calls, NEW i \in Inputs, Authorize(c, i)
      PROVE  Promise!Next
  <2>1. c \notin Asked /\ result[c] = "none" /\ result \in [Calls -> Answer \cup {"error", "none"}]
        /\ broker \in [Calls -> {"off", "register", "publish", "await", "ended"}]
    BY <1>2 DEF Authorize, IInv, Types, Early, Asked
  <2>2. \A d \in Calls : \A x \in Answer : Carries(d, x)' <=> Carries(d, x)
    BY <1>2 DEF Authorize, Carries
  <2>3. CASE Evaluate(i) = "ask"
    <3>1. Asked' = Asked \cup {c} /\ UNCHANGED <<result, cancelled>>
      BY <1>2, <2>1, <2>3 DEF Authorize, Asked
    <3> QED
      BY <2>1, <2>2, <3>1, AcceptedSame DEF Promise!Next, Promise!Ask
  <2>4. CASE Evaluate(i) # "ask"
    <3>1. Asked' = Asked /\ UNCHANGED cancelled
          /\ result' = [result EXCEPT ![c] = Evaluate(i)] /\ Evaluate(i) \in {"allow", "deny"}
      BY <1>2, <2>1, <2>4, EvaluateBehavior DEF Authorize, Returns, Asked, Behavior
    <3>2. Promise!Decide(c, Evaluate(i))
      BY <2>1, <2>2, <3>1, AcceptedSame DEF Promise!Decide
    <3> QED
      BY <3>1, <3>2 DEF Promise!Next
  <2> QED
    BY <2>3, <2>4
<1>3. ASSUME NEW c \in Calls, AuthorizeError(c) \/ ReturnError(c) \/ ReturnResponse(c)
      PROVE  Promise!Next
  <2>1. \A d \in Calls : \A x \in Answer : Carries(d, x)' <=> Carries(d, x)
    BY <1>3 DEF AuthorizeError, ReturnError, ReturnResponse, Carries
  <2>2. Asked' = Asked /\ UNCHANGED cancelled /\ result[c] = "none"
    BY <1>3 DEF AuthorizeError, ReturnError, ReturnResponse, Asked, IInv, Types
  <2>3. CASE AuthorizeError(c)
    <3>1. Promise!Decide(c, "error")
      BY <2>1, <2>2, <2>3, AcceptedSame
         DEF AuthorizeError, Returns, IInv, Early, Asked, Promise!Decide
    <3> QED
      BY <3>1 DEF Promise!Next
  <2>4. CASE ReturnError(c)
    <3>1. c \in Asked \cap cancelled
      BY <2>4 DEF ReturnError, IInv, Types, Early, ErrorIsCancelled, RunContextDone, Asked
    <3>2. Promise!Fail(c)
      BY <2>1, <2>2, <2>4, <3>1, AcceptedSame DEF ReturnError, Returns, Promise!Fail
    <3> QED
      BY <3>2 DEF Promise!Next
  <2>5. CASE ReturnResponse(c)
    <3>1. Accepted(c) = brokerResult[c] /\ brokerResult[c] \in Answer
      BY <2>5 DEF ReturnResponse, IInv, OneAnswer, Types, Accepted, Carries, Answer, HookHolds,
         TerminalHolds, Delivered
    <3>2. Promise!Return(c)
      BY <2>1, <2>2, <2>5, <3>1, AcceptedSame DEF ReturnResponse, Returns, Promise!Return, Answer
    <3> QED
      BY <3>2 DEF Promise!Next
  <2> QED
    BY <1>3, <2>3, <2>4, <2>5
<1>4. ASSUME NEW c \in Calls, Cancel(c)
      PROVE  Promise!Next
  <2>1. \A d \in Calls : \A x \in Answer : Carries(d, x)' <=> Carries(d, x)
    BY <1>4 DEF Cancel, Carries
  <2>2. Promise!Cancel(c)
    BY <1>4, <2>1, AcceptedSame DEF Cancel, Asked, Promise!Cancel
  <2> QED
    BY <2>2 DEF Promise!Next
<1>5. ASSUME NEW c \in Calls, StartHooks(c) \/ BrokerStep(c)
      PROVE  UNCHANGED Promise!vars
  <2>1. UNCHANGED <<result, cancelled>> /\ Asked' = Asked
    BY <1>5 DEF StartHooks, BrokerStep, Register, Publish, Take, Abandon, Asked, IInv, Types
  <2>2. \A d \in Calls : \A x \in Answer : Carries(d, x)' <=> Carries(d, x)
    <3>1. CASE StartHooks(c)
      BY <3>1 DEF StartHooks, Carries, IInv, Types, Early, Answer
    <3>2. CASE Register(c) \/ Publish(c)
      BY <3>2 DEF Register, Publish, Carries
    <3>3. CASE Take(c)
      BY <3>3 DEF Take, Carries, IInv, Types, Running, Answer
    <3>4. CASE Abandon(c)
      BY <3>4 DEF Abandon, Carries, IInv, Types, Running, Answer
    <3> QED
      BY <1>5, <3>1, <3>2, <3>3, <3>4 DEF BrokerStep
  <2> QED
    BY <2>1, <2>2, QuietStep
<1>6. ASSUME NEW c \in Calls, NEW h \in Hooks, HookStep(c, h)
      PROVE  Promise!Next \/ UNCHANGED Promise!vars
  <2>1. UNCHANGED <<result, cancelled, broker>> /\ Asked' = Asked
    BY <1>6 DEF HookStep, HookClaims, HookTooLate, HookSilent, HookSends, Hook, Asked
  <2>2. ASSUME NEW a \in Answer, HookClaims(c, h, a)
        PROVE  Promise!Next
    <3>1. c \in pending /\ \A x \in Answer : Carries(c, x)' <=> x = a
      BY <2>2, PendingIsOpen DEF HookClaims, Hook, Claim, Carries, IInv, Types, Answer
    <3>2. \A d \in Calls \ {c} : \A x \in Answer : Carries(d, x)' <=> Carries(d, x)
      BY <2>2 DEF HookClaims, Hook, Carries, IInv, Types
    <3>3. Promise!Accept(c, a) /\ a \in {"allow", "deny"}
      BY <2>1, <3>1, <3>2, ClaimAccepts DEF Answer
    <3> QED
      BY <3>3 DEF Promise!Next
  <2>3. CASE HookTooLate(c, h) \/ HookSilent(c, h)
    <3>1. /\ hook[c][h] = "running" /\ hook' = [hook EXCEPT ![c][h] = "ended"]
          /\ UNCHANGED <<prompt, typed, response, brokerResult>>
      BY <2>3 DEF HookTooLate, HookSilent, Hook
    <3>2. \A d \in Calls : \A x \in Answer : Carries(d, x)' <=> Carries(d, x)
      BY <3>1 DEF Carries, IInv, Types, Answer
    <3> QED
      BY <2>1, <3>2, QuietStep
  <2>4. ASSUME NEW a \in Answer, HookSends(c, h, a)
        PROVE  UNCHANGED Promise!vars
    <3>1. \A d \in Calls : \A x \in Answer : Carries(d, x)' <=> Carries(d, x)
      BY <2>4 DEF HookSends, Hook, Send, Carries, IInv, Types, Answer
    <3> QED
      BY <2>1, <3>1, QuietStep
  <2> QED
    BY <1>6, <2>2, <2>3, <2>4 DEF HookStep
<1>7. CASE TerminalStep
  <2>1. UNCHANGED <<result, cancelled, broker>> /\ Asked' = Asked
    BY <1>7 DEF TerminalStep, TerminalShows, TerminalClaims, TerminalTooLate, TerminalSends, Asked
  <2>2. ASSUME NEW a \in Answer, TerminalClaims(a)
        PROVE  Promise!Next
    <3>1. PICK c \in Calls : c = prompt
      BY <2>2 DEF TerminalClaims, IInv, Types
    <3>2. c \in pending /\ \A x \in Answer : Carries(c, x)' <=> x = a
      BY <2>2, <3>1, PendingIsOpen DEF TerminalClaims, Claim, Carries, IInv, Types, Answer
    <3>3. \A d \in Calls \ {c} : \A x \in Answer : Carries(d, x)' <=> Carries(d, x)
      BY <2>2, <3>1 DEF TerminalClaims, Carries
    <3>4. Promise!Accept(c, a) /\ a \in {"allow", "deny"}
      BY <2>1, <3>2, <3>3, ClaimAccepts DEF Answer
    <3> QED
      BY <3>4 DEF Promise!Next
  <2>3. CASE TerminalShows \/ TerminalTooLate
    <3>1. \A d \in Calls : \A x \in Answer : Carries(d, x)' <=> Carries(d, x)
      BY <2>3, NoRequestAssumption DEF TerminalShows, TerminalTooLate, Carries, IInv, Types, Answer
    <3> QED
      BY <2>1, <3>1, QuietStep
  <2>4. CASE TerminalSends
    <3>1. \A d \in Calls : \A x \in Answer : Carries(d, x)' <=> Carries(d, x)
      BY <2>4, NoRequestAssumption DEF TerminalSends, Send, Carries, IInv, Types, Answer
    <3> QED
      BY <2>1, <3>1, QuietStep
  <2> QED
    BY <1>7, <2>2, <2>3, <2>4 DEF TerminalStep
<1> QED
  BY <1>1, <1>2, <1>3, <1>4, <1>5, <1>6, <1>7 DEF Next, CallStep

\* A call that asks gets the first answer and no other, and fails only when it
\* is cancelled, for any number of calls and hooks and any queue
\* (PermissionCoordinator.Resolve, PermissionBroker.Resolve).
THEOREM FirstAnswerWins == Spec => ImplementsFirstAnswer
<1>1. Spec => []IInv
  BY GateInvariant
<1>2. IInv /\ IInv' /\ [Next]_vars => [Promise!Next]_(Promise!vars)
  BY StepPromise
<1> QED
  BY <1>1, <1>2, InitPromise, PTL DEF Spec, ImplementsFirstAnswer, Promise!Spec

---------------------------------------------------------------------------
(* The policy, for lists of hooks and rules of any length.  HookDecision   *)
(* is a recursive function, and what it computes is shown by induction:    *)
(* the theorems of the library that take a predicate are of no use to the  *)
(* provers here, but WFMin and the order of Nat give the least element of  *)
(* a set, and that induction over the set of numbers with the property.    *)

\* A set of numbers has a least one.
LEMMA LeastElement ==
  ASSUME NEW T \in SUBSET Nat, T # {}
  PROVE  \E x \in T : \A y \in T : x <= y
<1> DEFINE R == OpToRel(<, Nat)
<1>1. R = {ss \in Nat \X Nat : ss[1] < ss[2]}
  BY ZenonT(20) DEF OpToRel
<1>2. IsWellFoundedOn(R, Nat)
  BY NatLessThanWellFounded, ZenonT(10)
<1> HIDE DEF R
<1>3. \E x \in T : \A y \in T : ~ (<<y, x>> \in R)
  BY <1>2, WFMin
<1>4. PICK x \in T : \A y \in T : ~ (<<y, x>> \in R)
  BY <1>3
<1>5. \A y \in T : ~ (y < x)
  BY <1>1, <1>4
<1> QED BY <1>5

\* A set that has 0 and, with each number, the next one, has all of them.
LEMMA Induction ==
  ASSUME NEW S, 0 \in S, \A n \in Nat : n \in S => n + 1 \in S
  PROVE  Nat \subseteq S
<1> SUFFICES ASSUME Nat \ S # {} PROVE FALSE
  OBVIOUS
<1>1. PICK x \in Nat \ S : \A y \in Nat \ S : x <= y
  BY LeastElement
<1>2. x - 1 \in Nat /\ x - 1 < x
  BY <1>1
<1>3. x - 1 \in S
  BY <1>1, <1>2
<1> QED BY <1>1, <1>2, <1>3

Verdict == Behavior \cup {Passthrough}

LEMMA PriorityValues ==
  /\ Priority["deny"] = 3 /\ Priority["ask"] = 2 /\ Priority["allow"] = 1
  /\ Priority[Passthrough] = 0
BY DEF Priority, Behavior, Passthrough
\* g is the function `merged` of HookDecision on the first m hooks.
MergedUpTo(hooks, m, g) ==
  g = [n \in 0 .. m |-> IF n = 0 THEN Passthrough
                        ELSE IF Priority[hooks[n]] > Priority[g[n - 1]] THEN hooks[n] ELSE g[n - 1]]

LEMMA MergedExists ==
  ASSUME NEW hooks, NEW m \in Nat
  PROVE  \E g : MergedUpTo(hooks, m, g)
<1> DEFINE S == {n \in Nat : \E g : MergedUpTo(hooks, n, g)}
<1>1. 0 \in S
  <2> DEFINE g == [n \in 0 .. 0 |-> Passthrough]
  <2>1. MergedUpTo(hooks, 0, g)
    BY DEF MergedUpTo
  <2> QED BY <2>1
<1>2. ASSUME NEW n \in Nat, n \in S PROVE n + 1 \in S
  <2>1. PICK g : MergedUpTo(hooks, n, g)
    BY <1>2
  <2> DEFINE h == [k \in 0 .. n + 1 |->
        IF k <= n THEN g[k]
        ELSE IF Priority[hooks[n + 1]] > Priority[g[n]] THEN hooks[n + 1] ELSE g[n]]
  <2>2. \A k \in 0 .. n : g[k] = IF k = 0 THEN Passthrough
                        ELSE IF Priority[hooks[k]] > Priority[g[k - 1]] THEN hooks[k] ELSE g[k - 1]
    BY <2>1 DEF MergedUpTo
  <2>3. \A k \in 0 .. n + 1 : h[k] = IF k = 0 THEN Passthrough
                        ELSE IF Priority[hooks[k]] > Priority[h[k - 1]] THEN hooks[k] ELSE h[k - 1]
    <3> TAKE k \in 0 .. n + 1
    <3>1. CASE k <= n
      <4>1. h[k] = g[k] /\ (k # 0 => k - 1 \in 0 .. n + 1 /\ h[k - 1] = g[k - 1])
        BY <3>1
      <4> QED BY <3>1, <4>1, <2>2
    <3>2. CASE k = n + 1
      <4>1. h[k] = (IF Priority[hooks[n + 1]] > Priority[g[n]] THEN hooks[n + 1] ELSE g[n])
            /\ h[n] = g[n] /\ k # 0 /\ k - 1 = n
        BY <3>2
      <4> QED BY <3>2, <4>1
    <3> QED BY <3>1, <3>2
  <2> HIDE DEF h
  <2>4. MergedUpTo(hooks, n + 1, h)
    <3>1. h = [k \in 0 .. n + 1 |-> h[k]]
      BY DEF h
    <3> QED BY <3>1, <2>3 DEF MergedUpTo
  <2> QED BY <2>4
<1>3. Nat \subseteq S
  BY <1>1, <1>2, Induction
<1> QED BY <1>3

\* The verdict of the hooks is that of one of them, and the strongest, in whatever order.
LEMMA HookDecisionIsStrongest ==
  ASSUME NEW hooks \in Seq(Verdict)
  PROVE  /\ HookDecision(hooks) \in {Passthrough} \cup {hooks[i] : i \in DOMAIN hooks}
         /\ \A i \in DOMAIN hooks : Priority[HookDecision(hooks)] >= Priority[hooks[i]]
<1> DEFINE L == Len(hooks)
<1> DEFINE merged == CHOOSE g : MergedUpTo(hooks, L, g)
<1>1. HookDecision(hooks) = merged[L]
  BY DEF HookDecision, MergedUpTo
<1>2. L \in Nat /\ DOMAIN hooks = 1 .. L
  OBVIOUS
<1>3. MergedUpTo(hooks, L, merged)
  BY <1>2, MergedExists
<1> HIDE DEF merged
<1>4. \A k \in 0 .. L : merged[k] = IF k = 0 THEN Passthrough
                        ELSE IF Priority[hooks[k]] > Priority[merged[k - 1]] THEN hooks[k] ELSE merged[k - 1]
  BY <1>3 DEF MergedUpTo
<1>5. \A i \in 1 .. L : hooks[i] \in Verdict
  BY <1>2
<1>6. \A v \in Verdict : Priority[v] \in 0 .. 3
  BY PriorityValues DEF Verdict, Behavior
<1> DEFINE S == {n \in Nat : n <= L =>
       /\ merged[n] \in {Passthrough} \cup {hooks[i] : i \in 1 .. n}
       /\ \A i \in 1 .. n : Priority[merged[n]] >= Priority[hooks[i]]}
<1>7. 0 \in S
  BY <1>2, <1>4
<1>8. ASSUME NEW n \in Nat, n \in S PROVE n + 1 \in S
  <2> SUFFICES ASSUME n + 1 <= L
               PROVE  /\ merged[n + 1] \in {Passthrough} \cup {hooks[i] : i \in 1 .. n + 1}
                      /\ \A i \in 1 .. n + 1 : Priority[merged[n + 1]] >= Priority[hooks[i]]
    OBVIOUS
  <2>1. /\ merged[n] \in {Passthrough} \cup {hooks[i] : i \in 1 .. n}
        /\ \A i \in 1 .. n : Priority[merged[n]] >= Priority[hooks[i]]
    BY <1>8, <1>2
  <2>2. merged[n + 1] = IF Priority[hooks[n + 1]] > Priority[merged[n]] THEN hooks[n + 1] ELSE merged[n]
    BY <1>2, <1>4
  <2>3. merged[n] \in Verdict /\ hooks[n + 1] \in Verdict
    BY <1>2, <1>5, <2>1 DEF Verdict
  <2>4. Priority[merged[n]] \in 0 .. 3 /\ Priority[hooks[n + 1]] \in 0 .. 3
    BY <1>6, <2>3
  <2>5. \A i \in 1 .. n + 1 : i \in 1 .. n \/ i = n + 1
    OBVIOUS
  <2>6. \A i \in 1 .. n + 1 : Priority[hooks[i]] \in 0 .. 3
    BY <1>2, <1>5, <1>6
  <2>7. merged[n + 1] \in {Passthrough} \cup {hooks[i] : i \in 1 .. n + 1}
    BY <2>1, <2>2, <2>5
  <2>8. Priority[merged[n + 1]] >= Priority[merged[n]] /\ Priority[merged[n + 1]] >= Priority[hooks[n + 1]]
        /\ Priority[merged[n + 1]] \in 0 .. 3
    BY <2>2, <2>4
  <2>9. ASSUME NEW i \in 1 .. n + 1 PROVE Priority[merged[n + 1]] >= Priority[hooks[i]]
    <3>1. CASE i \in 1 .. n
      BY <3>1, <2>1, <2>4, <2>6, <2>8
    <3>2. CASE i = n + 1
      BY <3>2, <2>8
    <3> QED BY <3>1, <3>2, <2>5
  <2> QED BY <2>7, <2>9
<1>9. L \in S
  BY <1>2, <1>7, <1>8, Induction
<1> QED BY <1>1, <1>2, <1>9

\* The verdicts in a list.
Values(q) == {q[i] : i \in DOMAIN q}

\* v is the strongest of the verdicts in s, or none is given.
IsStrongest(v, s) ==
  /\ v \in {Passthrough} \cup {s[i] : i \in DOMAIN s}
  /\ \A i \in DOMAIN s : Priority[v] >= Priority[s[i]]

LEMMA HookDecisionStrongest ==
  ASSUME NEW hooks \in Seq(Verdict)
  PROVE  IsStrongest(HookDecision(hooks), hooks)
BY HookDecisionIsStrongest DEF IsStrongest

LEMMA MatchingRuleStrongest ==
  ASSUME NEW rules \in Seq(Behavior)
  PROVE  IsStrongest(StrongestMatchingRule(rules), rules)
<1> DEFINE v == StrongestMatchingRule(rules)
<1>1. \A i \in DOMAIN rules : rules[i] \in Behavior
  OBVIOUS
<1>2. CASE HasRule(rules, "deny")
  <2>1. v = "deny"
    BY <1>2 DEF StrongestMatchingRule
  <2> QED BY <1>1, <1>2, <2>1, PriorityValues DEF IsStrongest, HasRule, Behavior
<1>3. CASE ~HasRule(rules, "deny") /\ HasRule(rules, "ask")
  <2>1. v = "ask"
    BY <1>3 DEF StrongestMatchingRule
  <2> QED BY <1>1, <1>3, <2>1, PriorityValues DEF IsStrongest, HasRule, Behavior
<1>4. CASE ~HasRule(rules, "deny") /\ ~HasRule(rules, "ask") /\ HasRule(rules, "allow")
  <2>1. v = "allow"
    BY <1>4 DEF StrongestMatchingRule
  <2> QED BY <1>1, <1>4, <2>1, PriorityValues DEF IsStrongest, HasRule, Behavior
<1>5. CASE ~HasRule(rules, "deny") /\ ~HasRule(rules, "ask") /\ ~HasRule(rules, "allow")
  <2>1. v = Passthrough
    BY <1>5 DEF StrongestMatchingRule
  <2> QED BY <1>1, <1>5, <2>1 DEF IsStrongest, HasRule, Behavior
<1> QED BY <1>2, <1>3, <1>4, <1>5

\* w is v, or an objection that is as strong.
Objection(v, w) == w = v \/ (w \in {"ask", "deny"} /\ Priority[w] >= Priority[v])

LEMMA ObjectionKinds ==
  ASSUME NEW v \in Verdict, NEW w \in Verdict, Objection(v, w)
  PROVE  /\ (v = "deny" => w = "deny") /\ (v = "ask" => w \in {"ask", "deny"})
         /\ (w = "allow" => v = "allow") /\ (w = Passthrough => v = Passthrough)
<1>1. CASE w = v
  BY <1>1
<1>2. CASE w \in {"ask", "deny"} /\ Priority[w] >= Priority[v]
  <2>1. w # "allow" /\ w # Passthrough
    BY <1>2 DEF Passthrough
  <2>2. v = "deny" => w = "deny"
    BY <1>2, PriorityValues
  <2> QED BY <1>2, <2>1, <2>2
<1> QED BY <1>1, <1>2 DEF Objection

\* Where the strongest verdict decides, one more objection is an objection.
LEMMA OneMoreObjection ==
  ASSUME NEW s \in Seq(Verdict), NEW t \in Seq(Verdict), NEW b \in {"ask", "deny"},
         Values(t) = Values(s) \cup {b},
         NEW v, IsStrongest(v, s), NEW w, IsStrongest(w, t)
  PROVE  Objection(v, w)
<1>0. (\A i \in DOMAIN s : s[i] \in Verdict) /\ (\A i \in DOMAIN t : t[i] \in Verdict)
  OBVIOUS
<1>1. Values(s) \subseteq Verdict /\ Values(t) \subseteq Verdict /\ b \in Values(t) /\ Values(t) = Values(s) \cup {b}
  BY <1>0 DEF Values
<1>2. v \in {Passthrough} \cup Values(s) /\ \A x \in Values(s) : Priority[v] >= Priority[x]
  BY DEF IsStrongest, Values
<1>3. w \in {Passthrough} \cup Values(t) /\ \A x \in Values(t) : Priority[w] >= Priority[x]
  BY DEF IsStrongest, Values
<1>4. v \in Verdict /\ w \in Verdict
  BY <1>1, <1>2, <1>3 DEF Verdict
<1>5. \A x, y \in Verdict : Priority[x] \in 0 .. 3 /\ (Priority[x] >= Priority[y] /\ Priority[y] >= Priority[x] => x = y)
  BY PriorityValues DEF Verdict, Behavior
<1>6. CASE w = b
  <2>1. Priority[w] >= Priority[v]
    <3>1. CASE v = Passthrough
      BY <3>1, <1>4, <1>5, PriorityValues
    <3>2. CASE v \in Values(s)
      BY <3>2, <1>1, <1>3
    <3> QED BY <3>1, <3>2, <1>2
  <2> QED BY <2>1, <1>6 DEF Objection
<1>7. CASE w \in Values(s)
  <2>1. Priority[v] >= Priority[w]
    BY <1>2, <1>7
  <2>2. Priority[w] >= Priority[v]
    <3>1. CASE v = Passthrough
      BY <3>1, <1>4, <1>5, PriorityValues
    <3>2. CASE v \in Values(s)
      BY <3>2, <1>1, <1>3
    <3> QED BY <3>1, <3>2, <1>2
  <2> QED BY <2>1, <2>2, <1>4, <1>5 DEF Objection
<1>8. w # Passthrough
  <2>1. Priority[w] >= Priority[b] /\ Priority[b] >= 2
    BY <1>1, <1>3, PriorityValues
  <2> QED BY <2>1, PriorityValues
<1> QED BY <1>1, <1>3, <1>6, <1>7, <1>8

LEMMA OneMoreAtEitherEnd ==
  ASSUME NEW s \in Seq(Verdict), NEW b \in {"ask", "deny"}, NEW more \in {Append(s, b), <<b>> \o s}
  PROVE  more \in Seq(Verdict) /\ Values(more) = Values(s) \cup {b}
<1>0. b \in Verdict
  BY DEF Verdict, Behavior
<1>1. Append(s, b) \in Seq(Verdict) /\ <<b>> \in Seq(Verdict) /\ <<b>> \o s \in Seq(Verdict)
  BY <1>0
<1>2. CASE more = Append(s, b)
  <2>1. DOMAIN more = 1 .. Len(s) + 1 /\ DOMAIN s = 1 .. Len(s) /\ Len(s) \in Nat
    BY <1>0, <1>2
  <2>2. /\ \A i \in 1 .. Len(s) : more[i] = s[i]
        /\ more[Len(s) + 1] = b
    BY <1>0, <1>2
  <2>3. 1 .. Len(s) + 1 = (1 .. Len(s)) \cup {Len(s) + 1}
    BY <2>1
  <2> QED BY <1>1, <1>2, <2>1, <2>2, <2>3 DEF Values
<1>3. CASE more = <<b>> \o s
  <2> DEFINE t == more
  <2>1. DOMAIN t = 1 .. Len(s) + 1 /\ DOMAIN s = 1 .. Len(s) /\ Len(s) \in Nat
    BY <1>0, <1>1, <1>3
  <2>2. t[1] = b /\ \A i \in 1 .. Len(s) : t[i + 1] = s[i]
    BY <1>0, <1>1, <1>3
  <2> HIDE DEF t
  <2>3. \A i \in 1 .. Len(s) + 1 : i = 1 \/ (i - 1 \in 1 .. Len(s) /\ t[i] = s[i - 1])
    BY <2>1, <2>2
  <2>4. \A i \in 1 .. Len(s) : i + 1 \in 1 .. Len(s) + 1
    BY <2>1
  <2>5. 1 \in 1 .. Len(s) + 1
    BY <2>1
  <2>6. ASSUME NEW x
        PROVE  x \in {t[i] : i \in 1 .. Len(s) + 1} <=> x \in {s[i] : i \in 1 .. Len(s)} \cup {b}
    <3>1. ASSUME NEW i \in 1 .. Len(s) + 1, x = t[i]
          PROVE  x = b \/ \E j \in 1 .. Len(s) : x = s[j]
      BY <2>2, <2>3, <3>1
    <3>2. ASSUME NEW j \in 1 .. Len(s), x = s[j]
          PROVE  \E i \in 1 .. Len(s) + 1 : x = t[i]
      BY <2>2, <2>4, <3>2
    <3>3. x = b => \E i \in 1 .. Len(s) + 1 : x = t[i]
      BY <2>2, <2>5
    <3> QED BY <3>1, <3>2, <3>3
  <2> QED BY <1>1, <1>3, <2>1, <2>6 DEF t, Values
<1> QED BY <1>2, <1>3

LEMMA ObjectionAtEitherEnd ==
  ASSUME NEW s \in Seq(Verdict), NEW b \in {"ask", "deny"}, NEW more \in {Append(s, b), <<b>> \o s},
         NEW v, IsStrongest(v, s), NEW w, IsStrongest(w, more)
  PROVE  Objection(v, w)
<1>1. more \in Seq(Verdict) /\ Values(more) = Values(s) \cup {b}
  BY OneMoreAtEitherEnd
<1> QED BY <1>1, OneMoreObjection

LEMMA OneMoreType ==
  ASSUME NEW s \in Seq(Verdict), NEW b \in {"ask", "deny"}, NEW more \in {Append(s, b), <<b>> \o s}
  PROVE  more \in Seq(Verdict)
BY OneMoreAtEitherEnd

\* What the tool's own check may say.
Checks == [behavior : Verdict, immune : {FALSE}] \cup {[behavior |-> "ask", immune |-> TRUE]}

\* With the same mode, other than dontAsk, an objection in the place of a hook's verdict, a
\* rule's or the tool's makes the outcome no milder.
LEMMA EvaluateMonotone ==
  ASSUME NEW c, NEW d, c.mode # "dontAsk", d.mode = c.mode,
         c.check \in Checks, d.check \in Checks,
         HookDecision(c.hooks) \in Verdict, HookDecision(d.hooks) \in Verdict,
         StrongestMatchingRule(c.rules) \in Verdict, StrongestMatchingRule(d.rules) \in Verdict,
         Objection(HookDecision(c.hooks), HookDecision(d.hooks)),
         Objection(StrongestMatchingRule(c.rules), StrongestMatchingRule(d.rules)),
         \/ d.check = c.check
         \/ d.check.behavior = "deny"
         \/ d.check.immune /\ c.check.behavior # "deny"
  PROVE  Priority[Evaluate(d)] >= Priority[Evaluate(c)]
<1> DEFINE h == HookDecision(c.hooks) g == HookDecision(d.hooks)
           r == StrongestMatchingRule(c.rules) q == StrongestMatchingRule(d.rules)
<1>1. /\ Evaluate(c) = IF "deny" \in {h, r, c.check.behavior} THEN "deny"
                       ELSE IF r = "ask" \/ c.check.immune THEN "ask"
                       ELSE IF "allow" \in {r, h} THEN "allow"
                       ELSE IF h = "ask" THEN "ask"
                       ELSE IF c.mode = "bypassPermissions" \/ c.check.behavior = "allow" THEN "allow"
                       ELSE "ask"
      /\ Evaluate(d) = IF "deny" \in {g, q, d.check.behavior} THEN "deny"
                       ELSE IF q = "ask" \/ d.check.immune THEN "ask"
                       ELSE IF "allow" \in {q, g} THEN "allow"
                       ELSE IF g = "ask" THEN "ask"
                       ELSE IF c.mode = "bypassPermissions" \/ d.check.behavior = "allow" THEN "allow"
                       ELSE "ask"
  BY DEF Evaluate, ApplyDontAsk
<1>2. Objection(h, g) /\ Objection(r, q) /\ {h, g, r, q} \subseteq Verdict
  OBVIOUS
<1> HIDE DEF h, g, r, q
<1>3. (h = "deny" => g = "deny") /\ (r = "deny" => q = "deny")
      /\ (h = "ask" => g \in {"ask", "deny"}) /\ (r = "ask" => q \in {"ask", "deny"})
      /\ (g = "allow" => h = "allow") /\ (q = "allow" => r = "allow")
      /\ (q = Passthrough => r = Passthrough) /\ (g = Passthrough => h = Passthrough)
  BY <1>2, ObjectionKinds
<1>4. (c.check.behavior = "deny" => d.check.behavior = "deny")
      /\ (c.check.immune => d.check.immune \/ d.check.behavior = "deny")
  BY DEF Checks
<1>5. Evaluate(c) = "deny" => Evaluate(d) = "deny"
  BY <1>1, <1>3, <1>4
<1>6. Evaluate(c) = "ask" => Evaluate(d) \in {"ask", "deny"}
  <2> SUFFICES ASSUME Evaluate(c) = "ask", Evaluate(d) = "allow" PROVE FALSE
    BY EvaluateBehavior DEF Behavior
  <2>1. /\ "deny" \notin {g, q, d.check.behavior} /\ q # "ask" /\ ~d.check.immune
        /\ d.check = c.check /\ r # "ask" /\ ~c.check.immune
        /\ "deny" \notin {h, r, c.check.behavior}
    BY <1>1, <1>3, <1>4
  <2>2. "allow" \notin {r, h}
    BY <1>1, <2>1
  <2>3. "allow" \notin {q, g}
    BY <1>3, <2>2
  <2>4. h # "ask"
    BY <1>1, <1>3, <2>1, <2>3
  <2> QED BY <1>1, <2>1, <2>2, <2>3, <2>4
<1>7. Evaluate(c) \in Behavior /\ Evaluate(d) \in Behavior
  BY EvaluateBehavior
<1> QED BY <1>5, <1>6, <1>7, PriorityValues DEF Behavior

\* Every call there is, whatever hooks are installed and rules configured.
AnyCall == Call(Seq(Verdict), Seq(Behavior))

\* Outside dontAsk no objection, of any source and in any place, makes the outcome of any call
\* milder (PermissionEngine.Evaluate, Middleware.authorize).
THEOREM ObjectionsNeverSoften ==
  \A c \in AnyCall : c.mode # "dontAsk" =>
    \A s \in Stricter(c) : Priority[Evaluate(s)] >= Priority[Evaluate(c)]
<1> SUFFICES ASSUME NEW c \in AnyCall, c.mode # "dontAsk", NEW s \in Stricter(c)
             PROVE  Priority[Evaluate(s)] >= Priority[Evaluate(c)]
  OBVIOUS
<1>1. /\ c.hooks \in Seq(Verdict) /\ c.rules \in Seq(Behavior) /\ c.check \in Checks
      /\ c = [mode |-> c.mode, hooks |-> c.hooks, rules |-> c.rules, check |-> c.check]
  BY DEF AnyCall, Call, Checks, Verdict
<1>2. c.rules \in Seq(Verdict)
  BY <1>1 DEF Verdict
<1>3. \A v, q : v \in {Passthrough} \cup {q[i] : i \in DOMAIN q} /\ q \in Seq(Verdict) => v \in Verdict
  <2> TAKE v, q
  <2> HAVE v \in {Passthrough} \cup {q[i] : i \in DOMAIN q} /\ q \in Seq(Verdict)
  <2>1. \A i \in DOMAIN q : q[i] \in Verdict
    OBVIOUS
  <2> QED BY <2>1 DEF Verdict
<1>4. /\ IsStrongest(HookDecision(c.hooks), c.hooks)
      /\ IsStrongest(StrongestMatchingRule(c.rules), c.rules)
  BY <1>1, HookDecisionStrongest, MatchingRuleStrongest
<1>5. HookDecision(c.hooks) \in Verdict /\ StrongestMatchingRule(c.rules) \in Verdict
  BY <1>1, <1>2, <1>3, <1>4 DEF IsStrongest
<1>6. ASSUME NEW b \in {"ask", "deny"}, NEW hooks \in {Append(c.hooks, b), <<b>> \o c.hooks},
             s = [c EXCEPT !.hooks = hooks]
      PROVE  Priority[Evaluate(s)] >= Priority[Evaluate(c)]
  <2>1. hooks \in Seq(Verdict)
    BY <1>1, OneMoreType
  <2>2. IsStrongest(HookDecision(hooks), hooks)
    BY <2>1, HookDecisionStrongest
  <2>3. Objection(HookDecision(c.hooks), HookDecision(hooks)) /\ HookDecision(hooks) \in Verdict
    <3>1. Objection(HookDecision(c.hooks), HookDecision(hooks))
      BY <1>1, <1>4, <2>2, ObjectionAtEitherEnd
    <3> QED BY <3>1, <1>3, <2>1, <2>2 DEF IsStrongest
  <2>4. s.hooks = hooks /\ s.rules = c.rules /\ s.mode = c.mode /\ s.check = c.check
    BY <1>1, <1>6
  <2>5. Objection(StrongestMatchingRule(c.rules), StrongestMatchingRule(s.rules))
    BY <2>4 DEF Objection
  <2> QED BY <1>1, <1>5, <2>3, <2>4, <2>5, EvaluateMonotone
<1>7. ASSUME NEW b \in {"ask", "deny"}, NEW rules \in {Append(c.rules, b), <<b>> \o c.rules},
             s = [c EXCEPT !.rules = rules]
      PROVE  Priority[Evaluate(s)] >= Priority[Evaluate(c)]
  <2>1. rules \in Seq(Verdict)
    BY <1>2, OneMoreType
  <2>2. rules \in Seq(Behavior)
    <3>1. b \in Behavior
      BY DEF Behavior
    <3>2. <<b>> \in Seq(Behavior)
      BY <3>1
    <3>3. Append(c.rules, b) \in Seq(Behavior) /\ <<b>> \o c.rules \in Seq(Behavior)
      BY <1>1, <3>1, <3>2
    <3> QED BY <3>3
  <2>3. IsStrongest(StrongestMatchingRule(rules), rules)
    BY <2>2, MatchingRuleStrongest
  <2>4. Objection(StrongestMatchingRule(c.rules), StrongestMatchingRule(rules))
        /\ StrongestMatchingRule(rules) \in Verdict
    <3>1. Objection(StrongestMatchingRule(c.rules), StrongestMatchingRule(rules))
      BY <1>2, <1>4, <2>3, ObjectionAtEitherEnd
    <3> QED BY <3>1, <1>3, <2>1, <2>3 DEF IsStrongest
  <2>5. s.hooks = c.hooks /\ s.rules = rules /\ s.mode = c.mode /\ s.check = c.check
    BY <1>1, <1>7
  <2>6. Objection(HookDecision(c.hooks), HookDecision(s.hooks))
    BY <2>5 DEF Objection
  <2> QED BY <1>1, <1>5, <2>4, <2>5, <2>6, EvaluateMonotone
<1>8. ASSUME NEW k, s = [c EXCEPT !.check = k],
             \/ k = [behavior |-> "deny", immune |-> FALSE]
             \/ k = [behavior |-> "ask", immune |-> TRUE] /\ c.check # [behavior |-> "deny", immune |-> FALSE]
      PROVE  Priority[Evaluate(s)] >= Priority[Evaluate(c)]
  <2>1. s.hooks = c.hooks /\ s.rules = c.rules /\ s.mode = c.mode /\ s.check = k
    BY <1>1, <1>8
  <2>2. k \in Checks /\ (k.behavior = "deny" \/ (k.immune /\ c.check.behavior # "deny"))
    <3>1. CASE k = [behavior |-> "deny", immune |-> FALSE]
      BY <3>1 DEF Checks, Verdict, Behavior
    <3>2. CASE k = [behavior |-> "ask", immune |-> TRUE] /\ c.check # [behavior |-> "deny", immune |-> FALSE]
      <4>1. k \in Checks /\ k.immune
        BY <3>2 DEF Checks
      <4>2. c.check.behavior # "deny"
        <5> SUFFICES ASSUME c.check.behavior = "deny" PROVE FALSE
          OBVIOUS
        <5>1. c.check \in [behavior : Verdict, immune : {FALSE}]
          <6>1. c.check # [behavior |-> "ask", immune |-> TRUE]
            OBVIOUS
          <6> QED BY <1>1, <6>1 DEF Checks
        <5>2. c.check = [behavior |-> c.check.behavior, immune |-> c.check.immune] /\ c.check.immune = FALSE
          BY <5>1
        <5> QED BY <3>2, <5>2
      <4> QED BY <4>1, <4>2
    <3> QED BY <1>8, <3>1, <3>2
  <2>3. /\ Objection(HookDecision(c.hooks), HookDecision(s.hooks))
        /\ Objection(StrongestMatchingRule(c.rules), StrongestMatchingRule(s.rules))
    BY <2>1 DEF Objection
  <2> QED BY <1>1, <1>5, <2>1, <2>2, <2>3, EvaluateMonotone
<1> QED BY <1>6, <1>7, <1>8 DEF Stricter

\* The property of the run: the calls with at most two hooks and rules are among them.
THEOREM PolicyNeverMilder == Spec => []StricterNeverMilder
<1>1. SmallCalls \subseteq AnyCall
  <2>1. ASSUME NEW S PROVE UpToTwo(S) \subseteq Seq(S)
    <3>1. ASSUME NEW n \in 0 .. 2, NEW f \in [1 .. n -> S] PROVE f \in Seq(S)
      <4>1. n \in Nat
        OBVIOUS
      <4>2. f \in UNION {[1 .. m -> S] : m \in Nat}
        BY <4>1
      <4> QED BY <4>2, SeqDef
    <3> QED BY <3>1 DEF UpToTwo
  <2>2. UpToTwo(Verdict) \subseteq Seq(Verdict) /\ UpToTwo(Behavior) \subseteq Seq(Behavior)
    BY <2>1
  <2> QED BY <2>2 DEF SmallCalls, AnyCall, Call, Verdict
<1>2. StricterNeverMilder
  BY <1>1, ObjectionsNeverSoften DEF StricterNeverMilder
<1> QED BY <1>2, PTL
=============================================================================
