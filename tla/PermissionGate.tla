--------------------------- MODULE PermissionGate ---------------------------
(***************************************************************************)
(* A tool call that has to ask (action/claude_permissions): authorize      *)
(* evaluates the policy; PermissionCoordinator.Resolve starts a goroutine  *)
(* that registers and publishes the request at the PermissionBroker, then  *)
(* one goroutine per PermissionRequest hook; the terminal of               *)
(* cmd/claude-permission-agent serves the published requests one by one.   *)
(* Hooks and terminal race to resolve the request.  Several calls run at   *)
(* the same time.  A request is named by its call: Prepare never gives an  *)
(* id twice.                                                               *)
(***************************************************************************)
EXTENDS PermissionEngine, FiniteSets

CONSTANTS
  Calls, Hooks,    \* the tool calls, and the PermissionRequest hooks
  Inputs,          \* what a call may look like to the policy
  Buffer,          \* capacity of PermissionBroker.requests
  Hosts            \* "terminal": a loop serves the requests;
                   \* "headless": nobody does, and every hook decides
ASSUME GateAssumption ==
  Buffer \in Nat \ {0} /\ Hosts \subseteq {"terminal", "headless"}

Answer == {"allow", "deny"}
NoRequest == "none"
ASSUME NoRequestAssumption == NoRequest \notin Calls

VARIABLES
  call,          \* per call: where authorize is
  result,        \* per call: what it returned, "none" before
  broker,        \* per call: where the goroutine in PermissionBroker.request is
  pending,       \* PermissionBroker.pending
  response,      \* per call: its responseCh, of capacity one
  brokerResult,  \* per call: brokerResult and brokerError, of capacity one
  requests,      \* PermissionBroker.requests
  hook,          \* per call and hook: "off", "running", "ended", or the answer that
                 \* Resolve has claimed the request with and not yet sent
  prompt,        \* the request the terminal shows, or NoRequest
  typed,         \* the answer the terminal has claimed it with, "none" before
  cancelled,     \* the calls whose context is done
  host           \* the kind of host, a member of Hosts

callVars == <<call, result, cancelled>>
brokerVars == <<broker, pending, response, brokerResult, requests>>
answerVars == <<hook, prompt, typed>>
vars == <<callVars, brokerVars, answerVars, host>>

Init ==
  /\ call = [c \in Calls |-> "idle"]
  /\ result = [c \in Calls |-> "none"]
  /\ broker = [c \in Calls |-> "off"]
  /\ pending = {}
  /\ response = [c \in Calls |-> "none"]
  /\ brokerResult = [c \in Calls |-> "none"]
  /\ requests = <<>>
  /\ hook = [c \in Calls |-> [h \in Hooks |-> "off"]]
  /\ prompt = NoRequest /\ typed = "none"
  /\ cancelled = {}
  /\ host \in Hosts

---------------------------------------------------------------------------
(* The tool call: authorize and PermissionCoordinator.Resolve.             *)

Returns(c, r) ==
  /\ call' = [call EXCEPT ![c] = "returned"]
  /\ result' = [result EXCEPT ![c] = r]

Authorize(c, i) ==
  /\ call[c] = "idle"
  /\ IF Evaluate(i) = "ask"
     THEN /\ call' = [call EXCEPT ![c] = "starting"]
          /\ broker' = [broker EXCEPT ![c] = "register"]
          /\ UNCHANGED result
     ELSE Returns(c, Evaluate(i)) /\ UNCHANGED broker
  /\ UNCHANGED <<cancelled, pending, response, brokerResult, requests, answerVars, host>>

\* A PreToolUse hook or the tool's check fails.
AuthorizeError(c) ==
  /\ call[c] = "idle"
  /\ Returns(c, "error")
  /\ UNCHANGED <<cancelled, brokerVars, answerVars, host>>

\* The hooks are started once the request can be resolved.
StartHooksAtOnce(c) ==                 \* mutant: without waiting for `registered`
  /\ call[c] = "starting"
  /\ call' = [call EXCEPT ![c] = "waiting"]
  /\ hook' = [hook EXCEPT ![c] = [h \in Hooks |-> "running"]]
  /\ UNCHANGED <<result, cancelled, brokerVars, prompt, typed, host>>
StartHooks(c) ==
  /\ call[c] = "starting" /\ broker[c] \notin {"off", "register"}
  /\ call' = [call EXCEPT ![c] = "waiting"]
  /\ hook' = [hook EXCEPT ![c] = [h \in Hooks |-> "running"]]
  /\ UNCHANGED <<result, cancelled, brokerVars, prompt, typed, host>>

\* Either select may see the context or the goroutine's error.
ReturnError(c) ==
  /\ call[c] \in {"starting", "waiting"}
  /\ c \in cancelled \/ brokerResult[c] = "error"
  /\ Returns(c, "error")
  /\ UNCHANGED <<cancelled, brokerVars, answerVars, host>>

ReturnResponseAtOnce(c) ==             \* mutant: a zero response is returned
  /\ call[c] = "waiting"
  /\ Returns(c, brokerResult[c])
  /\ UNCHANGED <<cancelled, brokerVars, answerVars, host>>
ReturnResponse(c) ==
  /\ call[c] = "waiting" /\ brokerResult[c] \in Answer
  /\ Returns(c, brokerResult[c])
  /\ UNCHANGED <<cancelled, brokerVars, answerVars, host>>

Cancel(c) ==
  /\ c \notin cancelled
  /\ cancelled' = cancelled \cup {c}
  /\ UNCHANGED <<call, result, brokerVars, answerVars, host>>

---------------------------------------------------------------------------
(* The goroutine in PermissionBroker.request.                              *)

\* runCtx: the context of the call, cancelled also when Resolve returns.
AnyContextDone(c) ==                   \* mutant: one context for all calls
  \E d \in Calls : d \in cancelled \/ call[d] = "returned"
RunContextDone(c) == c \in cancelled \/ call[c] = "returned"

Register(c) ==
  /\ broker[c] = "register"
  /\ pending' = pending \cup {c}
  /\ broker' = [broker EXCEPT ![c] = "publish"]
  /\ UNCHANGED <<callVars, response, brokerResult, requests, answerVars, host>>

Publish(c) ==
  /\ broker[c] = "publish" /\ Len(requests) < Buffer
  /\ requests' = Append(requests, c)
  /\ broker' = [broker EXCEPT ![c] = "await"]
  /\ UNCHANGED <<callVars, pending, response, brokerResult, answerVars, host>>

\* A response may arrive in either select, before the request is published too.
TakeAfterPublish(c) ==                 \* mutant: only after the request is published
  /\ broker[c] = "await" /\ response[c] # "none"
  /\ response' = [response EXCEPT ![c] = "none"]
  /\ brokerResult' = [brokerResult EXCEPT ![c] = response[c]]
  /\ broker' = [broker EXCEPT ![c] = "ended"]
  /\ UNCHANGED <<callVars, pending, requests, answerVars, host>>
Take(c) ==
  /\ broker[c] \in {"publish", "await"} /\ response[c] # "none"
  /\ response' = [response EXCEPT ![c] = "none"]
  /\ brokerResult' = [brokerResult EXCEPT ![c] = response[c]]
  /\ broker' = [broker EXCEPT ![c] = "ended"]
  /\ UNCHANGED <<callVars, pending, requests, answerVars, host>>

AbandonWithoutRemove(c) ==             \* mutant: the request stays pending
  /\ broker[c] \in {"publish", "await"} /\ RunContextDone(c)
  /\ brokerResult' = [brokerResult EXCEPT ![c] = "error"]
  /\ broker' = [broker EXCEPT ![c] = "ended"]
  /\ UNCHANGED <<callVars, pending, response, requests, answerVars, host>>
Abandon(c) ==
  /\ broker[c] \in {"publish", "await"} /\ RunContextDone(c)
  /\ pending' = pending \ {c}
  /\ brokerResult' = [brokerResult EXCEPT ![c] = "error"]
  /\ broker' = [broker EXCEPT ![c] = "ended"]
  /\ UNCHANGED <<callVars, response, requests, answerVars, host>>

---------------------------------------------------------------------------
(* PermissionBroker.Resolve: claim the request under the mutex, then send. *)

ClaimWithoutDelete(c) ==               \* mutant: the request stays resolvable
  c \in pending /\ UNCHANGED pending
Claim(c) == c \in pending /\ pending' = pending \ {c}

Send(c, a) ==
  /\ response[c] = "none"
  /\ response' = [response EXCEPT ![c] = a]

Hook(c, h, from, to) ==
  /\ hook[c][h] = from
  /\ hook' = [hook EXCEPT ![c][h] = to]
  /\ UNCHANGED <<callVars, broker, brokerResult, requests, prompt, typed, host>>

\* The hook answers in time; an error of the hook is a deny.
HookClaims(c, h, a) ==
  /\ Hook(c, h, "running", a)
  /\ Claim(c)
  /\ UNCHANGED response

HookTooLate(c, h) ==
  /\ Hook(c, h, "running", "ended")
  /\ c \notin pending
  /\ UNCHANGED <<pending, response>>

\* nil, or a behaviour that is neither allow nor deny: no answer.
HookSilent(c, h) ==
  /\ host = "terminal"
  /\ Hook(c, h, "running", "ended")
  /\ UNCHANGED <<pending, response>>

HookSends(c, h, a) ==
  /\ Hook(c, h, a, "ended")
  /\ Send(c, a)
  /\ UNCHANGED pending

---------------------------------------------------------------------------
(* serveApprovals: one request at a time.                                  *)

\* A request that is no longer pending is skipped.
TerminalShows ==
  /\ host = "terminal" /\ prompt = NoRequest /\ requests # <<>>
  /\ requests' = Tail(requests)
  /\ prompt' = IF Head(requests) \in pending THEN Head(requests) ELSE NoRequest
  /\ UNCHANGED <<callVars, broker, pending, response, brokerResult, hook, typed, host>>

\* The user answers; meanwhile somebody else may have.
TerminalClaims(a) ==
  /\ prompt # NoRequest /\ typed = "none"
  /\ Claim(prompt)
  /\ typed' = a
  /\ UNCHANGED <<callVars, broker, response, brokerResult, requests, hook, prompt, host>>

TerminalTooLate ==
  /\ prompt # NoRequest /\ typed = "none" /\ prompt \notin pending
  /\ prompt' = NoRequest
  /\ UNCHANGED <<callVars, brokerVars, hook, typed, host>>

TerminalSends ==
  /\ typed # "none"
  /\ Send(prompt, typed)
  /\ prompt' = NoRequest /\ typed' = "none"
  /\ UNCHANGED <<callVars, broker, pending, brokerResult, requests, hook, host>>

---------------------------------------------------------------------------

BrokerStep(c) == Register(c) \/ Publish(c) \/ Take(c) \/ Abandon(c)
HookStep(c, h) ==
  HookTooLate(c, h) \/ HookSilent(c, h) \/ \E a \in Answer : HookClaims(c, h, a) \/ HookSends(c, h, a)
TerminalStep ==
  TerminalShows \/ TerminalTooLate \/ TerminalSends \/ \E a \in Answer : TerminalClaims(a)
CallStep(c) == StartHooks(c) \/ ReturnError(c) \/ ReturnResponse(c)

Next ==
  \/ \E c \in Calls :
       \/ \E i \in Inputs : Authorize(c, i)
       \/ AuthorizeError(c) \/ Cancel(c)
       \/ CallStep(c) \/ BrokerStep(c) \/ \E h \in Hooks : HookStep(c, h)
  \/ TerminalStep

Spec == Init /\ [][Next]_vars

\* Goroutines run, hooks return, and the user answers what is shown.
Fairness ==
  /\ \A c \in Calls : /\ WF_vars(CallStep(c)) /\ WF_vars(BrokerStep(c))
                      /\ \A h \in Hooks : WF_vars(HookStep(c, h))
  /\ WF_vars(TerminalStep)
FairSpec == Spec /\ Fairness

---------------------------------------------------------------------------
(* What it promises: FirstAnswer.                                          *)

\* Answer a was accepted for c and is on its way.
Carries(c, a) ==
  \/ \E h \in Hooks : hook[c][h] = a
  \/ prompt = c /\ typed = a
  \/ response[c] = a
  \/ brokerResult[c] = a

Accepted(c) ==
  IF Carries(c, "allow") THEN "allow" ELSE IF Carries(c, "deny") THEN "deny" ELSE "none"

Asked == {c \in Calls : broker[c] # "off"}

Promise == INSTANCE FirstAnswer WITH
  asked <- Asked, answer <- [c \in Calls |-> Accepted(c)], outcome <- result

\* A call that asks gets the first answer, of a hook or of the terminal, and no
\* other; it fails only when it was cancelled (PermissionCoordinator.Resolve,
\* PermissionBroker.Resolve).
ImplementsFirstAnswer == Promise!Spec

---------------------------------------------------------------------------
(* Properties.                                                             *)

\* The type invariant: requests that are pending, queued or shown belong to
\* calls that asked, channels hold an answer, an error or nothing, and a call
\* has a result when it has returned.
TypeOK ==
  /\ call \in [Calls -> {"idle", "starting", "waiting", "returned"}]
  /\ result \in [Calls -> Answer \cup {"error", "none"}]
  /\ \A c \in Calls : call[c] = "returned" <=> result[c] # "none"
  /\ broker \in [Calls -> {"off", "register", "publish", "await", "ended"}]
  /\ pending \subseteq Asked
  /\ response \in [Calls -> Answer \cup {"none"}]
  /\ brokerResult \in [Calls -> Answer \cup {"error", "none"}]
  /\ requests \in Seq(Asked) /\ Len(requests) <= Buffer
  /\ hook \in [Calls -> [Hooks -> Answer \cup {"off", "running", "ended"}]]
  /\ prompt \in Asked \cup {NoRequest}
  /\ typed \in Answer \cup {"none"}
  /\ cancelled \subseteq Calls
  /\ host \in Hosts

\* Who holds the right to answer c, or the answer itself.
HookHolds(c, h) == hook[c][h] \in Answer
TerminalHolds(c) == prompt = c /\ typed # "none"
Delivered(c) == response[c] # "none" \/ brokerResult[c] \in Answer

\* Of all who race to answer a call one wins, so that the send to its channel of
\* capacity one never blocks a hook or the terminal (PermissionBroker.Resolve).
OneAnswer ==
  \A c \in Calls :
    /\ c \in pending => ~TerminalHolds(c) /\ ~Delivered(c) /\ \A h \in Hooks : ~HookHolds(c, h)
    /\ TerminalHolds(c) => ~Delivered(c) /\ \A h \in Hooks : ~HookHolds(c, h)
    /\ \A h \in Hooks : HookHolds(c, h) =>
         ~Delivered(c) /\ \A g \in Hooks : HookHolds(c, g) => g = h
    /\ response[c] # "none" => brokerResult[c] \notin Answer

\* A request whose call no longer waits for it cannot be resolved, however the
\* wait ended (removePending; serveApprovals skips it by IsPending).
EndedIsNotPending == \A c \in Calls : broker[c] = "ended" => c \notin pending

\* A hook that decides settles the question: it is not started before the
\* request can be resolved (the channel `registered`).
HookAnswerCounts ==
  host = "headless" =>
    \A c \in Calls : \A h \in Hooks :
      hook[c][h] \notin {"off", "running"} => broker[c] # "register" /\ c \notin pending

\* Calls with at most two PreToolUse hooks and two rules that match.
UpToTwo(S) == UNION {[1 .. n -> S] : n \in 0 .. 2}
SmallCalls == Call(UpToTwo(Behavior \cup {Passthrough}), UpToTwo(Behavior))

\* Outside dontAsk, one more objection never makes the outcome milder, whatever
\* the order of hooks and rules ("避免规则顺序影响安全结果", strongestMatchingRule).
\* It is about the policy that every call meets, and evaluated before one starts.
StricterNeverMilder ==
  (\A c \in Calls : call[c] = "idle") =>
    \A i \in {j \in SmallCalls : j.mode # "dontAsk"} :
      \A s \in Stricter(i) : Priority[Evaluate(s)] >= Priority[Evaluate(i)]

\* Every call returns: the queue may be full of requests that nobody takes, and
\* the user may be shown one after the other (PermissionBroker.request).
EveryCallReturns == \A c \in Calls : call[c] = "starting" ~> call[c] = "returned"

\* For TLC: one call of each outcome of the policy.
PlainInputs ==
  {[mode |-> "default", hooks |-> <<>>, rules |-> r,
    check |-> [behavior |-> "ask", immune |-> FALSE]] : r \in {<<>>, <<"allow">>, <<"deny">>}}
=============================================================================
