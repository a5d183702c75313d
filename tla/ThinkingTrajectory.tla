------------------------- MODULE ThinkingTrajectory -------------------------
(***************************************************************************)
(* reasoning/claude_native_thinking: a trajectory keeps the output items   *)
(* of the last turn, reasoning and messages, and puts them into the next   *)
(* request, since nothing is stored at the API.                            *)
(***************************************************************************)
EXTENDS Integers, Sequences, SequencesExt

CONSTANTS MaxOutput, MaxRequests  \* items of an answer, turns

VARIABLES
  thinking,  \* the config asks for reasoning (normalizeTrajectoryReasoning)
  kept,      \* Trajectory.output: items [turn, kind, encrypted]
  input,     \* the input of the last request
  requests,  \* turns so far
  recorded   \* the turn Record was last called for since the start or Reset (an observer)

trajectoryVars == <<thinking, kept, input, requests, recorded>>

Init == thinking \in BOOLEAN /\ kept = <<>> /\ input = <<>> /\ requests = 0 /\ recorded = 0

IsReasoning(item) == item.kind = "reasoning"
NormalizeOnce(items) ==                    \* mutant: one trailing item is cut off
  IF items # <<>> /\ IsReasoning(Last(items)) THEN Front(items) ELSE items
\* NormalizeTrajectoryOutput: no reasoning at the end, nor on its own.
Normalize(items) ==
  LET speaking == {i \in DOMAIN items : ~IsReasoning(items[i])}
  IN IF speaking = {} THEN <<>>
     ELSE SubSeq(items, 1, CHOOSE i \in speaking : \A j \in speaking : j <= i)

Item(kind) == [turn |-> requests', kind |-> kind, encrypted |-> kind = "reasoning" /\ thinking]
\* NextRequest, buildResponsesRequest, BuildNextInput: the items of the last turn, then the user.
NextInput == Append(Normalize(kept), Item("user"))

\* RunTurn: the request, and Record when it is answered; an error keeps the trajectory as it was.
RunTurn ==
  /\ requests < MaxRequests /\ requests' = requests + 1 /\ input' = NextInput
  /\ \/ \E kinds \in BoundedSeq({"reasoning", "message"}, MaxOutput) :
          /\ kept' = Normalize([i \in DOMAIN kinds |-> Item(kinds[i])])
          /\ recorded' = requests'
     \/ UNCHANGED <<kept, recorded>>
  /\ UNCHANGED thinking

Reset ==
  /\ kept' = <<>> /\ recorded' = 0
  /\ UNCHANGED <<thinking, input, requests>>

Next == RunTurn \/ Reset
Spec == Init /\ [][Next]_trajectoryVars

-----------------------------------------------------------------------------
TypeOK == Len(kept) <= MaxOutput /\ requests \in 0..MaxRequests /\ recorded \in 0..requests

\* A request resumes the last answered turn and no other: the items are of that turn, every
\* reasoning item is followed by what it led to, and carries its content when reasoning was
\* asked for.
ResumesTheLastTurn ==
  /\ \A i \in DOMAIN kept : kept[i].turn = recorded
  /\ input # <<>> => Last(input).kind = "user" /\ Last(input).turn = requests
  /\ \A i \in DOMAIN input : IsReasoning(input[i]) =>
       /\ \E j \in DOMAIN input : j > i /\ input[j].kind = "message" /\ input[j].turn = input[i].turn
       /\ input[i].encrypted = thinking
=============================================================================
