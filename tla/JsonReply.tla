----------------------------- MODULE JsonReply ------------------------------
(***************************************************************************)
(* How the agents find the JSON object in what a model replies: the scan   *)
(* that reasoning/compose, cot, cot_v2, hypothesis and reflection/critique *)
(* have a copy of, and the shorter form of perception/compaction, that     *)
(* memory/mem0 has too.  A reply is prose, an object that may be cut off,  *)
(* prose again and perhaps a Markdown fence around it; a text is a         *)
(* sequence of the marks the code looks at, "char" any other character.    *)
(***************************************************************************)
EXTENDS Integers, Sequences, SequencesExt

CONSTANTS
  Objects,     \* the JSON objects in replies
  Proses,      \* pairs of what stands before and behind one
  Fences       \* of "none", "block", "open" (no closing fence), "inline"

VARIABLES
  modelReply,     \* [before, object, after, cut, fence], or NoReply
  extracted,   \* by the scan, or NoObject
  extractedOuter  \* by the shorter form

replyVars == <<modelReply, extracted, extractedOuter>>

NoReply == [before |-> <<>>, object |-> <<>>, after |-> <<>>, cut |-> FALSE, fence |-> "none"]
NoObject == <<>>
Init == modelReply = NoReply /\ extracted = NoObject /\ extractedOuter = NoObject

\* encoding/json: the objects, and numbers.
ValidJSON(text) == text \in Objects \cup {<<"char">>}

-----------------------------------------------------------------------------
First(text, mark) == SelectInSeq(text, LAMBDA m : m = mark)
LastOf(text, mark) == SelectLastInSeq(text, LAMBDA m : m = mark)
TrimSpace(text) ==
  LET inner == {i \in DOMAIN text : text[i] # "newline"}
  IN IF inner = {} THEN <<>>
     ELSE SubSeq(text, CHOOSE i \in inner : \A j \in inner : i <= j,
                       CHOOSE i \in inner : \A j \in inner : i >= j)

\* The first line goes, and the last one when it is a fence; one line stays as it is.
StripJSONFence(text) ==
  LET first == First(text, "newline")
      last == LastOf(text, "newline")
  IN IF Head(text) # "fence" \/ first = 0 THEN text
     ELSE IF last < Len(text) /\ text[last + 1] = "fence"
          THEN TrimSpace(SubSeq(text, first + 1, last - 1))
          ELSE TrimSpace(SubSeq(text, first + 1, Len(text)))

ScanStepOver(s, mark) ==                     \* mutant: an escaped quote ends the string
  CASE mark = "quote" -> [s EXCEPT !.inString = ~@]
    [] mark = "lbrace" /\ ~s.inString -> [s EXCEPT !.depth = @ + 1]
    [] mark = "rbrace" /\ ~s.inString -> [s EXCEPT !.depth = @ - 1]
    [] OTHER -> s
ScanStep(s, mark) ==
  CASE s.escaped -> [s EXCEPT !.escaped = FALSE]
    [] ~s.escaped /\ s.inString /\ mark = "escape" -> [s EXCEPT !.escaped = TRUE]
    [] ~s.escaped /\ mark = "quote" -> [s EXCEPT !.inString = ~@]
    [] ~s.escaped /\ ~s.inString /\ mark = "lbrace" -> [s EXCEPT !.depth = @ + 1]
    [] ~s.escaped /\ ~s.inString /\ mark = "rbrace" -> [s EXCEPT !.depth = @ - 1]
    [] OTHER -> s

\* Where the brace that opens at start is closed, 0 if it is not.
ScanEnd(text, start) ==
  LET rest == SubSeq(text, start, Len(text))
      Scan[i \in 0..Len(rest)] ==
        IF i = 0 THEN [inString |-> FALSE, escaped |-> FALSE, depth |-> 0] ELSE ScanStep(Scan[i - 1], rest[i])
      closed == {i \in DOMAIN rest : Scan[i].depth = 0}
  IN IF closed = {} THEN 0 ELSE start - 1 + CHOOSE i \in closed : \A j \in closed : i <= j

ExtractJSONObject(text) ==
  LET trimmed == StripJSONFence(TrimSpace(text))
      start == First(trimmed, "lbrace")
      end == ScanEnd(trimmed, start)
  IN IF ValidJSON(trimmed) THEN trimmed
     ELSE IF start = 0 \/ end = 0 \/ ~ValidJSON(SubSeq(trimmed, start, end)) THEN NoObject
     ELSE SubSeq(trimmed, start, end)

\* From the first brace to the last one; of a fence the first and the last line go.
ExtractOuterObject(text) ==
  LET first == First(text, "newline")
      last == LastOf(text, "newline")
      inner == IF Head(text) = "fence" /\ first < last THEN SubSeq(text, first + 1, last - 1) ELSE text
      start == First(inner, "lbrace")
      end == LastOf(inner, "rbrace")
  IN IF start > 0 /\ end >= start /\ ValidJSON(SubSeq(inner, start, end))
     THEN SubSeq(inner, start, end) ELSE NoObject

Text(r) ==
  LET inner == r.before \o r.object \o r.after
  IN CASE r.fence = "none" -> inner
       [] r.fence = "block" -> <<"fence", "char", "newline">> \o inner \o <<"newline", "fence">>
       [] r.fence = "open" -> <<"fence", "char", "newline">> \o inner
       [] r.fence = "inline" -> <<"fence">> \o inner \o <<"fence">>

\* Replies that are empty are an error everywhere.
Receive ==
  /\ modelReply = NoReply
  /\ \E object \in Objects, prose \in Proses, fence \in Fences : \E n \in 1..Len(object) :
       /\ n = Len(object) \/ prose[2] = <<>>          \* what is cut off ends there
       /\ modelReply' = [before |-> prose[1], object |-> SubSeq(object, 1, n), after |-> prose[2],
                    cut |-> n < Len(object), fence |-> fence]
  /\ extracted' = ExtractJSONObject(Text(modelReply'))
  /\ extractedOuter' = ExtractOuterObject(Text(modelReply'))

Next == Receive

-----------------------------------------------------------------------------
TypeOK == extracted \in Objects \cup {NoObject, <<"char">>} /\ extractedOuter \in Objects \cup {NoObject}

\* Whatever the strings in it hold and whatever follows, the object of a reply whose prose
\* before has no brace is found, whole, and of one that is cut off nothing is taken for it;
\* the shorter form finds it where no brace stands behind it either.
ExtractedIsTheObject ==
  modelReply # NoReply /\ First(modelReply.before, "lbrace") = 0 =>
    /\ extracted = IF modelReply.cut THEN NoObject ELSE modelReply.object
    /\ extractedOuter \in {NoObject, modelReply.object}
    /\ modelReply.cut => extractedOuter = NoObject
    /\ ~modelReply.cut /\ First(modelReply.after, "rbrace") = 0 => extractedOuter = modelReply.object
=============================================================================
