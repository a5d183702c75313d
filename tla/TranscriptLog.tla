--------------------------- MODULE TranscriptLog ---------------------------
(***************************************************************************)
(* memory/claude_auto_memory/transcript_store.go: the transcript of a      *)
(* session, a file with one message per line.  Append reads the file, adds *)
(* one line and syncs it; a write may be short, a sync may fail, and the   *)
(* process may die in between, which leaves what a failure leaves.         *)
(***************************************************************************)
EXTENDS Integers, Sequences, SequencesExt

CONSTANTS
  Messages,   \* message ids
  Derived,    \* those that are no normal message of user or assistant
  TooLong,    \* those whose line is longer than the buffer of the scanner
  MaxLines

VARIABLES
  lines,    \* the file: [ids, form], "whole", "half" or "open" (the newline is missing)
  accepted  \* ids of the Appends that returned no error, in order (an observer)

transcriptVars == <<lines, accepted>>

Line(ids, form) == [ids |-> ids, form |-> form]
Init == lines = <<>> /\ accepted = <<>>

\* validateTranscriptMessage
Normal(id) == id \notin Derived

\* The scanner takes an unterminated last line for a line; two objects on one line, half an
\* object or a line that is too long are an error.
Readable(line) == line.form # "half" /\ Len(line.ids) = 1 /\ line.ids[1] \notin TooLong
Unreadable == <<"error">>
LoadUntilBroken(ls) ==                        \* mutant: what can be read is returned
  LET read == SelectInSeq(ls, LAMBDA l : ~Readable(l))
  IN [k \in 1..(IF read = 0 THEN Len(ls) ELSE read - 1) |-> ls[k].ids[1]]
LoadUnlocked(ls) ==
  IF \A k \in DOMAIN ls : Readable(ls[k]) THEN [k \in DOMAIN ls |-> ls[k].ids[1]] ELSE Unreadable

\* O_APPEND: the bytes land at the end of the file, behind an unterminated line if there is one.
Write(ls, id, form) ==
  IF ls # <<>> /\ Last(ls).form # "whole"
  THEN [ls EXCEPT ![Len(ls)] = Line(Append(@.ids, id), IF form = "half" \/ @.form = "half" THEN "half" ELSE form)]
  ELSE Append(ls, Line(<<id>>, form))

\* Append up to the write: an invalid message, a file that cannot be read and an id that is
\* there are errors and write nothing.
AppendTo(id) ==
  /\ Len(lines) < MaxLines /\ Normal(id)
  /\ LoadUnlocked(lines) # Unreadable
  /\ ~Contains(LoadUnlocked(lines), id)
AppendMessage == \E id \in Messages :
  /\ AppendTo(id) /\ lines' = Write(lines, id, "whole") /\ accepted' = Append(accepted, id)
\* A short write, or a sync or close that fails behind a whole line.
AppendFails == \E id \in Messages, form \in {"whole", "half", "open"} :
  /\ AppendTo(id) /\ lines' = Write(lines, id, form) /\ UNCHANGED accepted

Next == AppendMessage \/ AppendFails
Spec == Init /\ [][Next]_transcriptVars

-----------------------------------------------------------------------------
TypeOK ==
  /\ accepted \in Seq(Messages \ Derived)
  /\ \A k \in DOMAIN lines : /\ lines[k].ids \in Seq(Messages \ Derived) \ {<<>>}
                             /\ k < Len(lines) => lines[k].form = "whole"

Before(ids, x, y) == \E i, j \in DOMAIN ids : i < j /\ ids[i] = x /\ ids[j] = y

\* A transcript that loads has every accepted message, in the order of the Appends, and no
\* message twice; a line that cannot be read is the last one.
LoadHasAllAccepted ==
  LET read == LoadUnlocked(lines) IN
  /\ read # Unreadable =>
       /\ \A k \in DOMAIN accepted : Contains(read, accepted[k])
       /\ \A j, k \in DOMAIN accepted : j < k => Before(read, accepted[j], accepted[k])
       /\ IsInjective(read)
  /\ \A k \in DOMAIN lines : k < Len(lines) => Readable(lines[k])
=============================================================================
