--------------------------- MODULE FailureJournal ---------------------------
(***************************************************************************)
(* memory/failure_tracking: failure entries in SQLite, kept twice - a      *)
(* status column that recall filters on, and a JSON of the whole entry     *)
(* that Review and the recall counter read, edit and write back.  Each     *)
(* journal (one per process) holds its mutex for a whole call, but         *)
(* journals on the same file share only single SQL statements.             *)
(***************************************************************************)
EXTENDS FiniteSets, Integers

CONSTANTS Journals, Entries, MaxRecalls   \* MaxRecalls bounds recalled_count

VARIABLES
  row,      \* per entry: NoRow, or its status column and its JSON
  journal,  \* per journal: the call that holds its mutex
  lastVerdict,  \* per entry: the status its last Record or Review call wrote (an observer)
  recalls   \* recalls started

journalVars == <<row, journal, lastVerdict, recalls>>

Status == {"draft", "needs_review", "approved", "archived"}
NoRow == [column |-> "none", json |-> [status |-> "none", reviewed |-> FALSE, recalled |-> 0]]
Idle == [op |-> "idle", entry |-> "none", todo |-> {}, json |-> NoRow.json]

Init ==
  /\ row = [f \in Entries |-> NoRow]
  /\ journal = [j \in Journals |-> Idle]
  /\ lastVerdict = [f \in Entries |-> "none"]
  /\ recalls = 0

\* Record: an approved entry needs a reviewer (validateFailureEntry).
Record(j, f) ==
  /\ journal[j] = Idle /\ row[f] = NoRow
  /\ \E s \in Status, r \in BOOLEAN :
       /\ s = "approved" => r
       /\ row' = [row EXCEPT ![f] = [column |-> s,
                    json |-> [status |-> s, reviewed |-> r, recalled |-> 0]]]
       /\ lastVerdict' = [lastVerdict EXCEPT ![f] = s]
  /\ UNCHANGED <<journal, recalls>>

\* Review reads the entry, edits it, and calls the embedder before it writes.
ReviewGet(j, f) ==
  /\ journal[j] = Idle /\ row[f] # NoRow
  /\ \E s \in Status \ {"draft"}, r \in BOOLEAN :
       /\ s = "approved" => r
       /\ journal' = [journal EXCEPT ![j] = [op |-> "review", entry |-> f, todo |-> {},
            json |-> [row[f].json EXCEPT !.status = s, !.reviewed = @ \/ r]]]
  /\ UNCHANGED <<row, lastVerdict, recalls>>

\* SQLiteStore.Update: the columns and the JSON in one statement.
ReviewUpdate(j) ==
  /\ journal[j].op = "review"
  /\ LET new == journal[j].json IN
     /\ row' = [row EXCEPT ![journal[j].entry] = [column |-> new.status, json |-> new]]
     /\ lastVerdict' = [lastVerdict EXCEPT ![journal[j].entry] = new.status]
  /\ journal' = [journal EXCEPT ![j] = Idle]
  /\ UNCHANGED recalls

\* RecallBeforeTool: any approved rows may match; each then has its counter raised.
Approved == {f \in Entries : row[f].column = "approved"}

SearchRecall(j) ==
  /\ journal[j] = Idle /\ recalls < MaxRecalls
  /\ \E matches \in SUBSET Approved \ {{}} :
       journal' = [journal EXCEPT ![j] = [Idle EXCEPT !.op = "recall", !.todo = matches]]
  /\ recalls' = recalls + 1
  /\ UNCHANGED <<row, lastVerdict>>

IncrementGet(j) ==
  /\ journal[j].op = "recall"
  /\ \E f \in journal[j].todo :
       journal' = [journal EXCEPT ![j] = [op |-> "increment", entry |-> f, todo |-> journal[j].todo \ {f},
                     json |-> [row[f].json EXCEPT !.recalled = @ + 1]]]
  /\ UNCHANGED <<row, lastVerdict, recalls>>

\* IncrementRecalledCount writes the counter and the JSON, not the status column.
IncrementWholeRow(j) ==                     \* mutant: the write goes through Update
  /\ journal[j].op = "increment"
  /\ row' = [row EXCEPT ![journal[j].entry] = [column |-> journal[j].json.status, json |-> journal[j].json]]
  /\ journal' = [journal EXCEPT ![j] = [Idle EXCEPT !.op = "recall", !.todo = journal[j].todo]]
  /\ UNCHANGED <<lastVerdict, recalls>>
IncrementWrite(j) ==
  /\ journal[j].op = "increment"
  /\ row' = [row EXCEPT ![journal[j].entry].json = journal[j].json]
  /\ journal' = [journal EXCEPT ![j] = [Idle EXCEPT !.op = "recall", !.todo = journal[j].todo]]
  /\ UNCHANGED <<lastVerdict, recalls>>

\* The call returns its matches, or an error after some of its writes.
Return(j) ==
  /\ journal[j].op # "idle"
  /\ journal' = [journal EXCEPT ![j] = Idle]
  /\ UNCHANGED <<row, lastVerdict, recalls>>

Next ==
  \E j \in Journals :
    \/ \E f \in Entries : Record(j, f) \/ ReviewGet(j, f)
    \/ ReviewUpdate(j)
    \/ SearchRecall(j)
    \/ IncrementGet(j)
    \/ IncrementWrite(j)
    \/ Return(j)

---------------------------------------------------------------------------

TypeOK ==
  /\ \A f \in Entries : row[f] # NoRow => row[f].column \in Status /\ row[f].json.recalled \in 0..MaxRecalls
  /\ \A j \in Journals : journal[j].todo \subseteq Entries

\* Only entries whose last review approved them are recalled ("只有 approved 可以进入召回",
\* types.go): a recall that is counting its matches while another process archives
\* one does not bring it back, although it writes an older copy of the entry.
RecallFollowsReview == \A f \in Entries : row[f].column = lastVerdict[f]
=============================================================================
