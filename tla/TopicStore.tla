----------------------------- MODULE TopicStore -----------------------------
(***************************************************************************)
(* memory/claude_auto_memory, the memories on disk: a file per topic and,  *)
(* in each scope, the index MEMORY.md rebuilt from the files after every   *)
(* write.  Processes that share the directory write it without a lock.     *)
(***************************************************************************)
EXTENDS FiniteSets, Integers, Sequences

CONSTANTS
  Candidates,   \* what an extraction proposes: [scope, kind, topic, secret, text]
  Slug,         \* slugifyTopic, Blank for a topic without a file name
  TopicWriters, MaxUpserts,
  MaxRecalled   \* maxRecalledMemories

VARIABLES
  topics,  \* the topic files: ref -> text, Blank for none
  index,   \* the entries of the two MEMORY.md
  upserts, \* per writer: the Upsert it is in
  begun,   \* Upserts so far
  written, \* refs of the Upserts that returned a record (an observer)
  tidy,    \* scopes whose index was last written by an Upsert alone in its scope (an observer)
  recall   \* the Recall under way or just done

topicVars == <<topics, index, upserts, begun, written, tidy, recall>>

TopicScopes == {"private", "team"}
Blank == ""
Refs == {[scope |-> s, slug |-> Slug[n]] : s \in TopicScopes, n \in {n \in DOMAIN Slug : Slug[n] # Blank}}
NoRef == [scope |-> "none", slug |-> Blank]
NoUpsert == [at |-> "idle", ref |-> NoRef, text |-> Blank, alone |-> TRUE, entries |-> {}]
NoRecall == [at |-> "idle", todo |-> <<>>, read |-> {}, records |-> <<>>]

Init ==
  /\ topics = [r \in Refs |-> Blank] /\ index = {} /\ begun = 0 /\ written = {} /\ tidy = TopicScopes
  /\ upserts = [w \in TopicWriters |-> NoUpsert] /\ recall = NoRecall

\* validateCandidate
Valid(c) ==
  /\ c.scope \in TopicScopes /\ c.text # Blank
  /\ c.kind = "user" => c.scope = "private"
  /\ c.scope = "team" => ~c.secret
Others(w, scope) == {v \in TopicWriters \ {w} : upserts[v].ref.scope = scope}

BeginUpsert(w) ==
  /\ upserts[w].at = "idle" /\ begun < MaxUpserts /\ begun' = begun + 1
  /\ \E c \in Candidates :
       IF Valid(c) /\ Slug[c.topic] # Blank
       THEN upserts' = [v \in TopicWriters |->
              IF v = w THEN [NoUpsert EXCEPT !.at = "topic", !.text = c.text,
                               !.ref = [scope |-> c.scope, slug |-> Slug[c.topic]],
                               !.alone = Others(w, c.scope) = {}]
              ELSE [upserts[v] EXCEPT !.alone = @ /\ upserts[v].ref.scope # c.scope]]
       ELSE UNCHANGED upserts
  /\ UNCHANGED <<topics, index, written, tidy, recall>>

\* atomicWrite of the topic: a temporary file and a rename.
WriteTopic(w) ==
  /\ upserts[w].at = "topic"
  /\ topics' = [topics EXCEPT ![upserts[w].ref] = upserts[w].text]
  /\ upserts' = [upserts EXCEPT ![w].at = "scan"]
  /\ UNCHANGED <<index, begun, written, tidy, recall>>

\* rebuildIndex: the files of the scope, and the index that lists them.
ListingOfOwn(w, scope) == {r \in written : r.scope = scope}    \* mutant: only what earlier Upserts wrote
Listing(w, scope) == {r \in Refs : r.scope = scope /\ topics[r] # Blank}
ScanTopics(w) ==
  /\ upserts[w].at = "scan"
  /\ upserts' = [upserts EXCEPT ![w].at = "index", ![w].entries = Listing(w, upserts[w].ref.scope)]
  /\ UNCHANGED <<topics, index, begun, written, tidy, recall>>
WriteIndex(w) ==
  /\ upserts[w].at = "index"
  /\ LET u == upserts[w] IN
       /\ index' = {r \in index : r.scope # u.ref.scope} \cup u.entries
       /\ written' = written \cup {u.ref}
       /\ tidy' = IF u.alone THEN tidy \cup {u.ref.scope} ELSE tidy \ {u.ref.scope}
  /\ upserts' = [upserts EXCEPT ![w] = NoUpsert]
  /\ UNCHANGED <<topics, begun, recall>>

\* A write fails, or the process dies: what is on disk stays, a temporary file is no topic.
UpsertFails(w) ==
  /\ upserts[w].at # "idle" /\ upserts' = [upserts EXCEPT ![w] = NoUpsert]
  /\ UNCHANGED <<topics, index, begun, written, tidy, recall>>

\* Recall: LoadManifest, then a model that selects from it, or makes a reference up; an error of
\* either is a warning and nothing is recalled.
Select ==
  /\ recall.at = "idle"
  /\ \E n \in 0..2 : \E refs \in [1..n -> Refs] :
       recall' = [NoRecall EXCEPT !.at = "reading", !.todo = refs]
  /\ UNCHANGED <<topics, index, upserts, begun, written, tidy>>
\* Store.Read loads the manifest again; what it does not list is a warning.
ReadTopic ==
  /\ recall.at = "reading" /\ recall.todo # <<>> /\ Len(recall.records) < MaxRecalled
  /\ LET r == Head(recall.todo) IN
       recall' = [recall EXCEPT !.todo = Tail(@), !.read = @ \cup {r},
                    !.records = IF r \in recall.read \/ r \notin index \/ topics[r] = Blank THEN @
                                ELSE Append(@, [ref |-> r, text |-> topics[r]])]
  /\ UNCHANGED <<topics, index, upserts, begun, written, tidy>>
RecallDone ==
  /\ recall.at = "reading" /\ (recall.todo = <<>> \/ Len(recall.records) = MaxRecalled)
  /\ recall' = NoRecall
  /\ UNCHANGED <<topics, index, upserts, begun, written, tidy>>

Next ==
  \/ \E w \in TopicWriters : BeginUpsert(w) \/ WriteTopic(w) \/ ScanTopics(w) \/ WriteIndex(w) \/ UpsertFails(w)
  \/ Select \/ ReadTopic \/ RecallDone
Spec == Init /\ [][Next]_topicVars

-----------------------------------------------------------------------------
TypeOK ==
  /\ index \subseteq Refs /\ written \subseteq Refs /\ begun \in 0..MaxUpserts /\ tidy \subseteq TopicScopes
  /\ \A w \in TopicWriters : upserts[w].at = "idle" <=> upserts[w] = NoUpsert
  /\ recall.todo \in Seq(Refs) /\ Len(recall.records) <= MaxRecalled

\* A memory that was written is in the index ever after, unless two processes wrote the scope at
\* once and no Upsert has rebuilt its index alone since; every entry has its file, nobody's
\* preferences and no secret are in the team's files, and a recall has no memory twice.
WrittenStaysIndexed ==
  /\ \A r \in written : r.scope \in tidy => r \in index
  /\ \A r \in index : topics[r] # Blank
  /\ \A r \in Refs : r.scope = "team" /\ topics[r] # Blank =>
       \E c \in Candidates : Slug[c.topic] = r.slug /\ c.text = topics[r] /\ c.kind # "user" /\ ~c.secret
  /\ \A i, j \in DOMAIN recall.records : recall.records[i].ref = recall.records[j].ref => i = j
=============================================================================
