----------------------------- MODULE RagRelease -----------------------------
(***************************************************************************)
(* memory/rag: ingest.py brings the collection of the manifest up to date  *)
(* with the raw documents, release.py asks it the golden questions and     *)
(* switches the alias, alias.py switches it by hand.  The collection is    *)
(* named by the pipeline contract, so changed documents go into the one    *)
(* the alias may point at.  The commands share nothing but files, and any  *)
(* of them may be killed between two writes.                               *)
(***************************************************************************)
EXTENDS FiniteSets, Integers

CONSTANTS
  Collections,       \* one per signature of parser, chunker and embedding
  Pages, Expired,    \* pages of the raw documents; those past their date
  Texts, Phrase,     \* what a page may say; the texts with the required phrase
  Readers,           \* page -> the roles that may read it
  Questions,         \* [roles, expected, forbidden, none] of golden_questions.yaml
  RetrievalLimit, MaxEdits

VARIABLES
  rawDocs, signature, edits,  \* the documents; the collection of the manifest
  docstore, vectors,          \* collection -> its files: page -> text, or Missing
  gate,                       \* quality_gate of its release-manifest.yaml
  alias,                      \* the collection served, and whether by --force
  ingestion, release,         \* the running ingest.py and release.py
  torn, passedOnce            \* observers

ragVars == <<rawDocs, signature, edits, docstore, vectors, gate, alias, ingestion, release,
             torn, passedOnce>>
ragFiles == <<docstore, vectors, gate, alias>>

NoText == "none"
Empty == [p \in Pages |-> NoText]
Missing == [missing |-> TRUE]
NoIngestion == [at |-> "idle", to |-> "none", docs |-> Empty, docstore |-> Empty, vectors |-> Empty]
NoRelease == [at |-> "idle", of |-> "none", chunks |-> Empty, passed |-> FALSE]

Init ==
  /\ rawDocs = Empty /\ signature = (CHOOSE k \in Collections : TRUE) /\ edits = 0
  /\ docstore = [k \in Collections |-> Missing] /\ vectors = docstore
  /\ gate = [k \in Collections |-> "absent"]
  /\ alias = [to |-> "none", forced |-> FALSE]
  /\ ingestion = NoIngestion /\ release = NoRelease
  /\ torn = {} /\ passedOnce = {}

\* A raw document is added, changed or dropped, or manifest.yaml names other components.
Edit ==
  /\ edits < MaxEdits /\ edits' = edits + 1
  /\ \/ /\ \E p \in Pages, t \in Texts \cup {NoText} : rawDocs' = [rawDocs EXCEPT ![p] = t]
        /\ UNCHANGED signature
     \/ signature' \in Collections /\ UNCHANGED rawDocs
  /\ UNCHANGED <<ragFiles, ingestion, release, torn, passedOnce>>

LoadVectorsAfresh(k) == Empty            \* mutant: the vectors are always computed anew

\* run_ingestion: reads the documents and the two stores; vectors without a docstore
\* are not reused.
LoadVectors(k) == IF docstore[k] = Missing \/ vectors[k] = Missing THEN Empty ELSE vectors[k]

Load ==
  /\ ingestion.at = "idle" /\ rawDocs # Empty
  /\ ingestion' = [at |-> "embed", to |-> signature, docs |-> rawDocs,
       docstore |-> IF docstore[signature] = Missing THEN Empty ELSE docstore[signature],
       vectors |-> LoadVectors(signature)]
  /\ UNCHANGED <<rawDocs, signature, edits, ragFiles, release, torn, passedOnce>>

\* IngestionPipeline with UPSERTS_AND_DELETE, in memory: a page whose hash is the one of
\* the docstore is skipped, a page that is gone is deleted.
Embed ==
  /\ ingestion.at = "embed"
  /\ ingestion' = [ingestion EXCEPT !.at = "docstore", !.docstore = ingestion.docs,
       !.vectors = [p \in Pages |->
          IF ingestion.docs[p] # ingestion.docstore[p] THEN ingestion.docs[p]
          ELSE ingestion.vectors[p]]]
  /\ UNCHANGED <<rawDocs, signature, edits, ragFiles, release, torn, passedOnce>>

\* _validate_vector_store_embeddings refuses a store without vectors.
PersistDocstore ==
  /\ ingestion.at = "docstore" /\ ingestion.vectors # Empty
  /\ docstore' = [docstore EXCEPT ![ingestion.to] = ingestion.docstore]
  /\ ingestion' = [ingestion EXCEPT !.at = "vectors"]
  /\ UNCHANGED <<rawDocs, signature, edits, vectors, gate, alias, release, torn, passedOnce>>

PersistVectors ==
  /\ ingestion.at = "vectors"
  /\ vectors' = [vectors EXCEPT ![ingestion.to] = ingestion.vectors]
  /\ ingestion' = [ingestion EXCEPT !.at = "manifest"]
  /\ UNCHANGED <<rawDocs, signature, edits, docstore, gate, alias, release, torn, passedOnce>>

\* The new release manifest has golden_set_passed null; the alias stays.
WriteManifest ==
  /\ ingestion.at = "manifest"
  /\ gate' = [gate EXCEPT ![ingestion.to] = "null"]
  /\ ingestion' = NoIngestion
  /\ UNCHANGED <<rawDocs, signature, edits, docstore, vectors, alias, release, torn, passedOnce>>

\* The embedder fails, a check raises, or the process is killed.
IngestionEnds ==
  /\ ingestion.at # "idle"
  /\ torn' = IF ingestion.at = "vectors" THEN torn \cup {ingestion.to} ELSE torn
  /\ ingestion' = NoIngestion
  /\ UNCHANGED <<rawDocs, signature, edits, ragFiles, release, passedOnce>>

\* load_collection_chunks: a chunk per vector, its text from the docstore.
LoadChunks ==
  /\ release.at = "idle"
  /\ docstore[signature] # Missing /\ vectors[signature] # Missing
  /\ vectors[signature] # Empty
  /\ release' = [NoRelease EXCEPT !.at = "evaluate", !.of = signature,
       !.chunks = [p \in Pages |-> IF vectors[signature][p] = NoText THEN NoText
                     ELSE IF docstore[signature][p] = NoText THEN "" ELSE docstore[signature][p]]]
  /\ UNCHANGED <<rawDocs, signature, edits, ragFiles, ingestion, torn, passedOnce>>

\* rank_chunks may put them in any order; the filters come before the limit.
Retrieved(chunks, roles) ==
  LET allowed == {p \in Pages : chunks[p] # NoText /\ p \notin Expired
                                /\ Readers[p] \cap roles # {}}
      size == IF Cardinality(allowed) < RetrievalLimit THEN Cardinality(allowed) ELSE RetrievalLimit
  IN {hits \in SUBSET allowed : Cardinality(hits) = size}

\* evaluate_one_question
Passes(question, chunks, hits) ==
  /\ question.expected \subseteq hits
  /\ question.forbidden \cap hits = {}
  /\ IF question.none THEN hits = {} ELSE \E p \in hits : chunks[p] \in Phrase

Evaluate ==
  /\ release.at = "evaluate"
  /\ \E hits \in [Questions -> SUBSET Pages] :
       /\ \A q \in Questions : hits[q] \in Retrieved(release.chunks, q.roles)
       /\ LET passed == \A q \in Questions : Passes(q, release.chunks, hits[q]) IN
            /\ release' = [release EXCEPT !.at = "gate", !.passed = passed]
            /\ passedOnce' = IF passed THEN passedOnce \cup {release.of} ELSE passedOnce
  /\ UNCHANGED <<rawDocs, signature, edits, ragFiles, ingestion, torn>>

\* update_release_manifest_quality_gate: the result goes into the manifest there is now.
WriteGate ==
  /\ release.at = "gate"
  /\ IF gate[release.of] = "absent"
     THEN gate' = gate /\ release' = NoRelease
     ELSE /\ gate' = [gate EXCEPT ![release.of] = IF release.passed THEN "passed" ELSE "failed"]
          /\ release' = IF release.passed THEN [release EXCEPT !.at = "switch"] ELSE NoRelease
  /\ UNCHANGED <<rawDocs, signature, edits, docstore, vectors, alias, ingestion, torn, passedOnce>>

MaySwitchUnlessFailed(k, force) ==       \* mutant: only a failed gate refuses
  gate[k] # "absent" /\ (force \/ gate[k] # "failed")
\* switch_alias_to_collection reads the gate again.
MaySwitch(k, force) == gate[k] # "absent" /\ (force \/ gate[k] = "passed")

SwitchAfterRelease ==
  /\ release.at = "switch"
  /\ alias' = IF MaySwitch(release.of, FALSE) THEN [to |-> release.of, forced |-> FALSE] ELSE alias
  /\ release' = NoRelease
  /\ UNCHANGED <<rawDocs, signature, edits, docstore, vectors, gate, ingestion, torn, passedOnce>>

ReleaseEnds ==
  /\ release.at # "idle"
  /\ release' = NoRelease
  /\ UNCHANGED <<rawDocs, signature, edits, ragFiles, ingestion, torn, passedOnce>>

\* alias.py switch, for the collection of the manifest.
SwitchByHand ==
  /\ \E force \in BOOLEAN :
       /\ MaySwitch(signature, force)
       /\ alias' = [to |-> signature, forced |-> force]
  /\ UNCHANGED <<rawDocs, signature, edits, docstore, vectors, gate, ingestion, release,
                 torn, passedOnce>>

Next ==
  \/ Edit \/ Load \/ Embed \/ PersistDocstore \/ PersistVectors \/ WriteManifest \/ IngestionEnds
  \/ LoadChunks \/ Evaluate \/ WriteGate \/ SwitchAfterRelease \/ ReleaseEnds \/ SwitchByHand

Spec == Init /\ [][Next]_ragVars

-----------------------------------------------------------------------------
TypeOK ==
  /\ rawDocs \in [Pages -> Texts \cup {NoText}] /\ signature \in Collections
  /\ \A k \in Collections :
       /\ docstore[k] \in [Pages -> Texts \cup {NoText}] \cup {Missing}
       /\ vectors[k] \in [Pages -> Texts \cup {NoText}] \cup {Missing}
  /\ gate \in [Collections -> {"absent", "null", "passed", "failed"}]
  /\ alias.to \in Collections \cup {"none"}

\* A collection whose vectors are not those of the pages its docstore has - which no later
\* ingestion repairs, it skips those pages - comes from one that ended between the two
\* writes of _persist_incremental_stores.
VectorsMatchTheDocstore ==
  \A k \in Collections :
    (docstore[k] # vectors[k] /\ ~(ingestion.to = k /\ ingestion.at = "vectors")) => k \in torn

\* Whatever ran in between, a collection served without --force has passed the golden
\* questions at some time.
ServedOnlyOncePassed ==
  alias.to # "none" /\ ~alias.forced => alias.to \in passedOnce
=============================================================================
