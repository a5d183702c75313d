---------------------------- MODULE MemoryProofs ----------------------------
(***************************************************************************)
(* As in DesignProofs, the inductive invariants of the systems under       *)
(* memory/ and perception/, and of two of the reasoners:                   *)
(* XStarts, XSteps and XShows for each module X, from the theory of        *)
(* orders, steps and sums that DesignProofs begins with.                   *)
(***************************************************************************)
EXTENDS DesignProofs

CONSTANTS Contents, MaxAdds, WorkingBudget, TopK, MemoryCalls, Journals, Entries,
  MaxRecalls, Descriptions, Deviant, MaxItems, MaxToolCalls, MaxQueries, RecentLimit,
  Collections, Pages, Expired, Texts, Phrase, Readers, Questions, RetrievalLimit, MaxEdits,
  Facts, Scopes, Callers, MemoryKeys, Route, LayerWriters, MaxWrites, Skills, SkillBudget,
  SnipTokens, KeepRecent, SummaryTokens, MaxResultTokens, MaxHistory, MaxBoundaries,
  SupportQueries, MaxTurns, TriggerTokens, TargetTokens, PreserveRecent, MaxRecentErrors,
  ContextBudget, SupportingMax, MaxCandidates, Explanations, MaxHypotheses, MaxEvidence,
  MaxRounds, MaxOutput, MaxRequests, Candidates, Slug, TopicWriters, MaxUpserts,
  MaxRecalled, Messages, Derived, TooLong, MaxLines, StoredTexts, SearchRequests, MaxStored,
  DefaultTopK, DraftEntries, RecallRequests, MaxEntries, DefaultRecallK, ScoreThreshold,
  EntryValues, BudgetOverrides, DefaultBudgets, EntryKeys, Perishable, MaxAssemblies,
  MaxFiles, MaxRows, MaxTableSize, ImageTokens

\* The manifest names a collection.
ASSUME RagAssumption == Collections # {}
\* Every topic has a file name or none.
ASSUME TopicAssumption ==
  /\ MaxUpserts \in Nat /\ MaxRecalled \in Nat
  /\ \A c \in Candidates : c.topic \in DOMAIN Slug
\* How long a plan may get, and how often a query may use its tools, are numbers.
ASSUME PlanAssumption == MaxItems \in Nat /\ MaxToolCalls \in Nat
\* Memories have half points; at least one result is asked for when no number is.
ASSUME SearchAssumption ==
  /\ DefaultTopK \in Nat \ {0} /\ MaxStored \in Nat
  /\ \A m \in StoredTexts : m.semantic \in Int /\ m.keyword \in Int
  /\ \A req \in SearchRequests : req.topK \in Int
\* A recall asks for finitely many keys and categories, and for at least one entry when it gives
\* no number; similarities are numbers.
ASSUME RecallAssumption ==
  /\ DefaultRecallK \in Nat \ {0} /\ MaxEntries \in Nat
  /\ \A req \in RecallRequests : IsFiniteSet(req.keys) /\ IsFiniteSet(req.categories) /\ req.topK \in Int
  /\ \A e \in DraftEntries : {"status", "semantic"} \subseteq DOMAIN e /\ e.semantic \in Int
\* perception/triage: NewContextTriage replaces what is not positive.
ASSUME TriageAssumption == ContextBudget \in Nat /\ SupportingMax \in Nat /\ MaxCandidates \in Nat
\* memory/hierarchical_v1: DefaultPolicies has every layer of the order, normalizeEntry accepts no
\* other, and the schema of the tool takes token estimates that are not negative.
ASSUME LayerAssumption ==
  /\ IsFiniteSet(EntryKeys) /\ MaxAssemblies \in Nat
  /\ DefaultBudgets \in [{"policy", "project", "user", "task", "scratchpad"} -> Nat]
  /\ BudgetOverrides \in [{"policy", "project", "user", "task", "scratchpad"} -> Int]
  /\ \A e \in EntryValues : /\ e.layer \in {"policy", "project", "user", "task", "scratchpad"}
                            /\ e.tokens \in Nat /\ e.confidence \in Int
\* perception/claude_compaction: how many messages a snip keeps and how many skills fit are numbers;
\* the skills are finitely many.
ASSUME CompactionAssumption == KeepRecent \in Nat /\ SkillBudget \in Nat /\ IsFiniteSet(Skills)
\* memory/failure_tracking: finitely many journals share a store.
ASSUME FailuresAssumption == IsFiniteSet(Journals) /\ MaxRecalls \in Nat
\* memory/hierarchical_v1: every key is written to one of the layers.
ASSUME WritesAssumption ==
  /\ MaxWrites \in Nat
  /\ Route \in [MemoryKeys -> {"policy", "project", "user", "task", "scratchpad"}]
\* The other sizes and bounds are numbers.
ASSUME EvidenceAssumption == MaxEvidence \in Nat
ASSUME TiersAssumption == WorkingBudget \in Nat /\ MaxAdds \in Nat
ASSUME Mem0Assumption == MaxAdds \in Nat
ASSUME FusionAssumption == MaxFiles \in Nat
ASSUME TrajectoryAssumption == MaxOutput \in Nat /\ MaxRequests \in Nat

---------------------------------------------------------------------------
(* memory/rag.                                                             *)

VARIABLES rawDocs, signature, edits, docstore, vectors, gate, alias, ingestion, release,
  torn, passedOnce
rag == <<rawDocs, signature, edits, docstore, vectors, gate, alias, ingestion, release,
  torn, passedOnce>>
RR == INSTANCE RagRelease

RagFile == [Pages -> Texts \cup {RR!NoText}]

IngestionFields == {"at", "to", "docs", "docstore", "vectors"}
ReleaseFields == {"at", "of", "chunks", "passed"}
RagTypes ==
  /\ DOMAIN ingestion = IngestionFields /\ DOMAIN release = ReleaseFields
  /\ rawDocs \in RagFile /\ signature \in Collections
  /\ DOMAIN docstore = Collections /\ DOMAIN vectors = Collections /\ DOMAIN gate = Collections
  /\ ingestion.at # "idle" =>
       ingestion.to \in Collections /\ ingestion.docs \in RagFile
  /\ release.at # "idle" => release.of \in Collections

\* What an ingestion loads, merges and writes: as long as its collection was never left
\* between the two writes, the documents and the vectors it holds are the same.
StoresMatch ==
  /\ ingestion.at \in {"embed", "docstore", "vectors"} /\ ingestion.to \notin torn =>
       ingestion.docstore = ingestion.vectors
  /\ ingestion.at = "vectors" => docstore[ingestion.to] = ingestion.docstore
  /\ RR!VectorsMatchTheDocstore

\* Nothing says that a collection has passed which did not.
GateTellsTheTruth ==
  /\ \A k \in Collections : gate[k] = "passed" => k \in passedOnce
  /\ release.at = "gate" /\ release.passed => release.of \in passedOnce
  /\ RR!ServedOnlyOncePassed

RagInv == RagTypes /\ StoresMatch /\ GateTellsTheTruth

LEMMA RagStarts == RR!Init => RagInv
<1> SUFFICES ASSUME RR!Init PROVE RagInv
  OBVIOUS
<1>1. /\ rawDocs = RR!Empty /\ signature \in Collections
      /\ docstore = [k \in Collections |-> RR!Missing] /\ vectors = docstore
      /\ gate = [k \in Collections |-> "absent"] /\ alias.to = "none"
  BY RagAssumption DEF RR!Init
<1>2. ingestion.at = "idle" /\ release.at = "idle"
  BY DEF RR!Init, RR!NoIngestion, RR!NoRelease
<1>3. RR!Empty \in RagFile
  BY DEF RR!Empty, RagFile
<1>4. DOMAIN ingestion = IngestionFields /\ DOMAIN release = ReleaseFields
  BY DEF RR!Init, RR!NoIngestion, RR!NoRelease, IngestionFields, ReleaseFields
<1>5. RagTypes
  BY <1>1, <1>2, <1>3, <1>4 DEF RagTypes
<1>6. StoresMatch
  BY <1>1, <1>2 DEF StoresMatch, RR!VectorsMatchTheDocstore
<1>7. GateTellsTheTruth
  BY <1>1, <1>2 DEF GateTellsTheTruth, RR!ServedOnlyOncePassed
<1> QED  BY <1>5, <1>6, <1>7 DEF RagInv

\* The steps of ingest.py, on which no gate depends but the one it takes back.
LEMMA IngestionKeepsRag ==
  ASSUME RagInv, RR!Edit \/ RR!Load \/ RR!Embed \/ RR!PersistDocstore \/ RR!PersistVectors
                   \/ RR!WriteManifest \/ RR!IngestionEnds
  PROVE  RagInv'
<1>1. RagTypes /\ StoresMatch /\ GateTellsTheTruth
  BY DEF RagInv
<1>2. CASE RR!Edit
  <2>1. signature' \in Collections
    BY <1>1, <1>2 DEF RR!Edit, RagTypes
  <2>2. rawDocs' \in RagFile
    <3>1. CASE rawDocs' = rawDocs
      BY <1>1, <3>1 DEF RagTypes
    <3>2. CASE rawDocs' # rawDocs
      <4>1. PICK p \in Pages, t \in Texts \cup {RR!NoText} : rawDocs' = [rawDocs EXCEPT ![p] = t]
        BY <1>2, <3>2 DEF RR!Edit
      <4> QED  BY <1>1, <4>1 DEF RagTypes, RagFile
    <3> QED  BY <3>1, <3>2
  <2>3. /\ docstore' = docstore /\ vectors' = vectors /\ gate' = gate /\ alias' = alias
        /\ ingestion' = ingestion /\ release' = release /\ torn' = torn /\ passedOnce' = passedOnce
    BY <1>2 DEF RR!Edit, RR!ragFiles
  <2>4. RagTypes'
    BY <1>1, <2>1, <2>2, <2>3 DEF RagTypes
  <2>5. StoresMatch' /\ GateTellsTheTruth'
    BY <1>1, <2>3 DEF StoresMatch, GateTellsTheTruth, RR!VectorsMatchTheDocstore,
                         RR!ServedOnlyOncePassed
  <2> QED  BY <2>4, <2>5 DEF RagInv
<1>3. CASE RR!Load
  <2>1. /\ rawDocs' = rawDocs /\ signature' = signature /\ release' = release
        /\ docstore' = docstore /\ vectors' = vectors /\ gate' = gate /\ alias' = alias
        /\ torn' = torn /\ passedOnce' = passedOnce /\ ingestion.at = "idle"
    BY <1>3 DEF RR!Load, RR!ragFiles
  <2>2. /\ DOMAIN ingestion' = IngestionFields
        /\ ingestion'.at = "embed" /\ ingestion'.to = signature /\ ingestion'.docs = rawDocs
        /\ ingestion'.docstore =
             IF docstore[signature] = RR!Missing THEN RR!Empty ELSE docstore[signature]
        /\ ingestion'.vectors = RR!LoadVectors(signature)
    BY <1>3 DEF RR!Load, IngestionFields
  <2>3. signature \notin torn => docstore[signature] = vectors[signature]
    BY <1>1, <2>1 DEF RagTypes, StoresMatch, RR!VectorsMatchTheDocstore
  <2>4. signature \notin torn => ingestion'.docstore = ingestion'.vectors
    BY <2>2, <2>3 DEF RR!LoadVectors
  <2>5. RR!VectorsMatchTheDocstore'
    BY <1>1, <2>1, <2>2 DEF StoresMatch, RR!VectorsMatchTheDocstore
  <2>6. RagTypes'
    BY <1>1, <2>1, <2>2 DEF RagTypes
  <2>7. StoresMatch'
    BY <2>1, <2>2, <2>4, <2>5 DEF StoresMatch
  <2>8. GateTellsTheTruth'
    BY <1>1, <2>1 DEF GateTellsTheTruth, RR!ServedOnlyOncePassed
  <2> QED  BY <2>6, <2>7, <2>8 DEF RagInv
<1>4. CASE RR!Embed
  <2>1. /\ rawDocs' = rawDocs /\ signature' = signature /\ release' = release
        /\ docstore' = docstore /\ vectors' = vectors /\ gate' = gate /\ alias' = alias
        /\ torn' = torn /\ passedOnce' = passedOnce /\ ingestion.at = "embed"
    BY <1>4 DEF RR!Embed, RR!ragFiles
  <2>2. /\ DOMAIN ingestion' = IngestionFields /\ ingestion'.at = "docstore"
        /\ ingestion'.to = ingestion.to /\ ingestion'.docs = ingestion.docs
        /\ ingestion'.docstore = ingestion.docs
        /\ ingestion'.vectors = [p \in Pages |->
              IF ingestion.docs[p] # ingestion.docstore[p] THEN ingestion.docs[p]
              ELSE ingestion.vectors[p]]
    BY <1>1, <1>4 DEF RR!Embed, RagTypes, IngestionFields
  <2>3. ingestion.docs \in RagFile
    BY <1>1, <2>1 DEF RagTypes
  <2>4. ASSUME ingestion.to \notin torn PROVE ingestion'.docstore = ingestion'.vectors
    <3>1. ingestion.docstore = ingestion.vectors
      BY <1>1, <2>1, <2>4 DEF StoresMatch
    <3>2. ingestion'.vectors = [p \in Pages |-> ingestion.docs[p]]
      BY <2>2, <3>1
    <3> QED  BY <2>2, <2>3, <3>2 DEF RagFile
  <2>5. RR!VectorsMatchTheDocstore'
    BY <1>1, <2>1, <2>2 DEF StoresMatch, RR!VectorsMatchTheDocstore
  <2>6. RagTypes'
    BY <1>1, <2>1, <2>2 DEF RagTypes
  <2>7. StoresMatch'
    BY <2>1, <2>2, <2>4, <2>5 DEF StoresMatch
  <2>8. GateTellsTheTruth'
    BY <1>1, <2>1 DEF GateTellsTheTruth, RR!ServedOnlyOncePassed
  <2> QED  BY <2>6, <2>7, <2>8 DEF RagInv
<1>5. CASE RR!PersistDocstore
  <2>1. /\ rawDocs' = rawDocs /\ signature' = signature /\ release' = release
        /\ vectors' = vectors /\ gate' = gate /\ alias' = alias
        /\ torn' = torn /\ passedOnce' = passedOnce /\ ingestion.at = "docstore"
        /\ docstore' = [docstore EXCEPT ![ingestion.to] = ingestion.docstore]
    BY <1>5 DEF RR!PersistDocstore
  <2>2. /\ DOMAIN ingestion' = IngestionFields /\ ingestion'.at = "vectors"
        /\ ingestion'.to = ingestion.to /\ ingestion'.docs = ingestion.docs
        /\ ingestion'.docstore = ingestion.docstore /\ ingestion'.vectors = ingestion.vectors
    BY <1>1, <1>5 DEF RR!PersistDocstore, RagTypes, IngestionFields
  <2>3. ingestion.to \in Collections /\ DOMAIN docstore = Collections
    BY <1>1, <2>1 DEF RagTypes
  <2>4. /\ docstore'[ingestion.to] = ingestion.docstore /\ DOMAIN docstore' = Collections
        /\ \A k \in Collections : k # ingestion.to => docstore'[k] = docstore[k]
    BY <2>1, <2>3
  <2>5. RR!VectorsMatchTheDocstore'
    BY <1>1, <2>1, <2>2, <2>4 DEF StoresMatch, RR!VectorsMatchTheDocstore
  <2>6. RagTypes'
    BY <1>1, <2>1, <2>2, <2>4 DEF RagTypes
  <2>7. StoresMatch'
    BY <1>1, <2>1, <2>2, <2>4, <2>5 DEF StoresMatch
  <2>8. GateTellsTheTruth'
    BY <1>1, <2>1 DEF GateTellsTheTruth, RR!ServedOnlyOncePassed
  <2> QED  BY <2>6, <2>7, <2>8 DEF RagInv
<1>6. CASE RR!PersistVectors
  <2>1. /\ rawDocs' = rawDocs /\ signature' = signature /\ release' = release
        /\ docstore' = docstore /\ gate' = gate /\ alias' = alias
        /\ torn' = torn /\ passedOnce' = passedOnce /\ ingestion.at = "vectors"
        /\ vectors' = [vectors EXCEPT ![ingestion.to] = ingestion.vectors]
    BY <1>6 DEF RR!PersistVectors
  <2>2. /\ DOMAIN ingestion' = IngestionFields /\ ingestion'.at = "manifest"
        /\ ingestion'.to = ingestion.to /\ ingestion'.docs = ingestion.docs
    BY <1>1, <1>6 DEF RR!PersistVectors, RagTypes, IngestionFields
  <2>3. ingestion.to \in Collections /\ DOMAIN vectors = Collections
    BY <1>1, <2>1 DEF RagTypes
  <2>4. /\ vectors'[ingestion.to] = ingestion.vectors /\ DOMAIN vectors' = Collections
        /\ \A k \in Collections : k # ingestion.to => vectors'[k] = vectors[k]
    BY <2>1, <2>3
  <2>5. ingestion.to \notin torn => docstore[ingestion.to] = vectors'[ingestion.to]
    BY <1>1, <2>1, <2>4 DEF StoresMatch
  <2>6. RR!VectorsMatchTheDocstore'
    BY <1>1, <2>1, <2>4, <2>5 DEF StoresMatch, RR!VectorsMatchTheDocstore
  <2>7. RagTypes'
    BY <1>1, <2>1, <2>2, <2>3, <2>4 DEF RagTypes
  <2>8. StoresMatch'
    BY <2>2, <2>6 DEF StoresMatch
  <2>9. GateTellsTheTruth'
    BY <1>1, <2>1 DEF GateTellsTheTruth, RR!ServedOnlyOncePassed
  <2> QED  BY <2>7, <2>8, <2>9 DEF RagInv
<1>7. CASE RR!WriteManifest
  <2>1. /\ rawDocs' = rawDocs /\ signature' = signature /\ release' = release
        /\ docstore' = docstore /\ vectors' = vectors /\ alias' = alias
        /\ torn' = torn /\ passedOnce' = passedOnce /\ ingestion.at = "manifest"
        /\ gate' = [gate EXCEPT ![ingestion.to] = "null"]
    BY <1>7 DEF RR!WriteManifest
  <2>2. DOMAIN ingestion' = IngestionFields /\ ingestion'.at = "idle"
    BY <1>7 DEF RR!WriteManifest, RR!NoIngestion, IngestionFields
  <2>3. /\ DOMAIN gate' = Collections
        /\ \A k \in Collections : gate'[k] = "passed" => gate[k] = "passed"
    BY <1>1, <2>1 DEF RagTypes
  <2>4. RagTypes'
    BY <1>1, <2>1, <2>2, <2>3 DEF RagTypes
  <2>5. StoresMatch'
    BY <1>1, <2>1, <2>2 DEF StoresMatch, RR!VectorsMatchTheDocstore
  <2>6. GateTellsTheTruth'
    BY <1>1, <2>1, <2>3 DEF GateTellsTheTruth, RR!ServedOnlyOncePassed
  <2> QED  BY <2>4, <2>5, <2>6 DEF RagInv
<1>8. CASE RR!IngestionEnds
  <2>1. /\ rawDocs' = rawDocs /\ signature' = signature /\ release' = release
        /\ docstore' = docstore /\ vectors' = vectors /\ gate' = gate /\ alias' = alias
        /\ passedOnce' = passedOnce
        /\ torn' = IF ingestion.at = "vectors" THEN torn \cup {ingestion.to} ELSE torn
    BY <1>8 DEF RR!IngestionEnds, RR!ragFiles
  <2>2. DOMAIN ingestion' = IngestionFields /\ ingestion'.at = "idle"
    BY <1>8 DEF RR!IngestionEnds, RR!NoIngestion, IngestionFields
  <2>3. RagTypes'
    BY <1>1, <2>1, <2>2 DEF RagTypes
  <2>4. StoresMatch'
    BY <1>1, <2>1, <2>2 DEF StoresMatch, RR!VectorsMatchTheDocstore
  <2>5. GateTellsTheTruth'
    BY <1>1, <2>1 DEF GateTellsTheTruth, RR!ServedOnlyOncePassed
  <2> QED  BY <2>3, <2>4, <2>5 DEF RagInv
<1> QED  BY <1>2, <1>3, <1>4, <1>5, <1>6, <1>7, <1>8

\* The steps of release.py and of alias.py: the gate is read again before the switch, and a
\* gate only says passed when the questions were.
LEMMA ReleaseKeepsRag ==
  ASSUME RagInv, RR!LoadChunks \/ RR!Evaluate \/ RR!WriteGate \/ RR!SwitchAfterRelease
                   \/ RR!ReleaseEnds \/ RR!SwitchByHand
  PROVE  RagInv'
<1>1. RagTypes /\ StoresMatch /\ GateTellsTheTruth
  BY DEF RagInv
<1>2. /\ rawDocs' = rawDocs /\ signature' = signature /\ ingestion' = ingestion
      /\ docstore' = docstore /\ vectors' = vectors /\ torn' = torn
  BY Zenon DEF RR!LoadChunks, RR!Evaluate, RR!WriteGate, RR!SwitchAfterRelease, RR!ReleaseEnds,
         RR!SwitchByHand, RR!ragFiles
<1>3. StoresMatch'
  BY <1>1, <1>2 DEF StoresMatch, RR!VectorsMatchTheDocstore
<1>4. CASE RR!LoadChunks
  <2>1. gate' = gate /\ alias' = alias /\ passedOnce' = passedOnce
    BY <1>4 DEF RR!LoadChunks, RR!ragFiles
  <2>2. DOMAIN release' = ReleaseFields /\ release'.at = "evaluate" /\ release'.of = signature
    BY <1>4 DEF RR!LoadChunks, RR!NoRelease, ReleaseFields
  <2> QED  BY <1>1, <1>2, <1>3, <2>1, <2>2
           DEF RagInv, RagTypes, GateTellsTheTruth, RR!ServedOnlyOncePassed
<1>5. CASE RR!Evaluate
  <2>1. gate' = gate /\ alias' = alias /\ release.at = "evaluate"
    BY Zenon, <1>5 DEF RR!Evaluate, RR!ragFiles
  <2>2. PICK passed \in BOOLEAN :
          /\ release' = [release EXCEPT !.at = "gate", !.passed = passed]
          /\ passedOnce' = IF passed THEN passedOnce \cup {release.of} ELSE passedOnce
    BY Zenon, <1>5 DEF RR!Evaluate
  <2>3. /\ DOMAIN release' = ReleaseFields /\ release'.at = "gate" /\ release'.of = release.of
        /\ release'.passed = passed
    BY <1>1, <2>2 DEF RagTypes, ReleaseFields
  <2>4. RagTypes'
    BY <1>1, <1>2, <2>1, <2>3 DEF RagTypes
  <2>5. GateTellsTheTruth'
    BY <1>1, <2>1, <2>2, <2>3 DEF GateTellsTheTruth, RR!ServedOnlyOncePassed
  <2> QED  BY <1>3, <2>4, <2>5 DEF RagInv
<1>6. CASE RR!WriteGate
  <2>1. alias' = alias /\ passedOnce' = passedOnce /\ release.at = "gate"
    BY <1>6 DEF RR!WriteGate
  <2>2. \/ gate' = gate
        \/ gate' = [gate EXCEPT ![release.of] = IF release.passed THEN "passed" ELSE "failed"]
    BY <1>6 DEF RR!WriteGate
  <2>3. /\ DOMAIN release' = ReleaseFields /\ release'.at \in {"idle", "switch"}
        /\ release'.at = "switch" => release'.of = release.of
    BY <1>1, <1>6 DEF RR!WriteGate, RR!NoRelease, RagTypes, ReleaseFields
  <2>4. DOMAIN gate' = Collections /\ release.of \in Collections
    BY <1>1, <2>1, <2>2 DEF RagTypes
  <2>5. ASSUME NEW k \in Collections, gate'[k] = "passed" PROVE k \in passedOnce
    <3>1. gate[k] = "passed" \/ (k = release.of /\ release.passed)
      BY <1>1, <2>2, <2>5 DEF RagTypes
    <3> QED  BY <1>1, <2>1, <3>1 DEF GateTellsTheTruth
  <2>6. RagTypes'
    BY <1>1, <1>2, <2>3, <2>4 DEF RagTypes
  <2>7. GateTellsTheTruth'
    BY <1>1, <2>1, <2>3, <2>5 DEF GateTellsTheTruth, RR!ServedOnlyOncePassed
  <2> QED  BY <1>3, <2>6, <2>7 DEF RagInv
<1>7. CASE RR!SwitchAfterRelease
  <2>1. gate' = gate /\ passedOnce' = passedOnce /\ release.at = "switch"
        /\ release' = RR!NoRelease
    BY <1>7 DEF RR!SwitchAfterRelease
  <2>2. DOMAIN release' = ReleaseFields /\ release'.at = "idle"
    BY <2>1 DEF RR!NoRelease, ReleaseFields
  <2>3. alias' = alias \/ (gate[release.of] = "passed" /\ alias'.to = release.of)
    BY <1>7 DEF RR!SwitchAfterRelease, RR!MaySwitch
  <2>4. release.of \in Collections
    BY <1>1, <2>1 DEF RagTypes
  <2>5. RagTypes'
    BY <1>1, <1>2, <2>1, <2>2 DEF RagTypes
  <2>6. GateTellsTheTruth'
    BY <1>1, <2>1, <2>2, <2>3, <2>4 DEF GateTellsTheTruth, RR!ServedOnlyOncePassed
  <2> QED  BY <1>3, <2>5, <2>6 DEF RagInv
<1>8. CASE RR!ReleaseEnds
  <2>1. gate' = gate /\ alias' = alias /\ passedOnce' = passedOnce /\ release' = RR!NoRelease
    BY <1>8 DEF RR!ReleaseEnds, RR!ragFiles
  <2>2. DOMAIN release' = ReleaseFields /\ release'.at = "idle"
    BY <2>1 DEF RR!NoRelease, ReleaseFields
  <2> QED  BY <1>1, <1>2, <1>3, <2>1, <2>2
           DEF RagInv, RagTypes, GateTellsTheTruth, RR!ServedOnlyOncePassed
<1>9. CASE RR!SwitchByHand
  <2>1. gate' = gate /\ passedOnce' = passedOnce /\ release' = release
    BY <1>9 DEF RR!SwitchByHand
  <2>2. PICK force \in BOOLEAN :
          RR!MaySwitch(signature, force) /\ alias' = [to |-> signature, forced |-> force]
    BY <1>9 DEF RR!SwitchByHand
  <2>3. alias'.forced \/ gate[signature] = "passed"
    BY <2>2 DEF RR!MaySwitch
  <2>4. alias'.to = signature /\ signature \in Collections
    BY <1>1, <2>2 DEF RagTypes
  <2>5. RagTypes'
    BY <1>1, <1>2, <2>1 DEF RagTypes
  <2>6. GateTellsTheTruth'
    BY <1>1, <2>1, <2>3, <2>4 DEF GateTellsTheTruth, RR!ServedOnlyOncePassed
  <2> QED  BY <1>3, <2>5, <2>6 DEF RagInv
<1> QED  BY <1>4, <1>5, <1>6, <1>7, <1>8, <1>9

LEMMA RagSteps == ASSUME RagInv, [RR!Next]_rag PROVE RagInv'
<1>1. CASE UNCHANGED rag
  BY <1>1 DEF rag, RagInv, RagTypes, StoresMatch, GateTellsTheTruth,
              RR!VectorsMatchTheDocstore, RR!ServedOnlyOncePassed
<1> QED  BY <1>1, IngestionKeepsRag, ReleaseKeepsRag DEF RR!Next

LEMMA RagShows == RagInv => RR!VectorsMatchTheDocstore /\ RR!ServedOnlyOncePassed
BY DEF RagInv, StoresMatch, GateTellsTheTruth

RagFileOrNone == RagFile \cup {RR!Missing}
RagFileTypes ==
  /\ docstore \in [Collections -> RagFileOrNone] /\ vectors \in [Collections -> RagFileOrNone]
  /\ gate \in [Collections -> {"absent", "null", "passed", "failed"}]
  /\ alias.to \in Collections \cup {"none"}
  /\ ingestion.at # "idle" => ingestion.docstore \in RagFile /\ ingestion.vectors \in RagFile

LEMMA RagFileTypesStart == RR!Init => RagFileTypes
<1> SUFFICES ASSUME RR!Init PROVE RagFileTypes
  OBVIOUS
<1>1. /\ docstore = [k \in Collections |-> RR!Missing] /\ vectors = docstore
      /\ gate = [k \in Collections |-> "absent"] /\ alias.to = "none" /\ ingestion.at = "idle"
  BY DEF RR!Init, RR!NoIngestion
<1>2. RR!Missing \in RagFileOrNone
  BY DEF RagFileOrNone
<1> QED  BY <1>1, <1>2 DEF RagFileTypes

LEMMA RagFileTypesStep ==
  ASSUME RagInv, RagFileTypes, [RR!Next]_rag PROVE RagFileTypes'
<1>1. RagTypes /\ RR!Empty \in RagFile
  BY DEF RagInv, RR!Empty, RagFile
<1>2. CASE UNCHANGED rag
  BY <1>2 DEF rag, RagFileTypes
<1>3. CASE RR!Edit \/ RR!ReleaseEnds \/ RR!LoadChunks \/ RR!Evaluate
  BY Zenon, <1>3 DEF RR!Edit, RR!ReleaseEnds, RR!LoadChunks, RR!Evaluate, RR!ragFiles, RagFileTypes
<1>4. CASE RR!IngestionEnds
  BY <1>4 DEF RR!IngestionEnds, RR!NoIngestion, RR!ragFiles, RagFileTypes
<1>5. CASE RR!Load
  <2>1. UNCHANGED <<docstore, vectors, gate, alias>>
    BY <1>5 DEF RR!Load, RR!ragFiles
  <2>2. /\ ingestion'.docstore =
             IF docstore[signature] = RR!Missing THEN RR!Empty ELSE docstore[signature]
        /\ ingestion'.vectors = RR!LoadVectors(signature)
    BY <1>5 DEF RR!Load
  <2>3. signature \in Collections
    BY <1>1 DEF RagTypes
  <2>4. docstore[signature] \in RagFileOrNone /\ vectors[signature] \in RagFileOrNone
    BY <2>3 DEF RagFileTypes
  <2>5. ingestion'.docstore \in RagFile /\ ingestion'.vectors \in RagFile
    BY <1>1, <2>2, <2>4 DEF RR!LoadVectors, RagFileOrNone
  <2> QED  BY <2>1, <2>5 DEF RagFileTypes
<1>6. CASE RR!Embed
  <2>1. UNCHANGED <<docstore, vectors, gate, alias>> /\ ingestion.at = "embed"
    BY <1>6 DEF RR!Embed, RR!ragFiles
  <2>2. /\ ingestion'.docstore = ingestion.docs
        /\ ingestion'.vectors = [p \in Pages |->
              IF ingestion.docs[p] # ingestion.docstore[p] THEN ingestion.docs[p]
              ELSE ingestion.vectors[p]]
    BY <1>1, <1>6 DEF RR!Embed, RagTypes, IngestionFields
  <2>3. ingestion.docs \in RagFile /\ ingestion.vectors \in RagFile
    BY <1>1, <2>1 DEF RagTypes, RagFileTypes
  <2>4. ingestion'.docstore \in RagFile /\ ingestion'.vectors \in RagFile
    BY <2>2, <2>3 DEF RagFile
  <2> QED  BY <2>1, <2>4 DEF RagFileTypes
<1>7. CASE RR!PersistDocstore
  <2>1. /\ UNCHANGED <<vectors, gate, alias>> /\ ingestion.at = "docstore"
        /\ docstore' = [docstore EXCEPT ![ingestion.to] = ingestion.docstore]
    BY <1>7 DEF RR!PersistDocstore
  <2>2. ingestion'.docstore = ingestion.docstore /\ ingestion'.vectors = ingestion.vectors
    BY <1>1, <1>7 DEF RR!PersistDocstore, RagTypes, IngestionFields
  <2>3. ingestion.docstore \in RagFileOrNone
    BY <2>1 DEF RagFileTypes, RagFileOrNone
  <2>4. docstore' \in [Collections -> RagFileOrNone]
    BY <2>1, <2>3 DEF RagFileTypes
  <2> QED  BY <2>1, <2>2, <2>4 DEF RagFileTypes
<1>8. CASE RR!PersistVectors
  <2>1. /\ UNCHANGED <<docstore, gate, alias>> /\ ingestion.at = "vectors"
        /\ vectors' = [vectors EXCEPT ![ingestion.to] = ingestion.vectors]
    BY <1>8 DEF RR!PersistVectors
  <2>2. ingestion'.docstore = ingestion.docstore /\ ingestion'.vectors = ingestion.vectors
    BY <1>1, <1>8 DEF RR!PersistVectors, RagTypes, IngestionFields
  <2>3. ingestion.vectors \in RagFileOrNone
    BY <2>1 DEF RagFileTypes, RagFileOrNone
  <2>4. vectors' \in [Collections -> RagFileOrNone]
    BY <2>1, <2>3 DEF RagFileTypes
  <2> QED  BY <2>1, <2>2, <2>4 DEF RagFileTypes
<1>9. CASE RR!WriteManifest
  BY <1>9 DEF RR!WriteManifest, RR!NoIngestion, RagFileTypes
<1>10. CASE RR!WriteGate
  <2>1. UNCHANGED <<docstore, vectors, alias, ingestion>>
    BY <1>10 DEF RR!WriteGate
  <2>2. \/ gate' = gate
        \/ gate' = [gate EXCEPT ![release.of] = IF release.passed THEN "passed" ELSE "failed"]
    BY <1>10 DEF RR!WriteGate
  <2> QED  BY <2>1, <2>2 DEF RagFileTypes
<1>11. CASE RR!SwitchAfterRelease
  <2>1. UNCHANGED <<docstore, vectors, gate, ingestion>> /\ release.at = "switch"
        /\ (alias' = alias \/ alias'.to = release.of)
    BY <1>11 DEF RR!SwitchAfterRelease
  <2>2. release.of \in Collections
    BY <1>1, <2>1 DEF RagTypes
  <2> QED  BY <2>1, <2>2 DEF RagFileTypes
<1>12. CASE RR!SwitchByHand
  <2>1. UNCHANGED <<docstore, vectors, gate, ingestion>> /\ alias'.to = signature
    BY <1>12 DEF RR!SwitchByHand
  <2>2. signature \in Collections
    BY <1>1 DEF RagTypes
  <2> QED  BY <2>1, <2>2 DEF RagFileTypes
<1> QED  BY <1>2, <1>3, <1>4, <1>5, <1>6, <1>7, <1>8, <1>9, <1>10, <1>11, <1>12 DEF RR!Next

LEMMA RagTypesShow == RagInv /\ RagFileTypes => RR!TypeOK
BY DEF RagInv, RagTypes, RagFileTypes, RagFileOrNone, RagFile, RR!TypeOK

---------------------------------------------------------------------------
(* memory/claude_auto_memory: the topic files.                             *)

VARIABLES topics, index, upserts, begun, written, tidy, recall
topicVars == <<topics, index, upserts, begun, written, tidy, recall>>
TS == INSTANCE TopicStore

TopicTexts == {c.text : c \in Candidates}
UpsertFields == {"at", "ref", "text", "alone", "entries"}
\* What is in a team's file was proposed for the team, and is no secret.
Vouched(r, text) == r.scope = "team" =>
  \E c \in Candidates : Slug[c.topic] = r.slug /\ c.text = text /\ c.kind # "user" /\ ~c.secret

TopicFilesInv ==
  /\ topics \in [TS!Refs -> TopicTexts \cup {TS!Blank}]
  /\ index \subseteq TS!Refs /\ written \subseteq TS!Refs
  /\ \A r \in index \cup written : topics[r] # TS!Blank
  /\ \A r \in written : r.scope \in tidy => r \in index
  /\ \A r \in TS!Refs : topics[r] # TS!Blank => Vouched(r, topics[r])
\* An Upsert that is alone in its scope lists all that was ever written there, its own included.
UpsertInv(w) ==
  LET u == upserts[w] IN
    /\ DOMAIN u = UpsertFields /\ u.at \in {"idle", "topic", "scan", "index"}
    /\ u.at = "idle" => u.ref = TS!NoRef
    /\ u.at # "idle" => /\ u.ref \in TS!Refs /\ u.text \in TopicTexts /\ u.text # TS!Blank
                        /\ Vouched(u.ref, u.text)
    /\ u.at \in {"scan", "index"} => topics[u.ref] # TS!Blank
    /\ u.at = "index" => \A r \in u.entries : r \in TS!Refs /\ topics[r] # TS!Blank
    /\ u.at # "idle" /\ u.alone =>
         \A v \in TopicWriters : v # w => upserts[v].ref.scope # u.ref.scope
    /\ u.at = "index" /\ u.alone =>
         u.ref \in u.entries /\ \A r \in written : r.scope = u.ref.scope => r \in u.entries
RecallInv ==
  /\ DOMAIN recall = {"at", "todo", "read", "records"}
  /\ recall.records \in Seq([ref : TS!Refs, text : TopicTexts \cup {TS!Blank}])
  /\ \A i \in DOMAIN recall.records : recall.records[i].ref \in recall.read
  /\ \A i, j \in DOMAIN recall.records : recall.records[i].ref = recall.records[j].ref => i = j
TopicsInv ==
  /\ DOMAIN upserts = TopicWriters /\ TopicFilesInv /\ \A w \in TopicWriters : UpsertInv(w)
  /\ RecallInv

LEMMA NoUpsertIsIdle ==
  /\ DOMAIN TS!NoUpsert = UpsertFields /\ TS!NoUpsert.at = "idle" /\ TS!NoUpsert.ref = TS!NoRef
  /\ TS!NoRef.scope \notin TS!TopicScopes
BY DEF TS!NoUpsert, UpsertFields, TS!NoRef, TS!TopicScopes

LEMMA NothingRecalled ==
  /\ DOMAIN TS!NoRecall = {"at", "todo", "read", "records"} /\ TS!NoRecall.records = <<>>
BY DEF TS!NoRecall

LEMMA RefsAreScoped == \A r \in TS!Refs : r.scope \in TS!TopicScopes
BY DEF TS!Refs

LEMMA TopicsStart == TS!Init => TopicsInv
<1> SUFFICES ASSUME TS!Init PROVE TopicsInv
  OBVIOUS
<1>1. /\ topics = [r \in TS!Refs |-> TS!Blank] /\ index = {} /\ written = {}
      /\ upserts = [w \in TopicWriters |-> TS!NoUpsert] /\ recall = TS!NoRecall
  BY DEF TS!Init
<1>2. TopicFilesInv
  BY <1>1 DEF TopicFilesInv
<1>3. \A w \in TopicWriters : UpsertInv(w)
  BY <1>1, NoUpsertIsIdle DEF UpsertInv
<1>4. RecallInv
  BY <1>1, NothingRecalled, EmptySeq DEF RecallInv
<1> QED  BY <1>1, <1>2, <1>3, <1>4 DEF TopicsInv

LEMMA BeginUpsertKeeps ==
  ASSUME TopicsInv, NEW w \in TopicWriters, TS!BeginUpsert(w) PROVE TopicsInv'
<1>1. /\ topics' = topics /\ index' = index /\ written' = written /\ tidy' = tidy /\ recall' = recall
      /\ upserts[w].at = "idle"
  BY Zenon DEF TS!BeginUpsert
<1>2. TopicFilesInv' /\ RecallInv'
  BY <1>1 DEF TopicsInv, TopicFilesInv, RecallInv
<1>3. CASE upserts' = upserts
  BY <1>1, <1>2, <1>3 DEF TopicsInv, UpsertInv
<1>4. CASE upserts' # upserts
  <2> DEFINE new(c) == [TS!NoUpsert EXCEPT !.at = "topic", !.text = c.text,
                          !.ref = [scope |-> c.scope, slug |-> Slug[c.topic]],
                          !.alone = TS!Others(w, c.scope) = {}]
             old(v, c) == [upserts[v] EXCEPT !.alone = @ /\ upserts[v].ref.scope # c.scope]
  <2>1. PICK c \in Candidates :
          /\ TS!Valid(c) /\ Slug[c.topic] # TS!Blank
          /\ upserts' = [v \in TopicWriters |-> IF v = w THEN new(c) ELSE old(v, c)]
    BY Zenon, <1>4 DEF TS!BeginUpsert
  <2> DEFINE u == new(c)
  <2>2. /\ DOMAIN u = UpsertFields /\ u.at = "topic" /\ u.text = c.text
        /\ u.ref = [scope |-> c.scope, slug |-> Slug[c.topic]]
        /\ u.alone = (TS!Others(w, c.scope) = {})
    BY NoUpsertIsIdle DEF UpsertFields
  <2>3. \A v \in TopicWriters : v # w =>
          /\ DOMAIN upserts'[v] = DOMAIN upserts[v] /\ upserts'[v].at = upserts[v].at
          /\ upserts'[v].ref = upserts[v].ref /\ upserts'[v].text = upserts[v].text
          /\ upserts'[v].entries = upserts[v].entries
          /\ upserts'[v].alone = (upserts[v].alone /\ upserts[v].ref.scope # c.scope)
    BY Zenon, <2>1 DEF TopicsInv, UpsertInv, UpsertFields
  <2>4. DOMAIN upserts' = TopicWriters /\ upserts'[w] = u
    BY Zenon, <2>1
  <2> HIDE DEF u, new, old
  <2>5. u.ref.scope = c.scope
    BY <2>2
  <2>6. u.ref \in TS!Refs /\ u.text \in TopicTexts /\ u.text # TS!Blank
    BY <2>1, <2>2, TopicAssumption DEF TS!Refs, TS!Valid, TopicTexts
  <2>7. Vouched(u.ref, u.text)
    <3>1. u.ref.slug = Slug[c.topic]
      BY <2>2
    <3> QED  BY <2>1, <2>2, <2>5, <3>1 DEF Vouched, TS!Valid
  <2>8. UpsertInv(w)'
    <3>1. u.alone => \A v \in TopicWriters : v # w => upserts[v].ref.scope # c.scope
      BY <2>2 DEF TS!Others
    <3>2. u.alone => \A v \in TopicWriters : v # w => upserts'[v].ref.scope # upserts'[w].ref.scope
      BY <2>3, <2>4, <2>5, <3>1
    <3> QED  BY <2>2, <2>4, <2>6, <2>7, <3>2 DEF UpsertInv
  <2>9. ASSUME NEW v \in TopicWriters, v # w PROVE UpsertInv(v)'
    <3>1. UpsertInv(v)
      BY DEF TopicsInv
    <3>2. CASE upserts[v].at = "idle"
      <4>1. upserts'[v].at = "idle" /\ upserts'[v].ref = TS!NoRef /\ DOMAIN upserts'[v] = UpsertFields
        BY <2>3, <2>9, <3>1, <3>2 DEF UpsertInv
      <4> QED  BY <4>1 DEF UpsertInv
    <3>3. CASE upserts[v].at # "idle"
      <4>1. ASSUME upserts'[v].alone, NEW x \in TopicWriters, x # v
            PROVE  upserts'[x].ref.scope # upserts'[v].ref.scope
        <5>1. upserts[v].alone /\ upserts[v].ref.scope # c.scope
          BY <2>3, <2>9, <4>1, Zenon
        <5>2. upserts[x].ref.scope # upserts[v].ref.scope
          BY <3>1, <3>3, <4>1, <5>1 DEF UpsertInv
        <5> QED  BY <2>3, <2>4, <2>5, <2>9, <4>1, <5>1, <5>2
      <4> QED  BY <1>1, <2>3, <2>9, <3>1, <3>3, <4>1 DEF UpsertInv
    <3> QED  BY <3>2, <3>3
  <2> QED  BY <1>2, <2>4, <2>8, <2>9 DEF TopicsInv
<1> QED  BY <1>3, <1>4

\* Only writer w goes on, and what it began with stays.
LEMMA OnlyTheUpsert ==
  ASSUME TopicsInv, NEW w \in TopicWriters, NEW u, upserts' = [upserts EXCEPT ![w] = u],
         u = TS!NoUpsert \/ u.ref = upserts[w].ref
  PROVE  /\ DOMAIN upserts' = TopicWriters /\ upserts'[w] = u
         /\ \A v \in TopicWriters : v # w => upserts'[v] = upserts[v]
         /\ \A v \in TopicWriters : upserts[v].at # "idle" /\ upserts[v].alone =>
              \A x \in TopicWriters : x # v => upserts'[x].ref.scope # upserts[v].ref.scope
<1>1. /\ DOMAIN upserts' = TopicWriters /\ upserts'[w] = u
      /\ \A v \in TopicWriters : v # w => upserts'[v] = upserts[v]
  BY DEF TopicsInv
<1>2. ASSUME NEW v \in TopicWriters, upserts[v].at # "idle", upserts[v].alone,
             NEW x \in TopicWriters, x # v
      PROVE  upserts'[x].ref.scope # upserts[v].ref.scope
  <2>1. upserts[x].ref.scope # upserts[v].ref.scope /\ upserts[v].ref \in TS!Refs
    BY <1>2 DEF TopicsInv, UpsertInv
  <2>2. upserts'[x].ref = upserts[x].ref \/ upserts'[x].ref = TS!NoRef
    BY <1>1, NoUpsertIsIdle
  <2> QED  BY <2>1, <2>2, RefsAreScoped, NoUpsertIsIdle
<1> QED  BY <1>1, <1>2

LEMMA WriteTopicKeeps ==
  ASSUME TopicsInv, NEW w \in TopicWriters, TS!WriteTopic(w) PROVE TopicsInv'
<1> DEFINE u == [upserts[w] EXCEPT !.at = "scan"]
           r0 == upserts[w].ref
<1>1. /\ index' = index /\ written' = written /\ tidy' = tidy /\ recall' = recall
      /\ upserts[w].at = "topic" /\ upserts' = [upserts EXCEPT ![w] = u]
      /\ topics' = [topics EXCEPT ![r0] = upserts[w].text]
  BY DEF TS!WriteTopic
<1>2. /\ DOMAIN u = UpsertFields /\ u.at = "scan" /\ u.ref = r0 /\ u.text = upserts[w].text
      /\ u.alone = upserts[w].alone
  BY DEF TopicsInv, UpsertInv, UpsertFields
<1> HIDE DEF u
<1>3. /\ r0 \in TS!Refs /\ upserts[w].text \in TopicTexts /\ upserts[w].text # TS!Blank
      /\ Vouched(r0, upserts[w].text)
  BY <1>1 DEF TopicsInv, UpsertInv
<1>4. /\ DOMAIN upserts' = TopicWriters /\ upserts'[w] = u
      /\ \A v \in TopicWriters : v # w => upserts'[v] = upserts[v]
      /\ \A v \in TopicWriters : upserts[v].at # "idle" /\ upserts[v].alone =>
           \A x \in TopicWriters : x # v => upserts'[x].ref.scope # upserts[v].ref.scope
  BY <1>1, <1>2, OnlyTheUpsert
<1>5. /\ topics' \in [TS!Refs -> TopicTexts \cup {TS!Blank}] /\ topics'[r0] = upserts[w].text
      /\ \A r \in TS!Refs : r # r0 => topics'[r] = topics[r]
  BY <1>1, <1>3 DEF TopicsInv, TopicFilesInv
<1>6. \A r \in TS!Refs : topics[r] # TS!Blank => topics'[r] # TS!Blank
  BY <1>3, <1>5
<1>7. TopicFilesInv'
  <2>1. \A r \in TS!Refs : topics'[r] # TS!Blank => Vouched(r, topics'[r])
    BY <1>3, <1>5 DEF TopicsInv, TopicFilesInv
  <2> QED  BY <1>1, <1>5, <1>6, <2>1 DEF TopicsInv, TopicFilesInv
<1>8. UpsertInv(w)'
  BY <1>1, <1>2, <1>3, <1>4, <1>5 DEF UpsertInv
<1>9. ASSUME NEW v \in TopicWriters, v # w PROVE UpsertInv(v)'
  <2>1. UpsertInv(v)
    BY DEF TopicsInv
  <2> QED  BY <1>1, <1>4, <1>6, <1>9, <2>1 DEF UpsertInv
<1>10. RecallInv'
  BY <1>1 DEF TopicsInv, RecallInv
<1> QED  BY <1>4, <1>7, <1>8, <1>9, <1>10 DEF TopicsInv

LEMMA ScanTopicsKeeps ==
  ASSUME TopicsInv, NEW w \in TopicWriters, TS!ScanTopics(w) PROVE TopicsInv'
<1> DEFINE listing == TS!Listing(w, upserts[w].ref.scope)
           u == [upserts[w] EXCEPT !.at = "index", !.entries = listing]
<1>1. /\ index' = index /\ written' = written /\ tidy' = tidy /\ recall' = recall /\ topics' = topics
      /\ upserts[w].at = "scan" /\ upserts' = [upserts EXCEPT ![w] = u]
  BY DEF TS!ScanTopics
<1>2. /\ DOMAIN u = UpsertFields /\ u.at = "index" /\ u.ref = upserts[w].ref /\ u.text = upserts[w].text
      /\ u.alone = upserts[w].alone /\ u.entries = listing
  BY DEF TopicsInv, UpsertInv, UpsertFields
<1> HIDE DEF u
<1>3. /\ DOMAIN upserts' = TopicWriters /\ upserts'[w] = u
      /\ \A v \in TopicWriters : v # w => upserts'[v] = upserts[v]
      /\ \A v \in TopicWriters : upserts[v].at # "idle" /\ upserts[v].alone =>
           \A x \in TopicWriters : x # v => upserts'[x].ref.scope # upserts[v].ref.scope
  BY <1>1, <1>2, OnlyTheUpsert
<1>4. /\ upserts[w].ref \in listing /\ \A r \in listing : r \in TS!Refs /\ topics[r] # TS!Blank
      /\ \A r \in written : r.scope = upserts[w].ref.scope => r \in listing
  BY <1>1 DEF TopicsInv, TopicFilesInv, UpsertInv, TS!Listing
<1> HIDE DEF listing
<1>5. TopicFilesInv' /\ RecallInv'
  BY <1>1 DEF TopicsInv, TopicFilesInv, RecallInv
<1>6. UpsertInv(w)'
  <2>1. UpsertInv(w)
    BY DEF TopicsInv
  <2> QED  BY <1>1, <1>2, <1>3, <1>4, <2>1 DEF UpsertInv
<1>7. ASSUME NEW v \in TopicWriters, v # w PROVE UpsertInv(v)'
  <2>1. UpsertInv(v)
    BY DEF TopicsInv
  <2> QED  BY <1>1, <1>3, <1>7, <2>1 DEF UpsertInv
<1> QED  BY <1>3, <1>5, <1>6, <1>7 DEF TopicsInv

LEMMA WriteIndexKeeps ==
  ASSUME TopicsInv, NEW w \in TopicWriters, TS!WriteIndex(w) PROVE TopicsInv'
<1> DEFINE u == upserts[w]
<1>1. /\ u.at = "index" /\ upserts' = [upserts EXCEPT ![w] = TS!NoUpsert]
      /\ index' = {r \in index : r.scope # u.ref.scope} \cup u.entries
      /\ written' = written \cup {u.ref} /\ topics' = topics /\ recall' = recall
      /\ tidy' = IF u.alone THEN tidy \cup {u.ref.scope} ELSE tidy \ {u.ref.scope}
  BY DEF TS!WriteIndex
<1>2. UpsertInv(w)
  BY DEF TopicsInv
<1>3. /\ DOMAIN upserts' = TopicWriters /\ upserts'[w] = TS!NoUpsert
      /\ \A v \in TopicWriters : v # w => upserts'[v] = upserts[v]
      /\ \A v \in TopicWriters : upserts[v].at # "idle" /\ upserts[v].alone =>
           \A x \in TopicWriters : x # v => upserts'[x].ref.scope # upserts[v].ref.scope
  BY <1>1, OnlyTheUpsert
<1>4. /\ u.ref \in TS!Refs /\ topics[u.ref] # TS!Blank
      /\ \A r \in u.entries : r \in TS!Refs /\ topics[r] # TS!Blank
  BY <1>1, <1>2 DEF UpsertInv
<1>5. \A r \in written' : r.scope \in tidy' => r \in index'
  <2>1. CASE u.alone
    <3>1. u.ref \in u.entries /\ \A r \in written : r.scope = u.ref.scope => r \in u.entries
      BY <1>1, <1>2, <2>1 DEF UpsertInv
    <3> QED  BY <1>1, <2>1, <3>1 DEF TopicsInv, TopicFilesInv
  <2>2. CASE ~u.alone
    BY <1>1, <2>2 DEF TopicsInv, TopicFilesInv
  <2> QED  BY <2>1, <2>2
<1>6. TopicFilesInv'
  BY <1>1, <1>4, <1>5 DEF TopicsInv, TopicFilesInv
<1>7. UpsertInv(w)'
  BY <1>3, NoUpsertIsIdle DEF UpsertInv
<1>8. ASSUME NEW v \in TopicWriters, v # w PROVE UpsertInv(v)'
  <2>1. UpsertInv(v)
    BY DEF TopicsInv
  <2>2. upserts[v].at = "index" /\ upserts[v].alone =>
          \A r \in written' : r.scope = upserts[v].ref.scope => r \in upserts[v].entries
    BY <1>1, <1>8, <2>1 DEF UpsertInv
  <2> QED  BY <1>1, <1>3, <1>8, <2>1, <2>2 DEF UpsertInv
<1>9. RecallInv'
  BY <1>1 DEF TopicsInv, RecallInv
<1> QED  BY <1>3, <1>6, <1>7, <1>8, <1>9 DEF TopicsInv

LEMMA UpsertFailsKeeps ==
  ASSUME TopicsInv, NEW w \in TopicWriters, TS!UpsertFails(w) PROVE TopicsInv'
<1>1. /\ upserts' = [upserts EXCEPT ![w] = TS!NoUpsert] /\ index' = index /\ written' = written
      /\ topics' = topics /\ recall' = recall /\ tidy' = tidy
  BY DEF TS!UpsertFails
<1>2. /\ DOMAIN upserts' = TopicWriters /\ upserts'[w] = TS!NoUpsert
      /\ \A v \in TopicWriters : v # w => upserts'[v] = upserts[v]
      /\ \A v \in TopicWriters : upserts[v].at # "idle" /\ upserts[v].alone =>
           \A x \in TopicWriters : x # v => upserts'[x].ref.scope # upserts[v].ref.scope
  BY <1>1, OnlyTheUpsert
<1>3. TopicFilesInv' /\ RecallInv'
  BY <1>1 DEF TopicsInv, TopicFilesInv, RecallInv
<1>4. UpsertInv(w)'
  BY <1>2, NoUpsertIsIdle DEF UpsertInv
<1>5. ASSUME NEW v \in TopicWriters, v # w PROVE UpsertInv(v)'
  <2>1. UpsertInv(v)
    BY DEF TopicsInv
  <2> QED  BY <1>1, <1>2, <1>5, <2>1 DEF UpsertInv
<1> QED  BY <1>2, <1>3, <1>4, <1>5 DEF TopicsInv

LEMMA ReadTopicKeeps == ASSUME TopicsInv, TS!ReadTopic PROVE RecallInv'
<1> DEFINE r == Head(recall.todo)
           skip == r \in recall.read \/ r \notin index \/ topics[r] = TS!Blank
           rec == [ref |-> r, text |-> topics[r]]
           records == IF skip THEN recall.records ELSE Append(recall.records, rec)
           next == [recall EXCEPT !.todo = Tail(@), !.read = @ \cup {r}, !.records = records]
<1>1. recall' = next
  BY DEF TS!ReadTopic
<1>2. /\ DOMAIN next = {"at", "todo", "read", "records"} /\ next.read = recall.read \cup {r}
      /\ next.records = records
  BY DEF TopicsInv, RecallInv
<1> HIDE DEF next
<1>3. CASE skip
  BY <1>1, <1>2, <1>3 DEF TopicsInv, RecallInv
<1>4. CASE ~skip
  <2>1. rec.ref = r /\ rec \in [ref : TS!Refs, text : TopicTexts \cup {TS!Blank}]
    BY <1>4 DEF TopicsInv, TopicFilesInv
  <2>2. r \notin recall.read
    BY <1>4
  <2>3. records = Append(recall.records, rec)
    BY <1>4
  <2> HIDE DEF records, rec, skip, r
  <2> DEFINE old == recall.records
  <2>4. /\ old \in Seq([ref : TS!Refs, text : TopicTexts \cup {TS!Blank}])
        /\ \A i \in DOMAIN old : old[i].ref \in recall.read
        /\ \A i, j \in DOMAIN old : old[i].ref = old[j].ref => i = j
    BY DEF TopicsInv, RecallInv
  <2> HIDE DEF old
  <2>5. /\ records \in Seq([ref : TS!Refs, text : TopicTexts \cup {TS!Blank}])
        /\ Len(records) = Len(old) + 1 /\ records[Len(old) + 1] = rec
        /\ \A i \in 1..Len(old) : records[i] = old[i]
    BY <2>1, <2>3, <2>4, AppendProperties DEF old
  <2>6. /\ DOMAIN old = 1..Len(old) /\ DOMAIN records = 1..Len(records) /\ Len(old) \in Nat
    BY <2>4, <2>5, LenProperties
  <2>7. \A i \in DOMAIN records : i \in DOMAIN old \/ i = Len(old) + 1
    BY <2>5, <2>6
  <2>8. \A i \in DOMAIN records : records[i].ref \in recall.read \cup {r}
    BY <2>1, <2>4, <2>5, <2>6, <2>7
  <2>9. \A i, j \in DOMAIN records : records[i].ref = records[j].ref => i = j
    BY <2>1, <2>2, <2>4, <2>5, <2>6, <2>7
  <2> QED  BY <1>1, <1>2, <2>5, <2>8, <2>9 DEF RecallInv
<1> QED  BY <1>3, <1>4

LEMMA TopicsStep == ASSUME TopicsInv, [TS!Next]_topicVars PROVE TopicsInv'
<1>1. ASSUME NEW w \in TopicWriters, TS!BeginUpsert(w) PROVE TopicsInv'
  BY <1>1, BeginUpsertKeeps
<1>2. ASSUME NEW w \in TopicWriters, TS!WriteTopic(w) PROVE TopicsInv'
  BY <1>2, WriteTopicKeeps
<1>3. ASSUME NEW w \in TopicWriters, TS!ScanTopics(w) PROVE TopicsInv'
  BY <1>3, ScanTopicsKeeps
<1>4. ASSUME NEW w \in TopicWriters, TS!WriteIndex(w) PROVE TopicsInv'
  BY <1>4, WriteIndexKeeps
<1>5. ASSUME NEW w \in TopicWriters, TS!UpsertFails(w) PROVE TopicsInv'
  BY <1>5, UpsertFailsKeeps
<1>6. ASSUME topics' = topics, index' = index, upserts' = upserts, written' = written, tidy' = tidy,
             RecallInv'
      PROVE  TopicsInv'
  BY <1>6 DEF TopicsInv, TopicFilesInv, UpsertInv
<1>7. CASE TS!Select
  <2>1. PICK n \in 0..2 : \E todo \in [1..n -> TS!Refs] :
          recall' = [TS!NoRecall EXCEPT !.at = "reading", !.todo = todo]
    BY <1>7 DEF TS!Select
  <2>2. PICK todo \in [1..n -> TS!Refs] :
          recall' = [TS!NoRecall EXCEPT !.at = "reading", !.todo = todo]
    BY <2>1
  <2>3. DOMAIN recall' = {"at", "todo", "read", "records"} /\ recall'.records = <<>>
    BY <2>2, NothingRecalled
  <2>4. RecallInv'
    BY <2>3, EmptySeq DEF RecallInv
  <2> QED  BY <1>6, <1>7, <2>4 DEF TS!Select
<1>8. CASE TS!ReadTopic
  BY <1>6, <1>8, ReadTopicKeeps DEF TS!ReadTopic
<1>9. CASE TS!RecallDone
  <2>1. RecallInv'
    BY <1>9, NothingRecalled, EmptySeq DEF TS!RecallDone, RecallInv
  <2> QED  BY <1>6, <1>9, <2>1 DEF TS!RecallDone
<1>10. CASE UNCHANGED topicVars
  <2>1. RecallInv'
    BY <1>10 DEF topicVars, TopicsInv, RecallInv
  <2> QED  BY <1>6, <1>10, <2>1 DEF topicVars
<1> QED  BY <1>1, <1>2, <1>3, <1>4, <1>5, <1>7, <1>8, <1>9, <1>10 DEF TS!Next

LEMMA TopicsShow == TopicsInv => TS!WrittenStaysIndexed
BY DEF TopicsInv, TopicFilesInv, RecallInv, Vouched, TS!WrittenStaysIndexed

\* A writer that is idle has nothing left of its last Upsert.
TopicsTypes ==
  /\ begun \in Nat /\ begun <= MaxUpserts /\ tidy \subseteq TS!TopicScopes
  /\ \A w \in TopicWriters : upserts[w].at = "idle" => upserts[w] = TS!NoUpsert
  /\ recall.todo \in Seq(TS!Refs) /\ Len(recall.records) <= MaxRecalled

LEMMA NothingToRead == TS!NoRecall.todo \in Seq(TS!Refs) /\ Len(TS!NoRecall.records) <= MaxRecalled
<1>1. TS!NoRecall.todo = <<>> /\ TS!NoRecall.records = <<>>
  BY DEF TS!NoRecall
<1>2. Len(<<>>) = 0 /\ <<>> \in Seq(TS!Refs)
  OBVIOUS
<1> QED  BY <1>1, <1>2, TopicAssumption

LEMMA TopicsTypesStart == TS!Init => TopicsTypes
<1> SUFFICES ASSUME TS!Init PROVE TopicsTypes
  OBVIOUS
<1>1. begun = 0 /\ tidy = TS!TopicScopes /\ upserts = [w \in TopicWriters |-> TS!NoUpsert]
      /\ recall = TS!NoRecall
  BY DEF TS!Init
<1> QED  BY <1>1, NothingToRead, TopicAssumption DEF TopicsTypes

LEMMA BeginUpsertTypes ==
  ASSUME TopicsInv, TopicsTypes, NEW w \in TopicWriters, TS!BeginUpsert(w) PROVE TopicsTypes'
<1>1. begun < MaxUpserts /\ begun' = begun + 1 /\ tidy' = tidy /\ recall' = recall
  BY Zenon DEF TS!BeginUpsert
<1>2. CASE upserts' = upserts
  BY <1>1, <1>2, TopicAssumption DEF TopicsTypes
<1>3. CASE upserts' # upserts
  <2> DEFINE new(c) == [TS!NoUpsert EXCEPT !.at = "topic", !.text = c.text,
                          !.ref = [scope |-> c.scope, slug |-> Slug[c.topic]],
                          !.alone = TS!Others(w, c.scope) = {}]
             old(v, c) == [upserts[v] EXCEPT !.alone = @ /\ upserts[v].ref.scope # c.scope]
  <2>1. PICK c \in Candidates :
          /\ TS!Valid(c) /\ upserts' = [v \in TopicWriters |-> IF v = w THEN new(c) ELSE old(v, c)]
    BY Zenon, <1>3 DEF TS!BeginUpsert
  <2>2. new(c).at = "topic"
    BY NoUpsertIsIdle DEF UpsertFields
  <2>3. ASSUME NEW v \in TopicWriters, v # w, upserts'[v].at = "idle" PROVE upserts'[v] = TS!NoUpsert
    <3>1. upserts'[v] = old(v, c)
      BY Zenon, <2>1, <2>3
    <3>2. DOMAIN upserts[v] = UpsertFields
      BY DEF TopicsInv, UpsertInv
    <3>3. old(v, c).at = upserts[v].at
      BY <3>2 DEF UpsertFields
    <3>4. upserts[v] = TS!NoUpsert
      BY <2>3, <3>1, <3>3 DEF TopicsTypes
    <3>5. TS!NoUpsert.alone = TRUE /\ TS!NoUpsert.ref.scope # c.scope
      <4>1. TS!NoUpsert.alone = TRUE
        BY DEF TS!NoUpsert
      <4>2. c.scope \in TS!TopicScopes
        BY Zenon, <2>1 DEF TS!Valid
      <4> QED  BY <4>1, <4>2, NoUpsertIsIdle
    <3>6. old(v, c) = [TS!NoUpsert EXCEPT !.alone = TRUE]
      BY <3>4, <3>5
    <3>7. [TS!NoUpsert EXCEPT !.alone = TRUE] = TS!NoUpsert
      <4>1. PICK b, r, t : b = TRUE /\ r = TS!NoRef /\ t = TS!Blank
        OBVIOUS
      <4>2. TS!NoUpsert = [at |-> "idle", ref |-> r, text |-> t, alone |-> b, entries |-> {}]
        BY <4>1, Zenon DEF TS!NoUpsert
      <4>3. [TS!NoUpsert EXCEPT !.alone = b] = TS!NoUpsert
        BY <4>2
      <4> QED  BY <4>1, <4>3, Zenon
    <3> QED  BY <3>1, <3>6, <3>7
  <2>4. upserts'[w] = new(c)
    BY Zenon, <2>1
  <2>5. \A v \in TopicWriters : upserts'[v].at = "idle" => upserts'[v] = TS!NoUpsert
    BY <2>2, <2>3, <2>4
  <2> QED  BY <1>1, <2>5, TopicAssumption DEF TopicsTypes
<1> QED  BY <1>2, <1>3

LEMMA ReadTopicTypes ==
  ASSUME TopicsInv, TopicsTypes, TS!ReadTopic
  PROVE  recall'.todo \in Seq(TS!Refs) /\ Len(recall'.records) <= MaxRecalled
<1> DEFINE r == Head(recall.todo)
           skip == r \in recall.read \/ r \notin index \/ topics[r] = TS!Blank
           rec == [ref |-> r, text |-> topics[r]]
           records == IF skip THEN recall.records ELSE Append(recall.records, rec)
           next == [recall EXCEPT !.todo = Tail(@), !.read = @ \cup {r}, !.records = records]
<1>1. recall' = next /\ recall.todo # <<>> /\ Len(recall.records) < MaxRecalled
  BY DEF TS!ReadTopic
<1>2. next.todo = Tail(recall.todo) /\ next.records = records
  BY DEF TopicsInv, RecallInv
<1> HIDE DEF next
<1>3. Tail(recall.todo) \in Seq(TS!Refs)
  BY <1>1, HeadTailProperties DEF TopicsTypes
<1>4. PICK old : old = recall.records
  OBVIOUS
<1>5. PICK S : old \in Seq(S)
  BY <1>4 DEF TopicsInv, RecallInv
<1>6. Len(old) \in Nat
  BY <1>5, LenProperties
<1>7. Len(records) <= MaxRecalled
  <2>1. CASE skip
    BY <1>1, <1>4, <1>6, <2>1, TopicAssumption
  <2>2. CASE ~skip
    <3>1. records = Append(old, rec)
      BY <1>4, <2>2
    <3> HIDE DEF records, rec, skip, r
    <3>2. old \in Seq(S \cup {rec})
      BY <1>5
    <3>3. Len(records) = Len(old) + 1
      BY <3>1, <3>2, AppendProperties
    <3> QED  BY <1>1, <1>4, <1>6, <3>3, TopicAssumption
  <2> QED  BY <2>1, <2>2
<1> QED  BY <1>1, <1>2, <1>3, <1>7

LEMMA TopicsTypesStep ==
  ASSUME TopicsInv, TopicsTypes, [TS!Next]_topicVars PROVE TopicsTypes'
<1>1. ASSUME NEW w \in TopicWriters, NEW u, upserts' = [upserts EXCEPT ![w] = u],
             u = TS!NoUpsert \/ u.at # "idle", begun' = begun, recall' = recall,
             tidy' \subseteq TS!TopicScopes
      PROVE  TopicsTypes'
  <2>1. \A v \in TopicWriters : upserts'[v] = IF v = w THEN u ELSE upserts[v]
    BY <1>1 DEF TopicsInv
  <2> QED  BY <1>1, <2>1 DEF TopicsTypes
<1>2. ASSUME NEW w \in TopicWriters, TS!WriteTopic(w) PROVE TopicsTypes'
  <2> DEFINE u == [upserts[w] EXCEPT !.at = "scan"]
  <2>1. upserts' = [upserts EXCEPT ![w] = u] /\ begun' = begun /\ recall' = recall /\ tidy' = tidy
    BY <1>2 DEF TS!WriteTopic
  <2>2. u.at # "idle"
    BY DEF TopicsInv, UpsertInv, UpsertFields
  <2> HIDE DEF u
  <2> QED  BY <1>1, <2>1, <2>2 DEF TopicsTypes
<1>3. ASSUME NEW w \in TopicWriters, TS!ScanTopics(w) PROVE TopicsTypes'
  <2> DEFINE u == [upserts[w] EXCEPT !.at = "index", !.entries = TS!Listing(w, upserts[w].ref.scope)]
  <2>1. upserts' = [upserts EXCEPT ![w] = u] /\ begun' = begun /\ recall' = recall /\ tidy' = tidy
    BY <1>3 DEF TS!ScanTopics
  <2>2. u.at # "idle"
    BY DEF TopicsInv, UpsertInv, UpsertFields
  <2> HIDE DEF u
  <2> QED  BY <1>1, <2>1, <2>2 DEF TopicsTypes
<1>4. ASSUME NEW w \in TopicWriters, TS!WriteIndex(w) PROVE TopicsTypes'
  <2>1. /\ upserts[w].at = "index" /\ upserts' = [upserts EXCEPT ![w] = TS!NoUpsert]
        /\ begun' = begun /\ recall' = recall
        /\ tidy' = tidy \cup {upserts[w].ref.scope} \/ tidy' = tidy \ {upserts[w].ref.scope}
    BY <1>4 DEF TS!WriteIndex
  <2>2. upserts[w].ref.scope \in TS!TopicScopes
    BY <2>1, RefsAreScoped DEF TopicsInv, UpsertInv
  <2>3. tidy' \subseteq TS!TopicScopes
    BY <2>1, <2>2 DEF TopicsTypes
  <2> QED  BY <1>1, <2>1, <2>3
<1>5. ASSUME NEW w \in TopicWriters, TS!UpsertFails(w) PROVE TopicsTypes'
  <2>1. /\ upserts' = [upserts EXCEPT ![w] = TS!NoUpsert] /\ begun' = begun /\ recall' = recall
        /\ tidy' = tidy
    BY <1>5 DEF TS!UpsertFails
  <2> QED  BY <1>1, <2>1 DEF TopicsTypes
<1>6. ASSUME begun' = begun, upserts' = upserts, tidy' = tidy,
             recall'.todo \in Seq(TS!Refs), Len(recall'.records) <= MaxRecalled
      PROVE  TopicsTypes'
  BY <1>6 DEF TopicsTypes
<1>7. CASE TS!Select
  <2>1. PICK n \in 0..2 : \E todo \in [1..n -> TS!Refs] :
          recall' = [TS!NoRecall EXCEPT !.at = "reading", !.todo = todo]
    BY <1>7 DEF TS!Select
  <2>2. PICK todo \in [1..n -> TS!Refs] :
          recall' = [TS!NoRecall EXCEPT !.at = "reading", !.todo = todo]
    BY <2>1
  <2>3. recall'.todo = todo /\ recall'.records = TS!NoRecall.records
    BY <2>2, NothingRecalled
  <2>4. todo \in Seq(TS!Refs)
    OBVIOUS
  <2> QED  BY <1>6, <1>7, <2>3, <2>4, NothingToRead DEF TS!Select
<1>8. CASE TS!ReadTopic
  BY <1>6, <1>8, ReadTopicTypes DEF TS!ReadTopic
<1>9. CASE TS!RecallDone
  BY <1>6, <1>9, NothingToRead DEF TS!RecallDone
<1>10. CASE UNCHANGED topicVars
  BY <1>6, <1>10 DEF topicVars, TopicsTypes
<1> QED  BY <1>2, <1>3, <1>4, <1>5, <1>7, <1>8, <1>9, <1>10, BeginUpsertTypes DEF TS!Next

LEMMA TopicsTypesShow == TopicsInv /\ TopicsTypes => TS!TypeOK
<1> SUFFICES ASSUME TopicsInv, TopicsTypes PROVE TS!TypeOK
  OBVIOUS
<1>1. begun \in 0..MaxUpserts
  BY TopicAssumption DEF TopicsTypes
<1>2. \A w \in TopicWriters : upserts[w].at = "idle" <=> upserts[w] = TS!NoUpsert
  BY NoUpsertIsIdle DEF TopicsTypes
<1> QED  BY <1>1, <1>2 DEF TopicsInv, TopicFilesInv, TopicsTypes, TS!TypeOK

---------------------------------------------------------------------------
(* memory/hierarchical_v1.                                                 *)

VARIABLES entries, layerRows, layerWriter, writes, crossed
layered == <<entries, layerRows, layerWriter, writes, crossed>>
LM == INSTANCE LayeredMemory

EntryIsDurable(e) == LM!ShouldPersist(e) /\ LM!IsVerified(e)
WritersAreTyped ==
  /\ DOMAIN entries = MemoryKeys /\ DOMAIN layerRows = MemoryKeys
  /\ DOMAIN layerWriter = LayerWriters
  /\ \A w \in LayerWriters : DOMAIN layerWriter[w] = {"at", "key", "entry"}
RowsAreVerified ==
  /\ \A k \in MemoryKeys : layerRows[k] # LM!NoEntry => EntryIsDurable(layerRows[k])
  /\ \A w \in LayerWriters : layerWriter[w].at = "upsert" => EntryIsDurable(layerWriter[w].entry)
AtWork(w, k) == layerWriter[w].at \in {"upsert", "set"} /\ layerWriter[w].key = k
\* The row comes before the map, which is behind only while a call is between the two.
Behind(k) == \E w \in LayerWriters :
  layerWriter[w].at = "set" /\ layerWriter[w].key = k /\ LM!ShouldPersist(layerWriter[w].entry)
KeyKeepsUp(k) ==
  /\ \A v, w \in LayerWriters : AtWork(v, k) /\ AtWork(w, k) => v = w
  /\ \A w \in LayerWriters :
       layerWriter[w].at = "set" /\ layerWriter[w].key = k /\ LM!ShouldPersist(layerWriter[w].entry)
         => layerRows[k] = layerWriter[w].entry
  /\ entries[k].layer \notin {"none", "scratchpad"} => entries[k] = layerRows[k] \/ Behind(k)
LayeredInv ==
  /\ WritersAreTyped /\ RowsAreVerified
  /\ \A w \in LayerWriters : /\ layerWriter[w].at \in {"idle", "read", "upsert", "set"}
                              /\ layerWriter[w].at # "idle" => layerWriter[w].key \in MemoryKeys
  /\ \A k \in MemoryKeys : k \notin crossed => KeyKeepsUp(k)

LEMMA LayeredStarts == LM!Init => LayeredInv
<1> SUFFICES ASSUME LM!Init PROVE LayeredInv
  OBVIOUS
<1>1. /\ entries = [k \in MemoryKeys |-> LM!NoEntry] /\ layerRows = entries
      /\ layerWriter = [w \in LayerWriters |-> LM!NoWrite]
  BY DEF LM!Init
<1>2. LM!NoEntry.layer = "none" /\ LM!NoWrite.at = "idle" /\ DOMAIN LM!NoWrite = {"at", "key", "entry"}
  BY DEF LM!NoEntry, LM!NoWrite
<1> QED  BY <1>1, <1>2 DEF LayeredInv, WritersAreTyped, RowsAreVerified, KeyKeepsUp, AtWork

\* A writer that writes nothing: it gives up, or reads the scratchpad.
LEMMA NoWriteKeeps ==
  ASSUME LayeredInv, NEW w \in LayerWriters, NEW call,
         layerWriter' = [layerWriter EXCEPT ![w] = call],
         call.at \in {"idle", "read"}, call.at = "read" => call.key \in MemoryKeys,
         DOMAIN call = {"at", "key", "entry"}, layerWriter[w].at # "set",
         entries' = entries, layerRows' = layerRows, crossed' = crossed
  PROVE  LayeredInv'
<1>1. /\ layerWriter'[w] = call /\ DOMAIN layerWriter' = LayerWriters
      /\ \A v \in LayerWriters : v # w => layerWriter'[v] = layerWriter[v]
  BY DEF LayeredInv, WritersAreTyped
<1>2. WritersAreTyped' /\ RowsAreVerified'
  BY <1>1 DEF LayeredInv, WritersAreTyped, RowsAreVerified
<1>3. ASSUME NEW k \in MemoryKeys, k \notin crossed PROVE KeyKeepsUp(k)'
  <2>1. KeyKeepsUp(k)
    BY <1>3 DEF LayeredInv
  <2>2. Behind(k) => Behind(k)'
    BY <1>1 DEF Behind
  <2> QED  BY <1>1, <2>1, <2>2 DEF KeyKeepsUp, AtWork
<1> QED  BY <1>1, <1>2, <1>3 DEF LayeredInv

LEMMA BeginWriteKeeps ==
  ASSUME LayeredInv, NEW w \in LayerWriters, NEW k \in MemoryKeys, NEW e,
         layerWriter[w].at \in {"idle", "read"}, LM!BeginWrite(w, k, e)
  PROVE  LayeredInv'
<1>1. entries' = entries /\ layerRows' = layerRows
  BY DEF LM!BeginWrite
<1>2. CASE ~LM!MayWrite(e)
  <2>1. layerWriter' = [layerWriter EXCEPT ![w] = LM!NoWrite] /\ crossed' = crossed
    BY <1>2 DEF LM!BeginWrite
  <2>2. LM!NoWrite.at = "idle" /\ DOMAIN LM!NoWrite = {"at", "key", "entry"}
    BY DEF LM!NoWrite
  <2> QED  BY <1>1, <2>1, <2>2, NoWriteKeeps
<1>3. CASE LM!MayWrite(e)
  <2> DEFINE at == IF LM!ShouldPersist(e) THEN "upsert" ELSE "set"
             call == [at |-> at, key |-> k, entry |-> e]
  <2>1. /\ layerWriter' = [layerWriter EXCEPT ![w] = call]
        /\ crossed' = IF LM!Writing(k) # {} THEN crossed \cup {k} ELSE crossed
    BY <1>3 DEF LM!BeginWrite
  <2>2. /\ DOMAIN call = {"at", "key", "entry"} /\ call.key = k /\ call.entry = e
        /\ call.at \in {"upsert", "set"} /\ (call.at = "upsert" => EntryIsDurable(e))
        /\ (call.at = "set" => ~LM!ShouldPersist(e))
    BY <1>3 DEF EntryIsDurable, LM!ShouldPersist, LM!MayWrite, LM!RequireEvidence
  <2> HIDE DEF call
  <2>3. /\ layerWriter'[w] = call /\ DOMAIN layerWriter' = LayerWriters
        /\ \A v \in LayerWriters : v # w => layerWriter'[v] = layerWriter[v]
    BY <2>1 DEF LayeredInv, WritersAreTyped
  <2>4. WritersAreTyped' /\ RowsAreVerified'
    BY <1>1, <2>2, <2>3 DEF LayeredInv, WritersAreTyped, RowsAreVerified
  <2>5. ASSUME NEW j \in MemoryKeys, j \notin crossed' PROVE KeyKeepsUp(j)'
    <3>1. KeyKeepsUp(j)
      BY <2>1, <2>5 DEF LayeredInv
    <3>2. Behind(j) => Behind(j)'
      BY <2>3 DEF Behind
    <3>3. CASE j # k
      BY <1>1, <2>2, <2>3, <3>1, <3>2, <3>3 DEF KeyKeepsUp, AtWork
    <3>4. CASE j = k
      <4>1. \A v \in LayerWriters : ~AtWork(v, k)
        BY <2>1, <2>5, <3>4 DEF LM!Writing, AtWork
      <4>2. ~Behind(k)
        BY <4>1 DEF Behind, AtWork
      <4> QED  BY <1>1, <2>2, <2>3, <3>1, <3>4, <4>1, <4>2 DEF KeyKeepsUp, AtWork
    <3> QED  BY <3>3, <3>4
  <2> QED  BY <2>2, <2>3, <2>4, <2>5 DEF LayeredInv
<1> QED  BY <1>2, <1>3

LEMMA UpsertKeeps ==
  ASSUME LayeredInv, NEW w \in LayerWriters, LM!Upsert(w) PROVE LayeredInv'
<1> DEFINE k == layerWriter[w].key
           e == layerWriter[w].entry
           call == [layerWriter[w] EXCEPT !.at = "set"]
<1>1. /\ layerWriter[w].at = "upsert" /\ layerRows' = [layerRows EXCEPT ![k] = e]
      /\ layerWriter' = [layerWriter EXCEPT ![w] = call] /\ entries' = entries /\ crossed' = crossed
  BY DEF LM!Upsert
<1>2. /\ DOMAIN call = {"at", "key", "entry"} /\ call.at = "set" /\ call.key = k /\ call.entry = e
  BY DEF LayeredInv, WritersAreTyped
<1> HIDE DEF call
<1>3. /\ layerWriter'[w] = call /\ DOMAIN layerWriter' = LayerWriters
      /\ \A v \in LayerWriters : v # w => layerWriter'[v] = layerWriter[v]
  BY <1>1 DEF LayeredInv, WritersAreTyped
<1>4. /\ DOMAIN layerRows' = MemoryKeys /\ (k \in MemoryKeys => layerRows'[k] = e)
      /\ \A j \in MemoryKeys : j # k => layerRows'[j] = layerRows[j]
  BY <1>1 DEF LayeredInv, WritersAreTyped
<1>5. EntryIsDurable(e)
  BY <1>1 DEF LayeredInv, RowsAreVerified
<1>6. WritersAreTyped'
  BY <1>1, <1>2, <1>3, <1>4 DEF LayeredInv, WritersAreTyped
<1>7. RowsAreVerified'
  <2>1. ASSUME NEW j \in MemoryKeys, layerRows'[j] # LM!NoEntry PROVE EntryIsDurable(layerRows'[j])
    BY <1>4, <1>5, <2>1 DEF LayeredInv, RowsAreVerified
  <2>2. ASSUME NEW v \in LayerWriters, layerWriter'[v].at = "upsert"
        PROVE  EntryIsDurable(layerWriter'[v].entry)
    BY <1>2, <1>3, <2>2 DEF LayeredInv, RowsAreVerified
  <2> QED  BY <2>1, <2>2 DEF RowsAreVerified
<1>8. ASSUME NEW j \in MemoryKeys, j \notin crossed PROVE KeyKeepsUp(j)'
  <2>1. KeyKeepsUp(j)
    BY <1>8 DEF LayeredInv
  <2>2. \A v \in LayerWriters : AtWork(v, j)' <=> AtWork(v, j)
    BY <1>1, <1>2, <1>3 DEF AtWork
  <2>3. CASE j # k
    <3>1. Behind(j)' <=> Behind(j)
      BY <1>2, <1>3, <2>3 DEF Behind
    <3> QED  BY <1>1, <1>2, <1>3, <1>4, <2>1, <2>2, <2>3, <3>1 DEF KeyKeepsUp
  <2>4. CASE j = k
    <3>1. Behind(j)'
      BY <1>2, <1>3, <1>5, <2>4 DEF Behind, EntryIsDurable
    <3>2. \A v \in LayerWriters : AtWork(v, j) => v = w
      BY <1>1, <2>1, <2>4 DEF KeyKeepsUp, AtWork
    <3>3. ASSUME NEW v \in LayerWriters, layerWriter'[v].at = "set", layerWriter'[v].key = j
          PROVE  layerRows'[j] = layerWriter'[v].entry
      <4>1. v = w
        BY <2>2, <3>2, <3>3 DEF AtWork
      <4> QED  BY <1>2, <1>3, <1>4, <2>4, <4>1
    <3> QED  BY <2>2, <3>1, <3>2, <3>3 DEF KeyKeepsUp
  <2> QED  BY <2>3, <2>4
<1> QED  BY <1>1, <1>2, <1>3, <1>6, <1>7, <1>8 DEF LayeredInv

LEMMA SetEntryKeeps ==
  ASSUME LayeredInv, NEW w \in LayerWriters, LM!SetEntry(w) PROVE LayeredInv'
<1> DEFINE k == layerWriter[w].key
           e == layerWriter[w].entry
<1>1. /\ layerWriter[w].at = "set" /\ entries' = [entries EXCEPT ![k] = e]
      /\ layerWriter' = [layerWriter EXCEPT ![w] = LM!NoWrite] /\ layerRows' = layerRows
      /\ crossed' = crossed
  BY DEF LM!SetEntry
<1>2. LM!NoWrite.at = "idle" /\ DOMAIN LM!NoWrite = {"at", "key", "entry"}
  BY DEF LM!NoWrite
<1>3. /\ layerWriter'[w] = LM!NoWrite /\ DOMAIN layerWriter' = LayerWriters
      /\ \A v \in LayerWriters : v # w => layerWriter'[v] = layerWriter[v]
  BY <1>1 DEF LayeredInv, WritersAreTyped
<1>4. /\ DOMAIN entries' = MemoryKeys /\ (k \in MemoryKeys => entries'[k] = e)
      /\ \A j \in MemoryKeys : j # k => entries'[j] = entries[j]
  BY <1>1 DEF LayeredInv, WritersAreTyped
<1>5. WritersAreTyped' /\ RowsAreVerified'
  BY <1>1, <1>2, <1>3, <1>4 DEF LayeredInv, WritersAreTyped, RowsAreVerified
<1>6. ASSUME NEW j \in MemoryKeys, j \notin crossed PROVE KeyKeepsUp(j)'
  <2>1. KeyKeepsUp(j)
    BY <1>6 DEF LayeredInv
  <2>2. \A v \in LayerWriters : AtWork(v, j)' => AtWork(v, j) /\ v # w
    BY <1>2, <1>3 DEF AtWork
  <2>3. \A v \in LayerWriters : layerWriter'[v].at = "set" => layerWriter'[v] = layerWriter[v]
    BY <1>2, <1>3
  <2>4. CASE j # k
    <3>1. Behind(j) => Behind(j)'
      BY <1>3, <2>4 DEF Behind
    <3> QED  BY <1>1, <1>4, <2>1, <2>2, <2>3, <2>4, <3>1 DEF KeyKeepsUp
  <2>5. CASE j = k
    <3>1. entries'[j] = e /\ (LM!ShouldPersist(e) => layerRows[j] = e)
      BY <1>1, <1>4, <2>1, <2>5 DEF KeyKeepsUp
    <3>2. e.layer \notin {"none", "scratchpad"} => LM!ShouldPersist(e)
      BY DEF LM!ShouldPersist
    <3> QED  BY <1>1, <2>1, <2>2, <2>3, <3>1, <3>2 DEF KeyKeepsUp
  <2> QED  BY <2>4, <2>5
<1> QED  BY <1>1, <1>2, <1>3, <1>5, <1>6 DEF LayeredInv

LEMMA LayeredSteps == ASSUME LayeredInv, [LM!Next]_layered PROVE LayeredInv'
<1>1. LM!NoWrite.at = "idle" /\ DOMAIN LM!NoWrite = {"at", "key", "entry"}
  BY DEF LM!NoWrite
<1>2. ASSUME NEW w \in LayerWriters, LM!Write(w) PROVE LayeredInv'
  <2>1. PICK k \in MemoryKeys, layer \in LM!Layers, source \in {"human", "agent_inference"},
               ev \in BOOLEAN : LM!BeginWrite(w, k, [layer |-> layer, source |-> source, evidence |-> ev,
                                              write |-> writes + 1])
    BY <1>2 DEF LM!Write
  <2>2. layerWriter[w].at = "idle"
    BY <1>2 DEF LM!Write
  <2> QED  BY <2>1, <2>2, BeginWriteKeeps
<1>3. ASSUME NEW w \in LayerWriters, LM!ReadScratchpad(w) PROVE LayeredInv'
  <2>1. PICK k \in MemoryKeys :
          layerWriter' = [layerWriter EXCEPT ![w] = [at |-> "read", key |-> k, entry |-> entries[k]]]
    BY <1>3 DEF LM!ReadScratchpad
  <2> DEFINE call == [at |-> "read", key |-> k, entry |-> entries[k]]
  <2>2. DOMAIN call = {"at", "key", "entry"} /\ call.at = "read" /\ call.key \in MemoryKeys
    OBVIOUS
  <2>3. /\ layerWriter' = [layerWriter EXCEPT ![w] = call] /\ layerWriter[w].at = "idle"
        /\ entries' = entries /\ layerRows' = layerRows /\ crossed' = crossed
    BY <1>3, <2>1 DEF LM!ReadScratchpad
  <2> HIDE DEF call
  <2> QED  BY <2>2, <2>3, NoWriteKeeps
<1>4. ASSUME NEW w \in LayerWriters, LM!Promote(w) PROVE LayeredInv'
  <2>1. CASE layerWriter' = [layerWriter EXCEPT ![w] = LM!NoWrite]
             /\ UNCHANGED <<entries, layerRows, writes, crossed>>
    BY <1>1, <1>4, <2>1, NoWriteKeeps DEF LM!Promote
  <2>2. layerWriter[w].at = "read" /\ layerWriter[w].key \in MemoryKeys
    BY <1>4 DEF LM!Promote, LayeredInv
  <2>3. CASE LM!BeginWrite(w, layerWriter[w].key,
               [layer |-> Route[layerWriter[w].key], source |-> "verified_trace", evidence |-> TRUE,
                write |-> writes + 1])
    BY <2>2, <2>3, BeginWriteKeeps
  <2> QED  BY <1>4, <2>1, <2>3 DEF LM!Promote
<1>5. ASSUME NEW w \in LayerWriters, LM!Upsert(w) PROVE LayeredInv'
  BY <1>5, UpsertKeeps
<1>6. ASSUME NEW w \in LayerWriters, LM!UpsertFails(w) PROVE LayeredInv'
  BY <1>1, <1>6, NoWriteKeeps DEF LM!UpsertFails
<1>7. ASSUME NEW w \in LayerWriters, LM!SetEntry(w) PROVE LayeredInv'
  BY <1>7, SetEntryKeeps
<1>8. CASE LM!Restart
  <2>1. /\ entries' = layerRows /\ layerRows' = layerRows /\ crossed' = {}
        /\ layerWriter' = [w \in LayerWriters |-> LM!NoWrite]
    BY <1>8 DEF LM!Restart
  <2>2. DOMAIN entries' = MemoryKeys /\ \A w \in LayerWriters : layerWriter'[w] = LM!NoWrite
    BY <2>1 DEF LayeredInv, WritersAreTyped
  <2>3. \A k \in MemoryKeys : KeyKeepsUp(k)'
    BY <1>1, <2>1, <2>2 DEF KeyKeepsUp, AtWork
  <2> QED  BY <1>1, <2>1, <2>2, <2>3 DEF LayeredInv, WritersAreTyped, RowsAreVerified
<1>9. CASE UNCHANGED layered
  BY <1>9 DEF layered, LayeredInv, WritersAreTyped, RowsAreVerified, KeyKeepsUp, AtWork, Behind
<1> QED  BY <1>2, <1>3, <1>4, <1>5, <1>6, <1>7, <1>8, <1>9 DEF LM!Next

LEMMA LayeredShows == LayeredInv => LM!DurableIsPersisted
<1> SUFFICES ASSUME LayeredInv, NEW k \in MemoryKeys
             PROVE  /\ layerRows[k] # LM!NoEntry =>
                         layerRows[k].layer # "scratchpad" /\ LM!IsVerified(layerRows[k])
                    /\ (entries[k].layer \notin {"none", "scratchpad"} /\ LM!Writing(k) = {}
                         /\ k \notin crossed)
                         => entries[k] = layerRows[k]
  BY DEF LM!DurableIsPersisted
<1>1. layerRows[k] # LM!NoEntry => layerRows[k].layer # "scratchpad" /\ LM!IsVerified(layerRows[k])
  BY DEF LayeredInv, RowsAreVerified, EntryIsDurable, LM!ShouldPersist
<1>2. Behind(k) => LM!Writing(k) # {}
  BY DEF Behind, LM!Writing
<1> QED  BY <1>1, <1>2 DEF LayeredInv, KeyKeepsUp

\* What is written has a layer of the model, a promoted entry the one its key is routed to.
LayeredTypes ==
  /\ \A k \in MemoryKeys : entries[k].layer \in LM!Layers \cup {"none"}
                           /\ layerRows[k].layer \in LM!Layers \cup {"none"}
  /\ \A w \in LayerWriters :
       layerWriter[w].at \in {"upsert", "set"} => layerWriter[w].entry.layer \in LM!Layers
  /\ writes \in 0..MaxWrites /\ crossed \subseteq MemoryKeys

LEMMA LayeredTypesStart == LM!Init => LayeredTypes
<1> SUFFICES ASSUME LM!Init PROVE LayeredTypes
  OBVIOUS
<1>1. /\ entries = [k \in MemoryKeys |-> LM!NoEntry] /\ layerRows = entries
      /\ layerWriter = [w \in LayerWriters |-> LM!NoWrite] /\ writes = 0 /\ crossed = {}
  BY DEF LM!Init
<1>2. LM!NoEntry.layer = "none" /\ LM!NoWrite.at = "idle"
  BY DEF LM!NoEntry, LM!NoWrite
<1> QED  BY <1>1, <1>2, WritesAssumption DEF LayeredTypes

LEMMA BeginWriteTypes ==
  ASSUME LayeredInv, LayeredTypes, NEW w \in LayerWriters, NEW k \in MemoryKeys, NEW e,
         e.layer \in LM!Layers, LM!BeginWrite(w, k, e)
  PROVE  LayeredTypes'
<1>1. UNCHANGED <<entries, layerRows>> /\ writes < MaxWrites /\ writes' = writes + 1
      /\ crossed' \in {crossed, crossed \cup {k}}
  BY DEF LM!BeginWrite
<1>2. PICK call : /\ layerWriter' = [layerWriter EXCEPT ![w] = call]
                  /\ call.at \in {"upsert", "set"} => call.entry = e
  <2> DEFINE call == IF LM!MayWrite(e)
                     THEN [at |-> IF LM!ShouldPersist(e) THEN "upsert" ELSE "set", key |-> k, entry |-> e]
                     ELSE LM!NoWrite
  <2>1. layerWriter' = [layerWriter EXCEPT ![w] = call]
    BY DEF LM!BeginWrite
  <2>2. call.at \in {"upsert", "set"} => call.entry = e
    BY DEF LM!NoWrite
  <2> HIDE DEF call
  <2> QED  BY <2>1, <2>2
<1>3. \A v \in LayerWriters : layerWriter'[v] = IF v = w THEN call ELSE layerWriter[v]
  BY <1>2 DEF LayeredInv, WritersAreTyped
<1> QED  BY <1>1, <1>2, <1>3, WritesAssumption DEF LayeredTypes

LEMMA LayeredTypesStep ==
  ASSUME LayeredInv, LayeredTypes, [LM!Next]_layered PROVE LayeredTypes'
<1>1. CASE UNCHANGED layered
  BY <1>1 DEF layered, LayeredTypes
<1>2. CASE LM!Restart
  <2>1. entries' = layerRows /\ layerRows' = layerRows /\ writes' = writes /\ crossed' = {}
        /\ layerWriter' = [w \in LayerWriters |-> LM!NoWrite]
    BY <1>2 DEF LM!Restart
  <2>2. LM!NoWrite.at = "idle"
    BY DEF LM!NoWrite
  <2> QED  BY <2>1, <2>2 DEF LayeredTypes
<1>3. ASSUME NEW w \in LayerWriters, LM!Write(w) PROVE LayeredTypes'
  <2>1. PICK k \in MemoryKeys, layer \in LM!Layers, source \in {"human", "agent_inference"}, ev \in BOOLEAN :
          LM!BeginWrite(w, k, [layer |-> layer, source |-> source, evidence |-> ev, write |-> writes + 1])
    BY <1>3 DEF LM!Write
  <2> QED  BY <2>1, BeginWriteTypes
<1>4. ASSUME NEW w \in LayerWriters, NEW call, UNCHANGED <<entries, layerRows, writes, crossed>>,
             layerWriter' = [layerWriter EXCEPT ![w] = call], call.at \in {"idle", "read"}
      PROVE  LayeredTypes'
  <2>1. \A v \in LayerWriters : layerWriter'[v] = IF v = w THEN call ELSE layerWriter[v]
    BY <1>4 DEF LayeredInv, WritersAreTyped
  <2> QED  BY <1>4, <2>1 DEF LayeredTypes
<1>5. ASSUME NEW w \in LayerWriters, LM!ReadScratchpad(w) \/ LM!UpsertFails(w) PROVE LayeredTypes'
  <2>1. LM!NoWrite.at = "idle"
    BY DEF LM!NoWrite
  <2>2. PICK call : /\ layerWriter' = [layerWriter EXCEPT ![w] = call] /\ call.at \in {"idle", "read"}
                    /\ UNCHANGED <<entries, layerRows, writes, crossed>>
    BY <1>5, <2>1 DEF LM!ReadScratchpad, LM!UpsertFails
  <2> QED  BY <1>4, <2>2
<1>6. ASSUME NEW w \in LayerWriters, LM!Promote(w) PROVE LayeredTypes'
  <2>1. layerWriter[w].at = "read"
    BY <1>6 DEF LM!Promote
  <2>2. layerWriter[w].key \in MemoryKeys
    BY <2>1 DEF LayeredInv
  <2>3. CASE UNCHANGED <<entries, layerRows, writes, crossed>>
             /\ layerWriter' = [layerWriter EXCEPT ![w] = LM!NoWrite]
    <3>1. LM!NoWrite.at = "idle"
      BY DEF LM!NoWrite
    <3> QED  BY <1>4, <2>3, <3>1
  <2>4. CASE LM!BeginWrite(w, layerWriter[w].key,
               [layer |-> Route[layerWriter[w].key], source |-> "verified_trace", evidence |-> TRUE,
                write |-> writes + 1])
    <3>1. Route[layerWriter[w].key] \in LM!Layers
      BY <2>2, WritesAssumption DEF LM!Layers
    <3> QED  BY <2>2, <2>4, <3>1, BeginWriteTypes
  <2> QED  BY <1>6, <2>3, <2>4 DEF LM!Promote
<1>7. ASSUME NEW w \in LayerWriters, LM!Upsert(w) PROVE LayeredTypes'
  <2>1. /\ layerWriter[w].at = "upsert" /\ UNCHANGED <<entries, writes, crossed>>
        /\ layerRows' = [layerRows EXCEPT ![layerWriter[w].key] = layerWriter[w].entry]
        /\ layerWriter' = [layerWriter EXCEPT ![w].at = "set"]
    BY <1>7 DEF LM!Upsert
  <2>2. layerWriter[w].entry.layer \in LM!Layers
    BY <2>1 DEF LayeredTypes
  <2>3. \A k \in MemoryKeys : layerRows'[k].layer \in LM!Layers \cup {"none"}
    BY <2>1, <2>2 DEF LayeredTypes, LayeredInv, WritersAreTyped
  <2>4. layerWriter'[w].entry = layerWriter[w].entry
        /\ \A v \in LayerWriters : v # w => layerWriter'[v] = layerWriter[v]
    BY <2>1 DEF LayeredInv, WritersAreTyped
  <2>5. \A v \in LayerWriters :
          layerWriter'[v].at \in {"upsert", "set"} => layerWriter'[v].entry.layer \in LM!Layers
    BY <2>2, <2>4 DEF LayeredTypes
  <2> QED  BY <2>1, <2>3, <2>5 DEF LayeredTypes
<1>8. ASSUME NEW w \in LayerWriters, LM!SetEntry(w) PROVE LayeredTypes'
  <2>1. /\ layerWriter[w].at = "set" /\ UNCHANGED <<layerRows, writes, crossed>>
        /\ entries' = [entries EXCEPT ![layerWriter[w].key] = layerWriter[w].entry]
        /\ layerWriter' = [layerWriter EXCEPT ![w] = LM!NoWrite] /\ LM!NoWrite.at = "idle"
    BY <1>8 DEF LM!SetEntry, LM!NoWrite
  <2>2. layerWriter[w].entry.layer \in LM!Layers
    BY <2>1 DEF LayeredTypes
  <2>3. \A k \in MemoryKeys : entries'[k].layer \in LM!Layers \cup {"none"}
    BY <2>1, <2>2 DEF LayeredTypes, LayeredInv, WritersAreTyped
  <2>4. \A v \in LayerWriters : layerWriter'[v] = IF v = w THEN LM!NoWrite ELSE layerWriter[v]
    BY <2>1 DEF LayeredInv, WritersAreTyped
  <2> QED  BY <2>1, <2>3, <2>4 DEF LayeredTypes
<1> QED  BY <1>1, <1>2, <1>3, <1>5, <1>6, <1>7, <1>8 DEF LM!Next

LEMMA LayeredTypesShow == LayeredTypes => LM!TypeOK
BY DEF LayeredTypes, LM!TypeOK

---------------------------------------------------------------------------
(* memory/hierarchical.  An entry is told by its key: promotion and        *)
(* eviction keep the keys of working and session together, and what Clean  *)
(* takes from the session has its row.                                     *)

VARIABLES working, session, longTerm, adds, added, memCall
tiers == <<working, session, longTerm, adds, added, memCall>>
HM == INSTANCE HierarchicalMemory

TierEntry == [id : Nat, content : Contents, copy : BOOLEAN, worthy : BOOLEAN]
Own(x, members) == \E e \in members : e.content = x /\ ~e.copy

CallShape == [op : {"idle", "session", "promote", "persist"}, rows : SUBSET Contents,
              hits : SUBSET TierEntry, done : SUBSET Contents]

\* A search's hits are as old as the call; rows are never deleted.
TiersInv ==
  /\ working \subseteq TierEntry /\ session \subseteq TierEntry
  /\ longTerm \subseteq Contents /\ adds \in Nat
  /\ memCall \in [MemoryCalls -> CallShape]
  /\ \A c \in MemoryCalls :
       memCall[c].op = "persist" => memCall[c].done \subseteq memCall[c].rows \cup longTerm
  /\ HM!NoEntryLost

LEMMA TiersStart == HM!Init => TiersInv
BY DEF HM!Init, TiersInv, HM!Idle, CallShape, HM!NoEntryLost

\* The budget only decides which tier an entry is in.
LEMMA BudgetKeepsEntries ==
  ASSUME NEW members, NEW others, HM!EnforceBudget(members, others)
  PROVE  working' \cup session' = members \cup others
BY DEF HM!EnforceBudget

LEMMA WorthIsOwn ==
  ASSUME NEW members, members \subseteq TierEntry
  PROVE  HM!Worth(members) \subseteq Contents
BY DEF HM!Worth, TierEntry

\* A step that leaves the tiers alone.
LEMMA TiersUntouched ==
  ASSUME TiersInv, UNCHANGED <<working, session, adds, added>>,
         longTerm \subseteq longTerm', longTerm' \subseteq Contents,
         memCall' \in [MemoryCalls -> CallShape],
         \A c \in MemoryCalls :
           memCall'[c].op = "persist" => memCall'[c].done \subseteq memCall'[c].rows \cup longTerm'
  PROVE  TiersInv'
BY DEF TiersInv, HM!NoEntryLost

LEMMA AddKeepsTiers == ASSUME TiersInv, HM!Add PROVE TiersInv'
<1>1. PICK x \in Contents, w \in BOOLEAN :
        /\ HM!EnforceBudget(working \cup {[id |-> adds + 1, content |-> x, copy |-> FALSE, worthy |-> w]},
                            session)
        /\ added' = added \cup {x}
  BY DEF HM!Add
<1> DEFINE new == [id |-> adds + 1, content |-> x, copy |-> FALSE, worthy |-> w]
<1>2. working' \cup session' = working \cup {new} \cup session
  BY <1>1, BudgetKeepsEntries
<1>3. new \in TierEntry /\ new.content = x /\ ~new.copy
  BY DEF TiersInv, TierEntry
<1>4. UNCHANGED <<longTerm, memCall>> /\ adds' = adds + 1
  BY DEF HM!Add
<1> HIDE DEF new
<1>5. HM!NoEntryLost'
  BY <1>1, <1>2, <1>3, <1>4 DEF TiersInv, HM!NoEntryLost
<1> QED  BY <1>2, <1>3, <1>4, <1>5 DEF TiersInv

LEMMA PromoteKeepsTiers ==
  ASSUME TiersInv, NEW c \in MemoryCalls, HM!Promote(c)
  PROVE  TiersInv'
<1> DEFINE hits == memCall[c].hits  rows == memCall[c].rows
<1>1. PICK raised \in SUBSET {e.content : e \in hits} :
        LET promoted == HM!Promoted(hits, rows, raised)
            newcomers == {p \in promoted : \A e \in working : HM!Key(e) # HM!Key(p)}
            stay  == {[e EXCEPT !.worthy = @ \/ \E p \in promoted : HM!Key(p) = HM!Key(e) /\ p.worthy] :
                        e \in working}
            moved == {HM!Key(e) : e \in hits}
        IN  HM!EnforceBudget(stay \cup newcomers, {e \in session : HM!Key(e) \notin moved})
  BY DEF HM!Promote
<1> DEFINE promoted == HM!Promoted(hits, rows, raised)
           newcomers == {p \in promoted : \A e \in working : HM!Key(e) # HM!Key(p)}
           Stayed(e) == [e EXCEPT !.worthy = @ \/ \E p \in promoted : HM!Key(p) = HM!Key(e) /\ p.worthy]
           stay  == {Stayed(e) : e \in working}
           moved == {HM!Key(e) : e \in hits}
           rest  == {e \in session : HM!Key(e) \notin moved}
<1>2. working' \cup session' = stay \cup newcomers \cup rest
  BY <1>1, BudgetKeepsEntries
<1>3. hits \subseteq TierEntry /\ rows \subseteq Contents /\ working \subseteq TierEntry
      /\ session \subseteq TierEntry
  BY DEF TiersInv, CallShape
<1>4. UNCHANGED <<longTerm, adds, added>> /\ memCall' = [memCall EXCEPT ![c] = HM!Idle]
  BY DEF HM!Promote
<1> HIDE DEF hits, rows
<1>5. \A e \in hits : \E p \in promoted : p.content = e.content /\ p.copy = e.copy
  <2> SUFFICES ASSUME NEW e \in hits
               PROVE  \E p \in promoted : p.content = e.content /\ p.copy = e.copy
    OBVIOUS
  <2> DEFINE p == [e EXCEPT !.worthy = @ \/ (e.content \in raised /\ ~e.copy)]
  <2>1. p \in promoted
    BY DEF HM!Promoted
  <2>2. p.content = e.content /\ p.copy = e.copy
    BY <1>3 DEF TierEntry
  <2> QED  BY <2>1, <2>2
<1>6. promoted \subseteq TierEntry
  <2>1. ASSUME NEW e \in hits
        PROVE  [e EXCEPT !.worthy = @ \/ (e.content \in raised /\ ~e.copy)] \in TierEntry
    BY <1>3 DEF TierEntry
  <2>2. ASSUME NEW x \in rows
        PROVE  [id |-> 0, content |-> x, copy |-> TRUE, worthy |-> FALSE] \in TierEntry
    BY <1>3 DEF TierEntry
  <2> QED  BY <2>1, <2>2 DEF HM!Promoted
<1> HIDE DEF promoted
<1>7. \A e \in working : Stayed(e) \in TierEntry /\ Stayed(e).content = e.content
                         /\ Stayed(e).copy = e.copy
  BY <1>3 DEF TierEntry
<1> HIDE DEF Stayed
<1>8. working' \cup session' \subseteq TierEntry
  BY <1>2, <1>3, <1>6, <1>7
<1>9. ASSUME NEW x, Own(x, working \cup session)
      PROVE  Own(x, working' \cup session')
  <2>1. PICK e \in working \cup session : e.content = x /\ ~e.copy
    BY <1>9 DEF Own
  <2>2. CASE e \in working
    BY <1>2, <1>7, <2>1, <2>2 DEF Own
  <2>3. CASE e \in rest
    BY <1>2, <2>1, <2>3 DEF Own
  <2>4. CASE e \in session /\ HM!Key(e) \in moved
    <3>1. PICK h \in hits : HM!Key(h) = HM!Key(e)
      BY <2>4
    <3>2. PICK p \in promoted : p.content = h.content /\ p.copy = h.copy
      BY <1>5
    <3>3. p.content = x /\ ~p.copy
      BY <2>1, <3>1, <3>2 DEF HM!Key
    <3>4. CASE p \in newcomers
      BY <1>2, <3>3, <3>4 DEF Own
    <3>5. CASE p \notin newcomers
      <4>1. PICK f \in working : HM!Key(f) = HM!Key(p)
        BY <3>5
      <4>2. f.content = x /\ ~f.copy
        BY <3>3, <4>1 DEF HM!Key
      <4> QED  BY <1>2, <1>7, <4>2 DEF Own
    <3> QED  BY <3>4, <3>5
  <2> QED  BY <2>1, <2>2, <2>3, <2>4
<1>10. HM!NoEntryLost'
  BY <1>4, <1>9 DEF TiersInv, HM!NoEntryLost, Own
<1>11. /\ memCall' \in [MemoryCalls -> CallShape]
       /\ \A d \in MemoryCalls : memCall'[d].op = "persist" =>
            memCall'[d].done \subseteq memCall'[d].rows \cup longTerm'
  BY <1>4 DEF TiersInv, CallShape, HM!Idle
<1> QED  BY <1>4, <1>8, <1>10, <1>11 DEF TiersInv

LEMMA CleanKeepsTiers ==
  ASSUME TiersInv, NEW c \in MemoryCalls, HM!Clean(c)
  PROVE  TiersInv'
<1>1. memCall[c].done \subseteq longTerm
  BY DEF TiersInv, HM!Clean
<1>2. /\ UNCHANGED <<working, longTerm, adds, added>>
      /\ session' = {e \in session : e.copy \/ e.content \notin memCall[c].done}
      /\ memCall' = [memCall EXCEPT ![c] = HM!Idle]
  BY DEF HM!Clean
<1>3. HM!NoEntryLost'
  BY <1>1, <1>2 DEF TiersInv, HM!NoEntryLost
<1>4. /\ memCall' \in [MemoryCalls -> CallShape]
      /\ \A d \in MemoryCalls : memCall'[d].op = "persist" =>
           memCall'[d].done \subseteq memCall'[d].rows \cup longTerm'
  BY <1>2 DEF TiersInv, CallShape, HM!Idle
<1> QED  BY <1>2, <1>3, <1>4 DEF TiersInv

LEMMA TiersStep == ASSUME TiersInv, [HM!Next]_tiers PROVE TiersInv'
<1>1. ASSUME NEW c \in MemoryCalls,
             HM!SearchLongTerm(c) \/ HM!SearchSession(c) \/ HM!Fail(c) \/ HM!Consolidate(c)
               \/ HM!Persist(c)
      PROVE  TiersInv'
  <2>1. CASE HM!SearchLongTerm(c)
    <3>1. PICK found \in SUBSET longTerm :
            memCall' = [memCall EXCEPT ![c] = [HM!Idle EXCEPT !.op = "session", !.rows = found]]
      BY <2>1 DEF HM!SearchLongTerm
    <3>2. memCall' \in [MemoryCalls -> CallShape]
      BY <3>1 DEF TiersInv, CallShape, HM!Idle
    <3>3. memCall'[c].op = "session" /\ \A d \in MemoryCalls : d # c => memCall'[d] = memCall[d]
      BY <3>1 DEF TiersInv, HM!Idle
    <3> QED  BY <2>1, <3>2, <3>3, TiersUntouched DEF HM!SearchLongTerm, TiersInv
  <2>2. CASE HM!SearchSession(c)
    <3>1. PICK rows \in SUBSET memCall[c].rows, hits \in SUBSET session :
            memCall' = [memCall EXCEPT ![c] =
                          [op |-> "promote", rows |-> rows, hits |-> hits, done |-> {}]]
      BY <2>2 DEF HM!SearchSession
    <3>2. memCall' \in [MemoryCalls -> CallShape]
      BY <3>1 DEF TiersInv, CallShape
    <3>3. memCall'[c].op = "promote" /\ \A d \in MemoryCalls : d # c => memCall'[d] = memCall[d]
      BY <3>1 DEF TiersInv
    <3> QED  BY <2>2, <3>2, <3>3, TiersUntouched DEF HM!SearchSession, TiersInv
  <2>3. CASE HM!Fail(c)
    <3>1. memCall' = [memCall EXCEPT ![c] = HM!Idle]
      BY <2>3 DEF HM!Fail
    <3>2. memCall' \in [MemoryCalls -> CallShape]
      BY <3>1 DEF TiersInv, CallShape, HM!Idle
    <3>3. memCall'[c].op = "idle" /\ \A d \in MemoryCalls : d # c => memCall'[d] = memCall[d]
      BY <3>1 DEF TiersInv, HM!Idle
    <3> QED  BY <2>3, <3>2, <3>3, TiersUntouched DEF HM!Fail, TiersInv
  <2>4. CASE HM!Consolidate(c)
    <3> DEFINE rows == HM!Worth(session \cup working)  done == HM!Worth(session)
    <3>1. memCall' = [memCall EXCEPT ![c] = [op |-> "persist", rows |-> rows, hits |-> {}, done |-> done]]
      BY <2>4 DEF HM!Consolidate
    <3>2. done \subseteq rows /\ rows \subseteq Contents
      BY WorthIsOwn DEF HM!Worth, TiersInv
    <3> HIDE DEF rows, done
    <3>3. memCall' \in [MemoryCalls -> CallShape]
      BY <3>1, <3>2 DEF TiersInv, CallShape
    <3>4. /\ memCall'[c].done = done /\ memCall'[c].rows = rows
          /\ \A d \in MemoryCalls : d # c => memCall'[d] = memCall[d]
      BY <3>1 DEF TiersInv
    <3> QED  BY <2>4, <3>2, <3>3, <3>4, TiersUntouched DEF HM!Consolidate, TiersInv
  <2>5. CASE HM!Persist(c)
    <3>1. PICK x \in memCall[c].rows :
            longTerm' = longTerm \cup {x} /\ memCall' = [memCall EXCEPT ![c].rows = @ \ {x}]
      BY <2>5 DEF HM!Persist
    <3>2. memCall[c] \in CallShape
      BY DEF TiersInv
    <3>3. /\ memCall'[c].op = memCall[c].op /\ memCall'[c].done = memCall[c].done
          /\ memCall'[c].rows = memCall[c].rows \ {x} /\ memCall'[c].hits = memCall[c].hits
          /\ memCall'[c] \in CallShape
          /\ \A d \in MemoryCalls : d # c => memCall'[d] = memCall[d]
      BY <3>1, <3>2 DEF TiersInv, CallShape
    <3>4. memCall' \in [MemoryCalls -> CallShape]
      BY <3>1, <3>3 DEF TiersInv
    <3>5. longTerm' \subseteq Contents
      BY <3>1, <3>2 DEF TiersInv, CallShape
    <3> QED  BY <2>5, <3>1, <3>3, <3>4, <3>5, TiersUntouched DEF HM!Persist, TiersInv
  <2> QED  BY <1>1, <2>1, <2>2, <2>3, <2>4, <2>5
<1>2. CASE UNCHANGED tiers
  BY <1>2 DEF tiers, TiersInv, HM!NoEntryLost
<1> QED  BY <1>1, <1>2, AddKeepsTiers, PromoteKeepsTiers, CleanKeepsTiers DEF HM!Next

LEMMA TiersShow == TiersInv => HM!NoEntryLost
BY DEF TiersInv

\* The tiers are finite, within the budget, and an id is the number of an Add (0 of a copy).
TierSizes ==
  /\ IsFiniteSet(working) /\ IsFiniteSet(session) /\ IsFiniteSet(longTerm)
  /\ adds <= MaxAdds /\ \A e \in working \cup session : e.id <= adds
  /\ \A c \in MemoryCalls :
       memCall[c].op \in {"session", "promote"} =>
         /\ IsFiniteSet(memCall[c].rows) /\ IsFiniteSet(memCall[c].hits)
         /\ \A e \in memCall[c].hits : e.id <= adds
  /\ Cardinality(working) <= WorkingBudget

LEMMA SameCardinalityOfTiers == \A S : HM!Cardinality(S) = Cardinality(S)
BY DEF HM!Cardinality, Cardinality

LEMMA ImageIsFinite ==
  ASSUME NEW S, IsFiniteSet(S), NEW f, f = [x \in S |-> f[x]]
  PROVE  IsFiniteSet({f[x] : x \in S})
<1> DEFINE T == {f[x] : x \in S}
<1>1. f \in Surjection(S, T)
  <2>1. f \in [S -> T]
    OBVIOUS
  <2> QED  BY <2>1 DEF Surjection
<1> QED  BY <1>1, FS_Surjection

LEMMA TierSizesStart == HM!Init => TierSizes
<1> SUFFICES ASSUME HM!Init PROVE TierSizes
  OBVIOUS
<1>1. working = {} /\ session = {} /\ longTerm = {} /\ adds = 0
      /\ \A c \in MemoryCalls : memCall[c].op = "idle"
  BY DEF HM!Init, HM!Idle
<1>2. IsFiniteSet({}) /\ Cardinality({}) = 0
  BY FS_EmptySet
<1> QED  BY <1>1, <1>2, TiersAssumption DEF TierSizes

LEMMA BudgetIsKept ==
  ASSUME NEW members, NEW others, HM!EnforceBudget(members, others),
         IsFiniteSet(members), IsFiniteSet(others)
  PROVE  /\ IsFiniteSet(working') /\ IsFiniteSet(session')
         /\ Cardinality(working') <= WorkingBudget
<1>1. PICK kept \in SUBSET members :
        /\ Cardinality(kept) = IF Cardinality(members) > WorkingBudget THEN WorkingBudget
                               ELSE Cardinality(members)
        /\ working' = kept /\ session' = others \cup (members \ kept)
  BY SameCardinalityOfTiers DEF HM!EnforceBudget
<1>2. IsFiniteSet(kept) /\ IsFiniteSet(members \ kept)
  BY FS_Subset, FS_Difference
<1>3. IsFiniteSet(others \cup (members \ kept))
  BY <1>2, FS_Union
<1>4. Cardinality(members) \in Nat
  BY FS_CardinalityType
<1>5. Cardinality(kept) <= WorkingBudget
  BY <1>1, <1>4, TiersAssumption
<1> QED  BY <1>1, <1>2, <1>3, <1>5

\* A step that leaves the tiers alone, up to the call it is of.
LEMMA TierSizesUntouched ==
  ASSUME TiersInv, TierSizes, UNCHANGED <<working, adds>>, session' \subseteq session,
         IsFiniteSet(longTerm'), NEW c \in MemoryCalls, NEW call,
         memCall' = [memCall EXCEPT ![c] = call],
         call.op \in {"session", "promote"} =>
           /\ IsFiniteSet(call.rows) /\ IsFiniteSet(call.hits) /\ \A e \in call.hits : e.id <= adds
  PROVE  TierSizes'
<1>1. \A d \in MemoryCalls : memCall'[d] = IF d = c THEN call ELSE memCall[d]
  BY DEF TiersInv
<1>2. IsFiniteSet(session')
  BY FS_Subset DEF TierSizes
<1> QED  BY <1>1, <1>2 DEF TierSizes

LEMMA TierSizesStep ==
  ASSUME TiersInv, TierSizes, [HM!Next]_tiers PROVE TierSizes'
<1>1. CASE UNCHANGED tiers
  BY <1>1 DEF tiers, TierSizes
<1>2. CASE HM!Add
  <2>1. PICK x \in Contents, w \in BOOLEAN :
          HM!EnforceBudget(working \cup {[id |-> adds + 1, content |-> x, copy |-> FALSE, worthy |-> w]},
                           session)
    BY <1>2 DEF HM!Add
  <2> DEFINE new == [id |-> adds + 1, content |-> x, copy |-> FALSE, worthy |-> w]
  <2>2. new.id = adds + 1
    OBVIOUS
  <2>3. HM!EnforceBudget(working \cup {new}, session)
    BY <2>1
  <2> HIDE DEF new
  <2>4. IsFiniteSet(working \cup {new})
    BY FS_AddElement DEF TierSizes
  <2>5. /\ IsFiniteSet(working') /\ IsFiniteSet(session') /\ Cardinality(working') <= WorkingBudget
        /\ working' \cup session' = working \cup {new} \cup session
    BY <2>3, <2>4, BudgetIsKept, BudgetKeepsEntries DEF TierSizes
  <2>6. adds < MaxAdds /\ adds' = adds + 1 /\ UNCHANGED <<longTerm, memCall>> /\ adds \in Nat
    BY <1>2 DEF HM!Add, TiersInv
  <2>7. \A e \in working \cup session : e.id \in Nat
    BY DEF TiersInv, TierEntry
  <2>8. \A e \in working' \cup session' : e.id <= adds'
    BY <2>2, <2>5, <2>6, <2>7 DEF TierSizes
  <2>9. \A c \in MemoryCalls : \A e \in memCall[c].hits : e.id \in Nat
    BY DEF TiersInv, CallShape, TierEntry
  <2> QED  BY <2>5, <2>6, <2>8, <2>9, TiersAssumption DEF TierSizes
<1>3. ASSUME NEW c \in MemoryCalls, HM!SearchLongTerm(c) PROVE TierSizes'
  <2>1. PICK rows \in SUBSET longTerm :
          /\ memCall' = [memCall EXCEPT ![c] = [HM!Idle EXCEPT !.op = "session", !.rows = rows]]
          /\ UNCHANGED <<working, session, longTerm, adds>>
    BY <1>3 DEF HM!SearchLongTerm
  <2> DEFINE call == [HM!Idle EXCEPT !.op = "session", !.rows = rows]
  <2>2. call.rows = rows /\ call.hits = {}
    BY DEF HM!Idle
  <2>3. IsFiniteSet(rows) /\ IsFiniteSet({})
    BY FS_Subset, FS_EmptySet DEF TierSizes
  <2>4. memCall' = [memCall EXCEPT ![c] = call]
    BY <2>1
  <2> HIDE DEF call
  <2> QED  BY <2>1, <2>2, <2>3, <2>4, TierSizesUntouched DEF TierSizes
<1>4. ASSUME NEW c \in MemoryCalls, HM!SearchSession(c) PROVE TierSizes'
  <2>1. PICK rows \in SUBSET memCall[c].rows, hits \in SUBSET session :
          /\ memCall' = [memCall EXCEPT ![c] = [op |-> "promote", rows |-> rows, hits |-> hits, done |-> {}]]
          /\ memCall[c].op = "session" /\ UNCHANGED <<working, session, longTerm, adds>>
    BY <1>4 DEF HM!SearchSession
  <2> DEFINE call == [op |-> "promote", rows |-> rows, hits |-> hits, done |-> {}]
  <2>2. call.rows = rows /\ call.hits = hits
    OBVIOUS
  <2>3. IsFiniteSet(rows) /\ IsFiniteSet(hits)
    BY <2>1, FS_Subset DEF TierSizes
  <2>4. memCall' = [memCall EXCEPT ![c] = call]
    BY <2>1
  <2>5. \A e \in hits : e.id <= adds
    BY DEF TierSizes
  <2> HIDE DEF call
  <2> QED  BY <2>1, <2>2, <2>3, <2>4, <2>5, TierSizesUntouched DEF TierSizes
<1>5. ASSUME NEW c \in MemoryCalls, HM!Fail(c) \/ HM!Clean(c) PROVE TierSizes'
  <2>1. /\ memCall' = [memCall EXCEPT ![c] = HM!Idle] /\ session' \subseteq session
        /\ UNCHANGED <<working, longTerm, adds>>
    BY <1>5 DEF HM!Fail, HM!Clean
  <2>2. HM!Idle.op = "idle"
    BY DEF HM!Idle
  <2> QED  BY <2>1, <2>2, TierSizesUntouched DEF TierSizes
<1>6. ASSUME NEW c \in MemoryCalls, HM!Consolidate(c) PROVE TierSizes'
  <2>1. PICK call : /\ memCall' = [memCall EXCEPT ![c] = call] /\ call.op = "persist"
                    /\ UNCHANGED <<working, session, longTerm, adds>>
    BY <1>6 DEF HM!Consolidate
  <2> QED  BY <2>1, TierSizesUntouched DEF TierSizes
<1>7. ASSUME NEW c \in MemoryCalls, HM!Persist(c) PROVE TierSizes'
  <2>1. PICK x \in memCall[c].rows :
          /\ longTerm' = longTerm \cup {x} /\ memCall' = [memCall EXCEPT ![c].rows = @ \ {x}]
          /\ UNCHANGED <<working, session, adds>> /\ memCall[c].op = "persist"
    BY <1>7 DEF HM!Persist
  <2> DEFINE call == [memCall[c] EXCEPT !.rows = @ \ {x}]
  <2>2. memCall' = [memCall EXCEPT ![c] = call] /\ call.op = "persist"
    BY <2>1 DEF TiersInv, CallShape
  <2>3. IsFiniteSet(longTerm')
    BY <2>1, FS_AddElement DEF TierSizes
  <2> HIDE DEF call
  <2> QED  BY <2>1, <2>2, <2>3, TierSizesUntouched
<1>8. ASSUME NEW c \in MemoryCalls, HM!Promote(c) PROVE TierSizes'
  <2> DEFINE hits == memCall[c].hits  rows == memCall[c].rows
  <2>1. PICK raised \in SUBSET {e.content : e \in hits} :
          LET promoted == HM!Promoted(hits, rows, raised)
              newcomers == {p \in promoted : \A e \in working : HM!Key(e) # HM!Key(p)}
              stay  == {[e EXCEPT !.worthy = @ \/ \E p \in promoted : HM!Key(p) = HM!Key(e) /\ p.worthy] :
                          e \in working}
              moved == {HM!Key(e) : e \in hits}
          IN  HM!EnforceBudget(stay \cup newcomers, {e \in session : HM!Key(e) \notin moved})
    BY <1>8 DEF HM!Promote
  <2> DEFINE promoted == HM!Promoted(hits, rows, raised)
             newcomers == {p \in promoted : \A e \in working : HM!Key(e) # HM!Key(p)}
             stayed == [e \in working |->
                          [e EXCEPT !.worthy = @ \/ \E p \in promoted : HM!Key(p) = HM!Key(e) /\ p.worthy]]
             stay  == {stayed[e] : e \in working}
             moved == {HM!Key(e) : e \in hits}
             rest  == {e \in session : HM!Key(e) \notin moved}
             raise == [e \in hits |-> [e EXCEPT !.worthy = @ \/ (e.content \in raised /\ ~e.copy)]]
             copied == [x \in rows |-> [id |-> 0, content |-> x, copy |-> TRUE, worthy |-> FALSE]]
  <2>2. HM!EnforceBudget(stay \cup newcomers, rest)
    BY <2>1
  <2>3. promoted = {raise[e] : e \in hits} \cup {copied[x] : x \in rows}
    BY DEF HM!Promoted
  <2>4. /\ memCall[c].op = "promote" /\ UNCHANGED <<longTerm, adds>> /\ adds \in Nat
        /\ memCall' = [memCall EXCEPT ![c] = HM!Idle]
    BY <1>8 DEF HM!Promote, TiersInv
  <2>5. IsFiniteSet(hits) /\ IsFiniteSet(rows) /\ \A e \in hits : e.id <= adds
    BY <2>4 DEF TierSizes
  <2>6. /\ \A e \in hits : raise[e].id <= adds
        /\ \A x \in rows : copied[x].id <= adds
        /\ \A e \in working : stayed[e].id <= adds
    <3>1. \A e \in working : e \in TierEntry /\ e.id <= adds
      BY DEF TiersInv, TierSizes
    <3>2. \A e \in hits : e \in TierEntry /\ e.id <= adds
      BY <2>5 DEF TiersInv, CallShape
    <3> HIDE DEF hits, rows, promoted
    <3> QED  BY <2>4, <3>1, <3>2 DEF TierEntry
  <2>7. /\ raise = [e \in hits |-> raise[e]] /\ copied = [x \in rows |-> copied[x]]
        /\ stayed = [e \in working |-> stayed[e]]
    OBVIOUS
  <2> HIDE DEF promoted, stayed, raise, copied, hits, rows
  <2>8. IsFiniteSet(promoted)
    <3>1. IsFiniteSet({raise[e] : e \in hits}) /\ IsFiniteSet({copied[x] : x \in rows})
      BY <2>5, <2>7, ImageIsFinite
    <3> QED  BY <2>3, <3>1, FS_Union
  <2>9. IsFiniteSet(stay \cup newcomers)
    <3>1. IsFiniteSet(newcomers)
      BY <2>8, FS_Subset
    <3>2. IsFiniteSet(stay)
      BY <2>7, ImageIsFinite DEF TierSizes
    <3> QED  BY <3>1, <3>2, FS_Union
  <2>10. IsFiniteSet(rest)
    BY FS_Subset DEF TierSizes
  <2>11. /\ IsFiniteSet(working') /\ IsFiniteSet(session') /\ Cardinality(working') <= WorkingBudget
         /\ working' \cup session' = stay \cup newcomers \cup rest
    BY <2>2, <2>9, <2>10, BudgetIsKept, BudgetKeepsEntries
  <2>12. \A e \in working' \cup session' : e.id <= adds
    BY <2>3, <2>6, <2>11 DEF TierSizes
  <2>13. \A d \in MemoryCalls : memCall'[d] = IF d = c THEN HM!Idle ELSE memCall[d]
    BY <2>4 DEF TiersInv
  <2>14. HM!Idle.op = "idle"
    BY DEF HM!Idle
  <2> QED  BY <2>4, <2>11, <2>12, <2>13, <2>14 DEF TierSizes
<1> QED  BY <1>1, <1>2, <1>3, <1>4, <1>5, <1>6, <1>7, <1>8 DEF HM!Next

LEMMA TierTypesShow == TiersInv /\ TierSizes => HM!TypeOK
<1> SUFFICES ASSUME TiersInv, TierSizes PROVE HM!TypeOK
  OBVIOUS
<1>1. \A e \in working \cup session : e \in TierEntry /\ e.id <= adds
  BY DEF TiersInv, TierSizes
<1>2. adds \in Nat /\ adds <= MaxAdds
  BY DEF TiersInv, TierSizes
<1>3. working \subseteq HM!Entry /\ session \subseteq HM!Entry
  BY <1>1, <1>2, TiersAssumption DEF TierEntry, HM!Entry
<1> QED  BY <1>3, SameCardinalityOfTiers DEF TiersInv, TierSizes, HM!TypeOK

---------------------------------------------------------------------------
(* perception/multimodal-fusion.                                           *)

VARIABLES ocr, files, inputs, blocks, trace, parts, fusion
fusionVars == <<ocr, files, inputs, blocks, trace, parts, fusion>>
MF == INSTANCE MultimodalFusion

Modalities == {"text", "audio", "pdf", "image", "table"}
\* A total that is reported is the number of rows there are.
TablePayload == {t \in [header : BOOLEAN, rows : Nat, total : Nat, size : Nat] : t.total \in {0, t.size}}
ModalityInput == [kind : Modalities, keep : BOOLEAN, mode : MF!Modes, table : TablePayload]
\* The block is the one fuseOne makes; text is read from an image when OCR was to be tried.
FusedFrom(in, block) ==
  \E read \in BOOLEAN : (read => MF!ShouldTryOCR(in)) /\ block = MF!FusedBlock(in, read)
FusionBlock == {MF!FusedBlock(in, read) : in \in ModalityInput, read \in BOOLEAN}

FusionInv ==
  /\ inputs \in Seq(ModalityInput) /\ blocks \in Seq(FusionBlock)
  /\ fusion = "parsing" => blocks = <<>>
  /\ fusion = "fusing" => Len(blocks) <= Len(inputs)
  /\ fusion \in {"rendering", "done"} => Len(blocks) = Len(inputs)
  /\ fusion \in {"fusing", "rendering", "done"} =>
       \A i \in 1..Len(blocks) : FusedFrom(inputs[i], blocks[i])
  /\ fusion = "done" => \A i \in 1..Len(blocks) :
       blocks[i].type = "image_ref" => \E p \in parts : p.block = i

LEMMA FusionStarts == MF!Init => FusionInv
BY DEF MF!Init, FusionInv

LEMMA InputsAreTyped ==
  /\ \A kind \in Modalities, keep \in BOOLEAN, mode \in MF!Modes, t \in TablePayload :
       MF!Input(kind, keep, mode, t) \in ModalityInput
  /\ \A header \in BOOLEAN, n \in Nat, k \in Nat : \A m \in {0, k} :
       MF!Table(header, n, m, k) \in TablePayload
  /\ MF!NoTable \in TablePayload
<1>1. "auto" \in MF!Modes
  BY DEF MF!Modes
<1>2. ASSUME NEW kind \in Modalities, NEW keep \in BOOLEAN, NEW mode \in MF!Modes, NEW t \in TablePayload
      PROVE  MF!Input(kind, keep, mode, t) \in ModalityInput
  <2> DEFINE resolved == IF keep \/ kind = "image" THEN mode ELSE "auto"
  <2>1. resolved \in MF!Modes
    BY <1>1
  <2> HIDE DEF resolved
  <2>2. [kind |-> kind, keep |-> keep, table |-> t, mode |-> resolved] \in ModalityInput
    BY <2>1 DEF ModalityInput
  <2> QED  BY <2>2 DEF MF!Input, resolved
<1>3. \A header \in BOOLEAN, n \in Nat, k \in Nat : \A m \in {0, k} :
        MF!Table(header, n, m, k) \in TablePayload
  BY DEF MF!Table, TablePayload
<1>4. MF!NoTable \in TablePayload
  BY <1>3 DEF MF!NoTable
<1> QED  BY <1>2, <1>3, <1>4

LEMMA ParsedFileIsTyped ==
  ASSUME FusionInv, MF!ParseFile
  PROVE  inputs' \in Seq(ModalityInput)
<1>1. inputs \in Seq(ModalityInput)
  BY DEF FusionInv
<1>2. PICK mode \in MF!Modes, keep \in BOOLEAN :
        \/ \E kind \in {"text", "audio", "pdf", "image"} :
             inputs' = Append(inputs, MF!Input(kind, keep, mode, MF!NoTable))
        \/ \E n \in 0..MaxTableSize, limit \in 1..MaxTableSize :
             inputs' = Append(inputs, MF!Input("table", keep, mode, MF!ParseTable(n, limit)))
        \/ \E charts \in 0..1, header \in BOOLEAN, n \in 1..MaxTableSize :
             \E total \in {0} \cup n..MaxTableSize :
               inputs' = inputs \o MF!ExpandPDF(charts, mode, header, n, total)
  BY DEF MF!ParseFile
<1>3. ASSUME NEW kind \in {"text", "audio", "pdf", "image"},
             inputs' = Append(inputs, MF!Input(kind, keep, mode, MF!NoTable))
      PROVE  inputs' \in Seq(ModalityInput)
  <2>1. kind \in Modalities
    BY DEF Modalities
  <2>2. MF!Input(kind, keep, mode, MF!NoTable) \in ModalityInput
    BY <2>1, InputsAreTyped
  <2> QED  BY <1>1, <1>3, <2>2
<1>4. ASSUME NEW n \in 0..MaxTableSize, NEW limit \in 1..MaxTableSize,
             inputs' = Append(inputs, MF!Input("table", keep, mode, MF!ParseTable(n, limit)))
      PROVE  inputs' \in Seq(ModalityInput)
  <2>1. MF!Least(n, limit) \in Nat /\ n \in Nat
    BY DEF MF!Least
  <2>2. MF!ParseTable(n, limit) \in TablePayload
    BY <2>1, InputsAreTyped DEF MF!ParseTable
  <2>3. "table" \in Modalities
    BY DEF Modalities
  <2>4. MF!Input("table", keep, mode, MF!ParseTable(n, limit)) \in ModalityInput
    BY <2>2, <2>3, InputsAreTyped
  <2> QED  BY <1>1, <1>4, <2>4
<1>5. ASSUME NEW charts \in 0..1, NEW header \in BOOLEAN, NEW n \in 1..MaxTableSize,
             NEW total \in {0} \cup n..MaxTableSize,
             inputs' = inputs \o MF!ExpandPDF(charts, mode, header, n, total)
      PROVE  inputs' \in Seq(ModalityInput)
  <2> DEFINE text == MF!Input("pdf", FALSE, mode, MF!NoTable)
             chart == MF!Input("image", TRUE, mode, MF!NoTable)
             size == IF total = 0 THEN n ELSE total
             table == MF!Input("table", FALSE, mode, MF!Table(header, n, total, size))
  <2>1. text \in ModalityInput /\ chart \in ModalityInput
    BY InputsAreTyped DEF Modalities
  <2>2. MF!Table(header, n, total, size) \in TablePayload
    <3>1. n \in Nat /\ size \in Nat /\ total \in {0, size}
      OBVIOUS
    <3> QED  BY <3>1, InputsAreTyped
  <2>3. table \in ModalityInput
    BY <2>2, InputsAreTyped DEF Modalities
  <2>4. MF!ExpandPDF(charts, mode, header, n, total) =
          <<text>> \o [i \in 1..charts |-> chart] \o <<table>>
    BY DEF MF!ExpandPDF
  <2> HIDE DEF text, chart, table
  <2>5. charts \in Nat
    OBVIOUS
  <2>6. [i \in 1..charts |-> chart] \in Seq(ModalityInput)
    BY <2>1, <2>5
  <2>7. <<text>> \in Seq(ModalityInput) /\ <<table>> \in Seq(ModalityInput)
    BY <2>1, <2>3
  <2> QED  BY <1>1, <1>5, <2>4, <2>6, <2>7
<1> QED  BY <1>2, <1>3, <1>4, <1>5

LEMMA MarkKeepsFusion == ASSUME FusionInv, MF!MarkCharts PROVE FusionInv'
<1>1. PICK critical : inputs' = [i \in DOMAIN inputs |-> [inputs[i] EXCEPT !.keep = @ \/ i \in critical]]
  BY DEF MF!MarkCharts
<1>2. \A in \in ModalityInput, k \in BOOLEAN : [in EXCEPT !.keep = k] \in ModalityInput
  BY DEF ModalityInput
<1>3. inputs' \in Seq(ModalityInput) /\ Len(inputs') = Len(inputs)
  <2>1. \A i \in 1..Len(inputs) : inputs[i] \in ModalityInput /\ inputs[i].keep \in BOOLEAN
    <3>1. \A in \in ModalityInput : in.keep \in BOOLEAN
      BY DEF ModalityInput
    <3>2. \A i \in 1..Len(inputs) : inputs[i] \in ModalityInput
      BY DEF FusionInv
    <3> QED  BY <3>1, <3>2
  <2>2. \A i \in 1..Len(inputs) : [inputs[i] EXCEPT !.keep = @ \/ i \in critical] \in ModalityInput
    BY <1>2, <2>1
  <2>3. DOMAIN inputs = 1..Len(inputs) /\ Len(inputs) \in Nat
    BY DEF FusionInv
  <2> DEFINE Marked(i) == [inputs[i] EXCEPT !.keep = @ \/ i \in critical]
  <2>4. inputs' = [i \in 1..Len(inputs) |-> Marked(i)]
    BY <1>1, <2>3
  <2>5. \A i \in 1..Len(inputs) : Marked(i) \in ModalityInput
    BY <2>2
  <2> HIDE DEF Marked
  <2> QED  BY <2>3, <2>4, <2>5
<1>4. fusion = "parsing" /\ fusion' = "fusing" /\ blocks' = blocks
  BY DEF MF!MarkCharts
<1> QED  BY <1>3, <1>4 DEF FusionInv

\* The next input is fused into the next block.
LEMMA FuseKeepsFusion == ASSUME FusionInv, MF!FuseInput PROVE FusionInv'
<1> DEFINE in == inputs[Len(blocks) + 1]
<1>1. PICK read \in (IF MF!Viewed(in) /\ MF!ShouldTryOCR(in) /\ ocr THEN BOOLEAN ELSE {FALSE}) :
        blocks' = Append(blocks, MF!FusedBlock(in, read))
  BY Zenon DEF MF!FuseInput
<1>2. /\ fusion = "fusing" /\ fusion' = fusion /\ inputs' = inputs /\ ocr' = ocr
      /\ Len(blocks) < Len(inputs)
  BY Zenon DEF MF!FuseInput
<1>3. blocks' = Append(blocks, MF!FusedBlock(in, read))
  BY <1>1
<1>4. blocks \in Seq(FusionBlock) /\ Len(blocks) \in Nat /\ in \in ModalityInput
  BY <1>2 DEF FusionInv
<1>5. read \in BOOLEAN /\ (read => MF!ShouldTryOCR(in))
  BY <1>1
<1> HIDE DEF in
<1> DEFINE new == MF!FusedBlock(in, read)
<1>6. new \in FusionBlock /\ FusedFrom(in, new)
  BY <1>4, <1>5 DEF FusionBlock, FusedFrom
<1> HIDE DEF new
<1>7. /\ blocks' \in Seq(FusionBlock) /\ Len(blocks') = Len(blocks) + 1
      /\ blocks'[Len(blocks) + 1] = new /\ \A i \in 1..Len(blocks) : blocks'[i] = blocks[i]
  BY <1>3, <1>4, <1>6 DEF new
<1>8. \A i \in 1..Len(blocks) : FusedFrom(inputs[i], blocks[i])
  BY <1>2 DEF FusionInv
<1>9. \A i \in 1..Len(blocks') : FusedFrom(inputs[i], blocks'[i])
  BY <1>4, <1>6, <1>7, <1>8 DEF in
<1>10. \A i \in 1..Len(blocks') : FusedFrom(inputs[i], blocks[i])'
  BY <1>2, <1>9 DEF FusedFrom, MF!ShouldTryOCR
<1>11. Len(blocks') <= Len(inputs')
  BY <1>2, <1>4, <1>7 DEF FusionInv
<1>12. inputs' \in Seq(ModalityInput)
  BY <1>2 DEF FusionInv
<1> QED  BY <1>2, <1>7, <1>10, <1>11, <1>12 DEF FusionInv

LEMMA FusionSteps == ASSUME FusionInv, [MF!Next]_fusionVars PROVE FusionInv'
<1> USE DEF FusedFrom, MF!ShouldTryOCR
<1>1. CASE MF!ParseFile
  <2>1. fusion = "parsing" /\ fusion' = fusion /\ blocks' = blocks
    BY <1>1 DEF MF!ParseFile
  <2> QED  BY <1>1, <2>1, ParsedFileIsTyped DEF FusionInv
<1>2. CASE MF!FusionFails
  <2>1. fusion' = "failed" /\ blocks' = blocks /\ inputs' = inputs
    BY <1>2 DEF MF!FusionFails
  <2> QED  BY <2>1 DEF FusionInv
<1>3. CASE MF!FuseDone
  <2>1. /\ fusion = "fusing" /\ fusion' = "rendering" /\ blocks' = blocks /\ inputs' = inputs
        /\ ocr' = ocr /\ Len(blocks) = Len(inputs)
    BY <1>3 DEF MF!FuseDone
  <2> QED  BY <2>1 DEF FusionInv
<1>4. CASE MF!Render
  <2>1. /\ fusion = "rendering" /\ fusion' = "done" /\ blocks' = blocks /\ inputs' = inputs
        /\ ocr' = ocr
    BY <1>4 DEF MF!Render
  <2>2. \A i \in 1..Len(blocks) : blocks[i].type = "image_ref" => \E p \in parts' : p.block = i
    <3> DEFINE images == {i \in DOMAIN blocks : blocks[i].type = "image_ref"}
    <3>1. PICK readable \in SUBSET images :
            parts' = {[block |-> i, part |-> IF i \in readable THEN "image" ELSE "note"] : i \in images}
      BY <1>4 DEF MF!Render
    <3>2. ASSUME NEW i \in images PROVE \E p \in parts' : p.block = i
      <4> DEFINE p == [block |-> i, part |-> IF i \in readable THEN "image" ELSE "note"]
      <4>1. p \in parts'
        BY <3>1
      <4> QED  BY <4>1
    <3>3. DOMAIN blocks = 1..Len(blocks)
      BY DEF FusionInv
    <3> QED  BY <3>2, <3>3
  <2> QED  BY <2>1, <2>2 DEF FusionInv
<1>5. CASE UNCHANGED fusionVars
  <2>1. /\ fusion' = fusion /\ blocks' = blocks /\ inputs' = inputs /\ ocr' = ocr /\ parts' = parts
    BY <1>5 DEF fusionVars
  <2> QED  BY <2>1 DEF FusionInv
<1> QED  BY <1>1, <1>2, <1>3, <1>4, <1>5, MarkKeepsFusion, FuseKeepsFusion DEF MF!Next

\* What FusedFrom says of one block.
LEMMA BlockTells ==
  ASSUME NEW in \in ModalityInput, NEW block, FusedFrom(in, block)
  PROVE  /\ in.keep /\ in.mode # "ocr" => block.type = "image_ref"
         /\ MF!Tabulated(in) /\ block.rows < in.table.size => block.marked
         /\ block.kind # in.kind => in.keep /\ block.type = "image_ref"
<1>1. PICK read \in BOOLEAN : (read => MF!ShouldTryOCR(in)) /\ block = MF!FusedBlock(in, read)
  BY DEF FusedFrom
<1>2. CASE MF!Viewed(in)
  <2>1. block = IF read THEN MF!Block(in.kind, "text") ELSE MF!Block("image", "image_ref")
    BY <1>1, <1>2 DEF MF!FusedBlock
  <2>2. in.keep /\ in.mode # "ocr" => ~read
    BY <1>1 DEF MF!ShouldTryOCR
  <2>3. ~MF!Tabulated(in)
    BY <1>2 DEF MF!Tabulated, MF!Viewed
  <2>4. read => block.kind = in.kind
    BY <2>1 DEF MF!Block
  <2>5. ~read => block.kind = "image" /\ block.type = "image_ref"
    BY <2>1 DEF MF!Block
  <2>6. in.keep \/ in.kind = "image"
    BY <1>2 DEF MF!Viewed
  <2> QED  BY <2>2, <2>3, <2>4, <2>5, <2>6
<1>3. CASE ~MF!Viewed(in) /\ in.kind = "table"
  <2> DEFINE table == in.table  top == MF!Least(table.rows, MaxRows)
  <2>1. block = MF!Markdown(table)
    BY <1>1, <1>3 DEF MF!FusedBlock
  <2>2. block.kind = "table"
    BY <2>1 DEF MF!Markdown, MF!Block
  <2>3. table.header => block.rows = top /\ block.marked = (table.total > top)
    BY <2>1 DEF MF!Markdown, MF!Block
  <2>4. table \in TablePayload
    BY DEF ModalityInput
  <2>5. MF!Tabulated(in) => table.header /\ table.total = table.size
    BY <2>4 DEF MF!Tabulated, TablePayload
  <2>6. ~in.keep
    BY <1>3 DEF MF!Viewed
  <2> HIDE DEF top
  <2> QED  BY <1>3, <2>2, <2>3, <2>4, <2>5, <2>6
<1>4. CASE ~MF!Viewed(in) /\ in.kind # "table"
  <2>1. block = MF!Block(in.kind, "text")
    BY <1>1, <1>4 DEF MF!FusedBlock
  <2>2. block.kind = in.kind /\ ~in.keep /\ ~MF!Tabulated(in)
    BY <1>4, <2>1 DEF MF!Block, MF!Viewed, MF!Tabulated
  <2> QED  BY <2>2
<1> QED  BY <1>2, <1>3, <1>4

LEMMA FusionShows == FusionInv => MF!NothingSilentlyDropped
<1> SUFFICES ASSUME FusionInv, fusion = "done", NEW i \in DOMAIN inputs
             PROVE  /\ inputs[i].keep /\ inputs[i].mode # "ocr" => \E p \in parts : p.block = i
                    /\ blocks[i].type = "image_ref" => \E p \in parts : p.block = i
                    /\ MF!Tabulated(inputs[i]) /\ blocks[i].rows < inputs[i].table.size =>
                         blocks[i].marked
                    /\ blocks[i].kind # inputs[i].kind =>
                         inputs[i].keep /\ blocks[i].type = "image_ref"
  BY DEF MF!NothingSilentlyDropped
<1>1. i \in 1..Len(blocks) /\ inputs[i] \in ModalityInput
  BY DEF FusionInv
<1>2. FusedFrom(inputs[i], blocks[i])
  BY <1>1 DEF FusionInv
<1>3. blocks[i].type = "image_ref" => \E p \in parts : p.block = i
  BY <1>1 DEF FusionInv
<1> QED  BY <1>1, <1>2, <1>3, BlockTells

FusionTypes ==
  /\ \E S : trace \in Seq(S)
  /\ Len(trace) = Len(blocks) /\ Len(blocks) <= Len(inputs) /\ files \in 0..MaxFiles
  /\ fusion \in {"parsing", "fusing", "rendering", "done", "failed"}

LEMMA FusionTypesStart == MF!Init => FusionTypes
<1> SUFFICES ASSUME MF!Init PROVE FusionTypes
  OBVIOUS
<1>1. trace = <<>> /\ blocks = <<>> /\ inputs = <<>> /\ files = 0 /\ fusion = "parsing"
  BY DEF MF!Init
<1>2. Len(trace) = 0 /\ Len(blocks) = 0 /\ Len(inputs) = 0 /\ trace \in Seq({})
  BY <1>1
<1> QED  BY <1>1, <1>2, FusionAssumption DEF FusionTypes

LEMMA FusionTypesStep ==
  ASSUME FusionInv, FusionTypes, [MF!Next]_fusionVars PROVE FusionTypes'
<1>1. FusionInv'
  BY FusionSteps
<1>2. /\ Len(blocks) \in Nat /\ Len(inputs) \in Nat /\ Len(inputs') \in Nat
  BY <1>1, LenProperties DEF FusionInv
<1>3. CASE UNCHANGED fusionVars
  BY <1>3 DEF fusionVars, FusionTypes
<1>4. CASE MF!ParseFile
  <2>1. files < MaxFiles /\ files' = files + 1 /\ fusion = "parsing" /\ UNCHANGED <<blocks, trace, fusion>>
    BY <1>4 DEF MF!ParseFile
  <2>2. Len(blocks) = 0
    BY <2>1 DEF FusionInv
  <2> QED  BY <1>2, <2>1, <2>2, FusionAssumption DEF FusionTypes
<1>5. CASE MF!MarkCharts
  <2>1. PICK critical : inputs' = [i \in DOMAIN inputs |-> [inputs[i] EXCEPT !.keep = @ \/ i \in critical]]
    BY <1>5 DEF MF!MarkCharts
  <2>2. DOMAIN inputs' = DOMAIN inputs
    BY <2>1
  <2>3. Len(inputs') = Len(inputs)
    <3>1. inputs \in Seq(ModalityInput) /\ inputs' \in Seq(ModalityInput)
      BY <1>1 DEF FusionInv
    <3>2. DOMAIN inputs' = 1..Len(inputs') /\ DOMAIN inputs = 1..Len(inputs)
      BY <3>1, LenProperties
    <3>3. 1..Len(inputs') = 1..Len(inputs)
      BY Zenon, <2>2, <3>2
    <3> QED  BY <1>2, <3>3
  <2>4. fusion' = "fusing" /\ UNCHANGED <<files, blocks, trace>>
    BY <1>5 DEF MF!MarkCharts
  <2> QED  BY <2>3, <2>4 DEF FusionTypes
<1>6. CASE MF!FusionFails \/ MF!FuseDone \/ MF!Render
  BY <1>6 DEF MF!FusionFails, MF!FuseDone, MF!Render, FusionTypes
<1>7. CASE MF!FuseInput
  <2>1. /\ Len(blocks) < Len(inputs) /\ UNCHANGED <<files, inputs, fusion>>
        /\ \E b : blocks' = Append(blocks, b)
        /\ \E e : trace' = Append(trace, e)
    BY <1>7, Zenon DEF MF!FuseInput
  <2>2. PICK b : blocks' = Append(blocks, b)
    BY <2>1
  <2>3. PICK e : trace' = Append(trace, e)
    BY <2>1
  <2>4. Len(blocks') = Len(blocks) + 1
    <3>1. blocks \in Seq(FusionBlock \cup {b}) /\ b \in FusionBlock \cup {b}
      BY DEF FusionInv
    <3> QED  BY <2>2, <3>1, AppendProperties
  <2>5. PICK S : trace \in Seq(S)
    BY DEF FusionTypes
  <2>6. trace' \in Seq(S \cup {e}) /\ Len(trace') = Len(trace) + 1
    <3>1. trace \in Seq(S \cup {e}) /\ e \in S \cup {e}
      BY <2>5
    <3> QED  BY <2>3, <3>1, AppendProperties
  <2> QED  BY <1>2, <2>1, <2>4, <2>6 DEF FusionTypes
<1> QED  BY <1>3, <1>4, <1>5, <1>6, <1>7 DEF MF!Next

LEMMA FusionTypesShow == FusionTypes => MF!TypeOK
BY DEF FusionTypes, MF!TypeOK

---------------------------------------------------------------------------
(* memory/failure_tracking.                                                *)

VARIABLES row, journal, lastVerdict, recalls
failures == <<row, journal, lastVerdict, recalls>>
FJ == INSTANCE FailureJournal

EntryJson == [status : FJ!Status \cup {"none"}, reviewed : BOOLEAN, recalled : Nat]
FailureRow == [column : FJ!Status \cup {"none"}, json : EntryJson]

\* The copy of an entry that a call holds may be old, but the status column is only
\* written with the verdict.
FailuresInv ==
  /\ row \in [Entries -> FailureRow]
  /\ lastVerdict \in [Entries -> FJ!Status \cup {"none"}] /\ DOMAIN journal = Journals
  /\ \A j \in Journals :
       /\ journal[j].json \in EntryJson /\ journal[j].todo \subseteq Entries
       /\ journal[j].op = "review" => journal[j].json.status \in FJ!Status
  /\ FJ!RecallFollowsReview

LEMMA NothingHeld ==
  /\ FJ!Idle.json \in EntryJson /\ FJ!Idle.op = "idle" /\ FJ!Idle.todo = {}
  /\ FJ!NoRow \in FailureRow
BY DEF FJ!Idle, FJ!NoRow, EntryJson, FailureRow, FJ!Status

LEMMA FailuresStart == FJ!Init => FailuresInv
<1> SUFFICES ASSUME FJ!Init PROVE FailuresInv
  OBVIOUS
<1>1. /\ row = [f \in Entries |-> FJ!NoRow] /\ lastVerdict = [f \in Entries |-> "none"]
      /\ journal = [j \in Journals |-> FJ!Idle]
  BY DEF FJ!Init
<1>2. FJ!NoRow.column = "none"
  BY DEF FJ!NoRow
<1>3. FJ!RecallFollowsReview
  BY <1>1, <1>2 DEF FJ!RecallFollowsReview
<1> QED  BY <1>1, <1>3, NothingHeld DEF FailuresInv

\* A call of journal j goes on or ends, and writes the row of no entry.
LEMMA OnlyTheJournal ==
  ASSUME FailuresInv, NEW j \in Journals, NEW call,
         journal' = [journal EXCEPT ![j] = call], row' = row, lastVerdict' = lastVerdict,
         call.json \in EntryJson, call.todo \subseteq Entries,
         call.op = "review" => call.json.status \in FJ!Status
  PROVE  FailuresInv'
<1>1. \A i \in Journals : i # j => journal'[i] = journal[i]
  BY DEF FailuresInv
<1>2. journal'[j] = call /\ DOMAIN journal' = Journals
  BY DEF FailuresInv
<1> QED  BY <1>1, <1>2 DEF FailuresInv, FJ!RecallFollowsReview

\* The row of entry f is written: its column with the verdict, or only its JSON.
LEMMA OnlyTheRow ==
  ASSUME FailuresInv, NEW f, NEW column \in FJ!Status \cup {"none"}, NEW json \in EntryJson,
         row' = [row EXCEPT ![f] = [column |-> column, json |-> json]],
         lastVerdict' = [lastVerdict EXCEPT ![f] = column]
  PROVE  /\ row' \in [Entries -> FailureRow] /\ lastVerdict' \in [Entries -> FJ!Status \cup {"none"}]
         /\ FJ!RecallFollowsReview'
<1>1. [column |-> column, json |-> json] \in FailureRow
  BY DEF FailureRow
<1>2. row \in [Entries -> FailureRow] /\ lastVerdict \in [Entries -> FJ!Status \cup {"none"}]
  BY DEF FailuresInv
<1>3. row' \in [Entries -> FailureRow] /\ lastVerdict' \in [Entries -> FJ!Status \cup {"none"}]
  BY <1>1, <1>2
<1>4. ASSUME NEW g \in Entries PROVE row'[g].column = lastVerdict'[g]
  <2>1. CASE g = f
    BY <1>2, <2>1
  <2>2. CASE g # f
    BY <1>2, <2>2 DEF FailuresInv, FJ!RecallFollowsReview
  <2> QED  BY <2>1, <2>2
<1> QED  BY <1>3, <1>4 DEF FJ!RecallFollowsReview

LEMMA FailuresStep == ASSUME FailuresInv, [FJ!Next]_failures PROVE FailuresInv'
<1>1. /\ row \in [Entries -> FailureRow] /\ DOMAIN journal = Journals
      /\ lastVerdict \in [Entries -> FJ!Status \cup {"none"}] /\ FJ!RecallFollowsReview
      /\ \A i \in Journals : /\ journal[i].json \in EntryJson /\ journal[i].todo \subseteq Entries
                             /\ journal[i].op = "review" => journal[i].json.status \in FJ!Status
  BY DEF FailuresInv
<1>2. ASSUME NEW j \in Journals, NEW f \in Entries, FJ!Record(j, f) PROVE FailuresInv'
  <2>1. PICK s \in FJ!Status, r \in BOOLEAN :
          /\ row' = [row EXCEPT ![f] = [column |-> s,
                       json |-> [status |-> s, reviewed |-> r, recalled |-> 0]]]
          /\ lastVerdict' = [lastVerdict EXCEPT ![f] = s]
    BY <1>2 DEF FJ!Record
  <2>2. [status |-> s, reviewed |-> r, recalled |-> 0] \in EntryJson
    BY DEF EntryJson
  <2>3. journal' = journal
    BY <1>2 DEF FJ!Record
  <2> QED  BY <1>1, <2>1, <2>2, <2>3, OnlyTheRow DEF FailuresInv
<1>3. ASSUME NEW j \in Journals, NEW f \in Entries, FJ!ReviewGet(j, f) PROVE FailuresInv'
  <2>1. PICK s \in FJ!Status \ {"draft"}, r \in BOOLEAN :
          journal' = [journal EXCEPT ![j] = [op |-> "review", entry |-> f, todo |-> {},
                        json |-> [row[f].json EXCEPT !.status = s, !.reviewed = @ \/ r]]]
    BY Zenon, <1>3 DEF FJ!ReviewGet
  <2> DEFINE json == [row[f].json EXCEPT !.status = s, !.reviewed = @ \/ r]
             call == [op |-> "review", entry |-> f, todo |-> {}, json |-> json]
  <2>2. row[f].json \in EntryJson
    BY <1>1 DEF FailureRow
  <2>3. row[f].json.reviewed \/ r \in BOOLEAN
    BY <2>2 DEF EntryJson
  <2>4. json \in EntryJson /\ json.status = s
    BY <2>2, <2>3 DEF EntryJson
  <2>5. call.json = json /\ call.todo = {} /\ journal' = [journal EXCEPT ![j] = call]
    BY <2>1
  <2>6. row' = row /\ lastVerdict' = lastVerdict
    BY <1>3 DEF FJ!ReviewGet
  <2> HIDE DEF json, call
  <2> QED  BY <2>4, <2>5, <2>6, OnlyTheJournal
<1>4. ASSUME NEW j \in Journals, FJ!ReviewUpdate(j) PROVE FailuresInv'
  <2> DEFINE new == journal[j].json
  <2>1. /\ row' = [row EXCEPT ![journal[j].entry] = [column |-> new.status, json |-> new]]
        /\ lastVerdict' = [lastVerdict EXCEPT ![journal[j].entry] = new.status]
        /\ journal' = [journal EXCEPT ![j] = FJ!Idle] /\ journal[j].op = "review"
    BY <1>4 DEF FJ!ReviewUpdate
  <2>2. new \in EntryJson /\ new.status \in FJ!Status
    BY <1>1, <2>1
  <2>3. /\ row' \in [Entries -> FailureRow] /\ lastVerdict' \in [Entries -> FJ!Status \cup {"none"}]
        /\ FJ!RecallFollowsReview'
    BY <2>1, <2>2, OnlyTheRow
  <2>4. /\ DOMAIN journal' = Journals /\ journal'[j] = FJ!Idle
        /\ \A i \in Journals : i # j => journal'[i] = journal[i]
    BY <1>1, <2>1
  <2> QED  BY <1>1, <2>3, <2>4, NothingHeld DEF FailuresInv
<1>5. ASSUME NEW j \in Journals, FJ!SearchRecall(j) PROVE FailuresInv'
  <2>1. PICK matches \in SUBSET Entries :
          journal' = [journal EXCEPT ![j] = [FJ!Idle EXCEPT !.op = "recall", !.todo = matches]]
    BY <1>5 DEF FJ!SearchRecall, FJ!Approved
  <2> DEFINE call == [FJ!Idle EXCEPT !.op = "recall", !.todo = matches]
  <2>2. call.json = FJ!Idle.json /\ call.op = "recall" /\ call.todo = matches
    BY DEF FJ!Idle
  <2>3. row' = row /\ lastVerdict' = lastVerdict
    BY <1>5 DEF FJ!SearchRecall
  <2> HIDE DEF call
  <2> QED  BY <2>1, <2>2, <2>3, NothingHeld, OnlyTheJournal DEF call
<1>6. ASSUME NEW j \in Journals, FJ!IncrementGet(j) PROVE FailuresInv'
  <2>1. PICK f \in journal[j].todo :
          journal' = [journal EXCEPT ![j] = [op |-> "increment", entry |-> f,
             todo |-> journal[j].todo \ {f}, json |-> [row[f].json EXCEPT !.recalled = @ + 1]]]
    BY <1>6 DEF FJ!IncrementGet
  <2> DEFINE json == [row[f].json EXCEPT !.recalled = @ + 1]
             call == [op |-> "increment", entry |-> f, todo |-> journal[j].todo \ {f}, json |-> json]
  <2>2. f \in Entries /\ journal[j].todo \subseteq Entries
    BY <1>1
  <2>3. row[f].json \in EntryJson
    BY <1>1, <2>2 DEF FailureRow
  <2>4. json \in EntryJson
    BY <2>3 DEF EntryJson
  <2>5. call.json = json /\ call.todo \subseteq Entries /\ call.op = "increment"
    BY <2>2
  <2>6. row' = row /\ lastVerdict' = lastVerdict /\ journal' = [journal EXCEPT ![j] = call]
    BY <1>6, <2>1 DEF FJ!IncrementGet
  <2> HIDE DEF json, call
  <2> QED  BY <2>4, <2>5, <2>6, OnlyTheJournal
<1>7. ASSUME NEW j \in Journals, FJ!IncrementWrite(j) PROVE FailuresInv'
  <2> DEFINE f == journal[j].entry
             call == [FJ!Idle EXCEPT !.op = "recall", !.todo = journal[j].todo]
  <2>1. /\ row' = [row EXCEPT ![f].json = journal[j].json] /\ lastVerdict' = lastVerdict
        /\ journal' = [journal EXCEPT ![j] = call]
    BY <1>7 DEF FJ!IncrementWrite
  <2>2. journal[j].json \in EntryJson /\ journal[j].todo \subseteq Entries
    BY <1>1
  <2>3. call.json = FJ!Idle.json /\ call.op = "recall" /\ call.todo = journal[j].todo
    BY DEF FJ!Idle
  <2>4. row' \in [Entries -> FailureRow] /\ FJ!RecallFollowsReview'
    <3>1. CASE f \in Entries
      <4>1. row[f] \in FailureRow /\ row[f].column = lastVerdict[f]
        BY <1>1, <3>1 DEF FJ!RecallFollowsReview
      <4>2. [row[f] EXCEPT !.json = journal[j].json] =
              [column |-> row[f].column, json |-> journal[j].json]
        BY <4>1 DEF FailureRow
      <4>3. row' = [row EXCEPT ![f] = [column |-> row[f].column, json |-> journal[j].json]]
        BY <2>1, <4>2
      <4>4. lastVerdict' = [lastVerdict EXCEPT ![f] = row[f].column]
        BY <1>1, <2>1, <4>1
      <4>5. row[f].column \in FJ!Status \cup {"none"}
        BY <4>1 DEF FailureRow
      <4> HIDE DEF f
      <4> QED  BY <2>2, <4>3, <4>4, <4>5, OnlyTheRow
    <3>2. CASE f \notin Entries
      <4>1. row' = row
        BY <1>1, <2>1, <3>2
      <4> QED  BY <1>1, <2>1, <4>1 DEF FJ!RecallFollowsReview
    <3> QED  BY <3>1, <3>2
  <2> HIDE DEF call
  <2>5. /\ DOMAIN journal' = Journals /\ journal'[j] = call
        /\ \A i \in Journals : i # j => journal'[i] = journal[i]
    BY <1>1, <2>1
  <2>6. ASSUME NEW i \in Journals
        PROVE  /\ journal'[i].json \in EntryJson /\ journal'[i].todo \subseteq Entries
               /\ journal'[i].op = "review" => journal'[i].json.status \in FJ!Status
    <3>1. CASE i = j
      BY <2>2, <2>3, <2>5, <3>1, NothingHeld
    <3>2. CASE i # j
      BY <1>1, <2>5, <3>2
    <3> QED  BY <3>1, <3>2
  <2> QED  BY <1>1, <2>1, <2>4, <2>5, <2>6 DEF FailuresInv
<1>8. ASSUME NEW j \in Journals, FJ!Return(j) PROVE FailuresInv'
  BY <1>8, NothingHeld, OnlyTheJournal DEF FJ!Return
<1>9. CASE UNCHANGED failures
  BY <1>9 DEF failures, FailuresInv, FJ!RecallFollowsReview
<1> QED  BY <1>2, <1>3, <1>4, <1>5, <1>6, <1>7, <1>8, <1>9 DEF FJ!Next

LEMMA FailuresShow == FailuresInv => FJ!RecallFollowsReview
BY DEF FailuresInv

\* The recalls that still have to count entry f.  What a row or a call says of an entry and what
\* they will add is never more than the recalls that were started, and only what is recorded is
\* recalled.
Waiting(ops, f) == {j \in Journals : f \in ops[j].todo}
CallFits(rows_, ops, n, call) ==
  /\ \A f \in call.todo : rows_[f].column # "none"
  /\ call.op \in {"review", "increment"} =>
       /\ call.entry \in Entries /\ call.json.recalled \in Nat
       /\ call.json.recalled + Cardinality(Waiting(ops, call.entry)) <= n
  /\ call.op = "increment" => rows_[call.entry].column # "none"
CountsFit(rows_, ops, n) ==
  /\ rows_ \in [Entries -> FailureRow] /\ DOMAIN ops = Journals /\ n \in Nat
  /\ \A f \in Entries : /\ rows_[f].json.recalled + Cardinality(Waiting(ops, f)) <= n
                        /\ rows_[f].column = "none" => rows_[f] = FJ!NoRow
  /\ \A j \in Journals : CallFits(rows_, ops, n, ops[j])
FailureTypes == CountsFit(row, journal, recalls) /\ recalls <= MaxRecalls

LEMMA WaitingIsFinite ==
  ASSUME NEW ops, NEW f
  PROVE  IsFiniteSet(Waiting(ops, f)) /\ Cardinality(Waiting(ops, f)) \in Nat
<1>1. Waiting(ops, f) \subseteq Journals
  BY DEF Waiting
<1> QED  BY <1>1, FailuresAssumption, FS_Subset, FS_CardinalityType

\* An entry is written with a count that fits.
LEMMA RowFits ==
  ASSUME NEW rows_, NEW ops, NEW n, CountsFit(rows_, ops, n),
         NEW f \in Entries, NEW new \in FailureRow, new.column # "none",
         new.json.recalled + Cardinality(Waiting(ops, f)) <= n
  PROVE  CountsFit([rows_ EXCEPT ![f] = new], ops, n)
<1> DEFINE rows2 == [rows_ EXCEPT ![f] = new]
<1>1. /\ rows_ \in [Entries -> FailureRow] /\ DOMAIN ops = Journals /\ n \in Nat
      /\ \A g \in Entries : /\ rows_[g].json.recalled + Cardinality(Waiting(ops, g)) <= n
                            /\ rows_[g].column = "none" => rows_[g] = FJ!NoRow
      /\ \A j \in Journals : CallFits(rows_, ops, n, ops[j])
  BY DEF CountsFit
<1>2. /\ rows2 \in [Entries -> FailureRow] /\ rows2[f] = new
      /\ \A g : g # f => rows2[g] = rows_[g]
  <2>1. rows2 \in [Entries -> FailureRow] /\ rows2[f] = new
    BY <1>1
  <2>2. ASSUME NEW g, g # f PROVE rows2[g] = rows_[g]
    <3>1. CASE g \in Entries
      BY <1>1, <2>2, <3>1
    <3>2. CASE g \notin Entries
      BY <1>1, <2>2, <3>2
    <3> QED  BY <3>1, <3>2
  <2> QED  BY <2>1, <2>2
<1> HIDE DEF rows2
<1>3. \A g : rows_[g].column # "none" => rows2[g].column # "none"
  BY <1>2
<1>4. \A j \in Journals : CallFits(rows2, ops, n, ops[j])
  BY <1>1, <1>3 DEF CallFits
<1>5. \A g \in Entries : /\ rows2[g].json.recalled + Cardinality(Waiting(ops, g)) <= n
                         /\ rows2[g].column = "none" => rows2[g] = FJ!NoRow
  BY <1>1, <1>2
<1> QED  BY <1>1, <1>2, <1>4, <1>5 DEF CountsFit, rows2

\* A call goes on with less to count.
LEMMA CallGoesOn ==
  ASSUME NEW rows_, NEW ops, NEW n, CountsFit(rows_, ops, n),
         NEW j \in Journals, NEW call, call.todo \subseteq ops[j].todo,
         CallFits(rows_, [ops EXCEPT ![j] = call], n, call)
  PROVE  CountsFit(rows_, [ops EXCEPT ![j] = call], n)
<1> DEFINE ops2 == [ops EXCEPT ![j] = call]
<1>1. /\ rows_ \in [Entries -> FailureRow] /\ DOMAIN ops = Journals /\ n \in Nat
      /\ \A g \in Entries : /\ rows_[g].json.recalled + Cardinality(Waiting(ops, g)) <= n
                            /\ rows_[g].column = "none" => rows_[g] = FJ!NoRow
      /\ \A i \in Journals : CallFits(rows_, ops, n, ops[i])
  BY DEF CountsFit
<1>2. DOMAIN ops2 = Journals /\ ops2[j] = call /\ \A i \in Journals : i # j => ops2[i] = ops[i]
  BY <1>1
<1> HIDE DEF ops2
<1>3. ASSUME NEW g PROVE Cardinality(Waiting(ops2, g)) <= Cardinality(Waiting(ops, g))
  <2>1. Waiting(ops2, g) \subseteq Waiting(ops, g)
    <3> SUFFICES ASSUME NEW i \in Journals, g \in ops2[i].todo PROVE g \in ops[i].todo
      BY DEF Waiting
    <3> QED  BY <1>2
  <2> QED  BY <2>1, WaitingIsFinite, FS_Subset
<1>4. \A g \in Entries : rows_[g].json.recalled + Cardinality(Waiting(ops2, g)) <= n
  <2> TAKE g \in Entries
  <2>1. rows_[g].json.recalled \in Nat
    BY <1>1 DEF FailureRow, EntryJson
  <2>2. Cardinality(Waiting(ops2, g)) \in Nat /\ Cardinality(Waiting(ops, g)) \in Nat
    BY WaitingIsFinite
  <2> QED  BY <1>1, <1>3, <2>1, <2>2
<1>5. ASSUME NEW i \in Journals, i # j PROVE CallFits(rows_, ops2, n, ops2[i])
  <2>1. CallFits(rows_, ops, n, ops[i]) /\ ops2[i] = ops[i]
    BY <1>1, <1>2, <1>5
  <2>2. ASSUME ops[i].op \in {"review", "increment"}
        PROVE  ops[i].json.recalled + Cardinality(Waiting(ops2, ops[i].entry)) <= n
    <3>1. /\ ops[i].json.recalled \in Nat
          /\ ops[i].json.recalled + Cardinality(Waiting(ops, ops[i].entry)) <= n
      BY <2>1, <2>2 DEF CallFits
    <3>2. /\ Cardinality(Waiting(ops2, ops[i].entry)) \in Nat
          /\ Cardinality(Waiting(ops, ops[i].entry)) \in Nat
          /\ Cardinality(Waiting(ops2, ops[i].entry)) <= Cardinality(Waiting(ops, ops[i].entry))
      BY <1>3, WaitingIsFinite
    <3> QED  BY <1>1, <3>1, <3>2
  <2> QED  BY <2>1, <2>2 DEF CallFits
<1>6. \A i \in Journals : CallFits(rows_, ops2, n, ops2[i])
  BY <1>2, <1>5 DEF ops2
<1> QED  BY <1>1, <1>2, <1>4, <1>6 DEF CountsFit, ops2

\* A recall starts: one more for each entry it matches, and one more recall.
LEMMA RecallStartsCount ==
  ASSUME CountsFit(row, journal, recalls), NEW j \in Journals, journal[j] = FJ!Idle,
         NEW found \in SUBSET FJ!Approved
  PROVE  CountsFit(row, [journal EXCEPT ![j] = [FJ!Idle EXCEPT !.op = "recall", !.todo = found]], recalls + 1)
<1> DEFINE call == [FJ!Idle EXCEPT !.op = "recall", !.todo = found]
           ops2 == [journal EXCEPT ![j] = call]
<1>1. /\ row \in [Entries -> FailureRow] /\ DOMAIN journal = Journals /\ recalls \in Nat
      /\ \A g \in Entries : /\ row[g].json.recalled + Cardinality(Waiting(journal, g)) <= recalls
                            /\ row[g].column = "none" => row[g] = FJ!NoRow
      /\ \A i \in Journals : CallFits(row, journal, recalls, journal[i])
  BY DEF CountsFit
<1>2. call.op = "recall" /\ call.todo = found
  BY DEF FJ!Idle
<1> HIDE DEF call
<1>3. DOMAIN ops2 = Journals /\ ops2[j] = call /\ \A i \in Journals : i # j => ops2[i] = journal[i]
  BY <1>1
<1> HIDE DEF ops2
<1>4. ASSUME NEW g
      PROVE  /\ Cardinality(Waiting(ops2, g)) <= Cardinality(Waiting(journal, g)) + 1
             /\ Cardinality(Waiting(ops2, g)) \in Nat /\ Cardinality(Waiting(journal, g)) \in Nat
  <2>1. Waiting(ops2, g) \subseteq Waiting(journal, g) \cup {j}
    BY <1>3 DEF Waiting
  <2>2. /\ IsFiniteSet(Waiting(journal, g)) /\ Cardinality(Waiting(journal, g)) \in Nat
        /\ Cardinality(Waiting(ops2, g)) \in Nat
    BY WaitingIsFinite
  <2>3. /\ IsFiniteSet(Waiting(journal, g) \cup {j})
        /\ \/ Cardinality(Waiting(journal, g) \cup {j}) = Cardinality(Waiting(journal, g))
           \/ Cardinality(Waiting(journal, g) \cup {j}) = Cardinality(Waiting(journal, g)) + 1
    BY <2>2, FS_AddElement
  <2>4. Cardinality(Waiting(ops2, g)) <= Cardinality(Waiting(journal, g) \cup {j})
    BY <2>1, <2>3, FS_Subset
  <2> QED  BY <2>2, <2>3, <2>4
<1>5. \A g \in Entries : row[g].json.recalled + Cardinality(Waiting(ops2, g)) <= recalls + 1
  <2> TAKE g \in Entries
  <2>1. row[g].json.recalled \in Nat
    BY <1>1 DEF FailureRow, EntryJson
  <2> QED  BY <1>1, <1>4, <2>1
<1>6. ASSUME NEW i \in Journals, i # j PROVE CallFits(row, ops2, recalls + 1, ops2[i])
  <2>1. CallFits(row, journal, recalls, journal[i]) /\ ops2[i] = journal[i]
    BY <1>1, <1>3, <1>6
  <2>2. ASSUME journal[i].op \in {"review", "increment"}
        PROVE  journal[i].json.recalled + Cardinality(Waiting(ops2, journal[i].entry)) <= recalls + 1
    <3>1. /\ journal[i].json.recalled \in Nat
          /\ journal[i].json.recalled + Cardinality(Waiting(journal, journal[i].entry)) <= recalls
      BY <2>1, <2>2 DEF CallFits
    <3> QED  BY <1>1, <1>4, <3>1
  <2> QED  BY <2>1, <2>2 DEF CallFits
<1>7. CallFits(row, ops2, recalls + 1, call)
  <2>1. \A g \in found : row[g].column # "none"
    BY DEF FJ!Approved
  <2> QED  BY <1>2, <2>1 DEF CallFits
<1>8. \A i \in Journals : CallFits(row, ops2, recalls + 1, ops2[i])
  BY <1>3, <1>6, <1>7
<1>9. recalls + 1 \in Nat
  BY <1>1
<1> QED  BY <1>1, <1>3, <1>5, <1>8, <1>9 DEF CountsFit, ops2, call

LEMMA FailureTypesStart == FJ!Init => FailureTypes
<1> SUFFICES ASSUME FJ!Init PROVE FailureTypes
  OBVIOUS
<1>1. /\ row = [f \in Entries |-> FJ!NoRow] /\ journal = [j \in Journals |-> FJ!Idle] /\ recalls = 0
  BY DEF FJ!Init
<1>2. FJ!NoRow \in FailureRow /\ FJ!NoRow.json.recalled = 0
  BY NothingHeld DEF FJ!NoRow
<1>3. \A f : Waiting(journal, f) = {}
  BY <1>1, NothingHeld DEF Waiting
<1>4. \A f : Cardinality(Waiting(journal, f)) = 0
  BY <1>3, FS_EmptySet
<1>5. \A j \in Journals : CallFits(row, journal, recalls, journal[j])
  BY <1>1, NothingHeld DEF CallFits
<1>6. CountsFit(row, journal, recalls)
  BY <1>1, <1>2, <1>4, <1>5 DEF CountsFit
<1> QED  BY <1>1, <1>6, FailuresAssumption DEF FailureTypes

LEMMA FailureTypesStep == ASSUME FailuresInv, FailureTypes, [FJ!Next]_failures PROVE FailureTypes'
<1>1. /\ row \in [Entries -> FailureRow] /\ DOMAIN journal = Journals /\ recalls \in Nat
      /\ \A f \in Entries : /\ row[f].json.recalled + Cardinality(Waiting(journal, f)) <= recalls
                            /\ row[f].column = "none" => row[f] = FJ!NoRow
      /\ \A j \in Journals : CallFits(row, journal, recalls, journal[j])
      /\ \A j \in Journals : /\ journal[j].json \in EntryJson /\ journal[j].todo \subseteq Entries
                             /\ journal[j].op = "review" => journal[j].json.status \in FJ!Status
  BY DEF FailureTypes, CountsFit, FailuresInv
<1>2. CountsFit(row, journal, recalls) /\ recalls <= MaxRecalls
  BY DEF FailureTypes
<1>3. \A s \in FJ!Status : s # "none"
  BY DEF FJ!Status
<1>4. \A f \in Entries : row[f].json \in EntryJson /\ row[f].json.recalled \in Nat
  BY <1>1 DEF FailureRow, EntryJson
<1>5. ASSUME NEW j \in Journals, NEW f \in Entries, FJ!Record(j, f) PROVE FailureTypes'
  <2>1. PICK s \in FJ!Status, r \in BOOLEAN :
          row' = [row EXCEPT ![f] = [column |-> s, json |-> [status |-> s, reviewed |-> r, recalled |-> 0]]]
    BY <1>5 DEF FJ!Record
  <2> DEFINE new == [column |-> s, json |-> [status |-> s, reviewed |-> r, recalled |-> 0]]
  <2>2. new \in FailureRow /\ new.column # "none" /\ new.json.recalled = 0
    BY <1>3 DEF FailureRow, EntryJson
  <2>3. row[f] = FJ!NoRow /\ UNCHANGED <<journal, recalls>>
    BY <1>5 DEF FJ!Record
  <2>4. row[f].json.recalled = 0
    BY <2>3 DEF FJ!NoRow
  <2>5. row' = [row EXCEPT ![f] = new]
    BY <2>1
  <2> HIDE DEF new
  <2>6. new.json.recalled + Cardinality(Waiting(journal, f)) <= recalls
    BY <1>1, <2>2, <2>4
  <2>7. CountsFit(row', journal, recalls)
    BY <1>2, <2>2, <2>5, <2>6, RowFits
  <2> QED  BY <1>2, <2>3, <2>7 DEF FailureTypes
<1>6. ASSUME NEW j \in Journals, NEW f \in Entries, FJ!ReviewGet(j, f) PROVE FailureTypes'
  <2>1. PICK s \in FJ!Status \ {"draft"}, r \in BOOLEAN :
          journal' = [journal EXCEPT ![j] = [op |-> "review", entry |-> f, todo |-> {},
                        json |-> [row[f].json EXCEPT !.status = s, !.reviewed = @ \/ r]]]
    BY Zenon, <1>6 DEF FJ!ReviewGet
  <2>2. UNCHANGED <<row, recalls>>
    BY <1>6 DEF FJ!ReviewGet
  <2> DEFINE call == [op |-> "review", entry |-> f, todo |-> {},
                      json |-> [row[f].json EXCEPT !.status = s, !.reviewed = @ \/ r]]
  <2>3. call.op = "review" /\ call.entry = f /\ call.todo = {} /\ call.json.recalled = row[f].json.recalled
    BY <1>4 DEF EntryJson
  <2>4. journal' = [journal EXCEPT ![j] = call]
    BY <2>1
  <2> HIDE DEF call
  <2>5. Cardinality(Waiting(journal', f)) <= Cardinality(Waiting(journal, f))
    <3>1. Waiting(journal', f) \subseteq Waiting(journal, f)
      <4> SUFFICES ASSUME NEW i \in Journals, f \in journal'[i].todo PROVE f \in journal[i].todo
        BY DEF Waiting
      <4> QED  BY <1>1, <2>3, <2>4
    <3> QED  BY <3>1, WaitingIsFinite, FS_Subset
  <2>6. call.json.recalled + Cardinality(Waiting(journal', f)) <= recalls
    <3>1. Cardinality(Waiting(journal', f)) \in Nat /\ Cardinality(Waiting(journal, f)) \in Nat
      BY WaitingIsFinite
    <3> QED  BY <1>1, <1>4, <2>3, <2>5, <3>1
  <2>7. CallFits(row, journal', recalls, call)
    BY <1>4, <2>3, <2>6 DEF CallFits
  <2>8. CountsFit(row, journal', recalls)
    BY <1>2, <2>3, <2>4, <2>7, CallGoesOn
  <2> QED  BY <1>2, <2>2, <2>8 DEF FailureTypes
<1>7. ASSUME NEW j \in Journals PROVE CountsFit(row, [journal EXCEPT ![j] = FJ!Idle], recalls)
  <2>1. CallFits(row, [journal EXCEPT ![j] = FJ!Idle], recalls, FJ!Idle)
    BY NothingHeld DEF CallFits
  <2> QED  BY <1>2, <2>1, NothingHeld, CallGoesOn
<1>8. ASSUME NEW j \in Journals, NEW new \in FailureRow, new.column # "none",
             journal[j].op \in {"review", "increment"}, new.json = journal[j].json
      PROVE  CountsFit([row EXCEPT ![journal[j].entry] = new], journal, recalls)
  <2>1. /\ journal[j].entry \in Entries
        /\ journal[j].json.recalled + Cardinality(Waiting(journal, journal[j].entry)) <= recalls
    BY <1>1, <1>8 DEF CallFits
  <2> QED  BY <1>2, <1>8, <2>1, RowFits
<1>9. ASSUME NEW j \in Journals, FJ!ReviewUpdate(j) PROVE FailureTypes'
  <2> DEFINE new == [column |-> journal[j].json.status, json |-> journal[j].json]
  <2>1. /\ row' = [row EXCEPT ![journal[j].entry] = new] /\ recalls' = recalls
        /\ journal' = [journal EXCEPT ![j] = FJ!Idle] /\ journal[j].op = "review"
    BY <1>9 DEF FJ!ReviewUpdate
  <2>2. new \in FailureRow /\ new.column # "none" /\ new.json = journal[j].json
    BY <1>1, <1>3, <2>1 DEF FailureRow
  <2> HIDE DEF new
  <2>3. CountsFit(row', journal, recalls)
    BY <1>8, <2>1, <2>2
  <2>4. CallFits(row', [journal EXCEPT ![j] = FJ!Idle], recalls, FJ!Idle)
    BY NothingHeld DEF CallFits
  <2>5. CountsFit(row', journal', recalls)
    BY <2>1, <2>3, <2>4, NothingHeld, CallGoesOn
  <2> QED  BY <1>2, <2>1, <2>5 DEF FailureTypes
<1>10. ASSUME NEW j \in Journals, FJ!SearchRecall(j) PROVE FailureTypes'
  <2>1. PICK found \in SUBSET FJ!Approved :
          journal' = [journal EXCEPT ![j] = [FJ!Idle EXCEPT !.op = "recall", !.todo = found]]
    BY <1>10 DEF FJ!SearchRecall
  <2>2. journal[j] = FJ!Idle /\ recalls < MaxRecalls /\ recalls' = recalls + 1 /\ row' = row
    BY <1>10 DEF FJ!SearchRecall
  <2>3. CountsFit(row, journal', recalls + 1)
    BY Zenon, <1>2, <2>1, <2>2, RecallStartsCount
  <2>4. recalls' <= MaxRecalls
    BY <1>1, <2>2, FailuresAssumption
  <2> QED  BY <2>2, <2>3, <2>4 DEF FailureTypes
<1>11. ASSUME NEW j \in Journals, FJ!IncrementGet(j) PROVE FailureTypes'
  <2>1. PICK f \in journal[j].todo :
          journal' = [journal EXCEPT ![j] = [op |-> "increment", entry |-> f, todo |-> journal[j].todo \ {f},
                        json |-> [row[f].json EXCEPT !.recalled = @ + 1]]]
    BY <1>11 DEF FJ!IncrementGet
  <2>2. UNCHANGED <<row, recalls>> /\ f \in Entries
    BY <1>1, <1>11 DEF FJ!IncrementGet
  <2> DEFINE call == [op |-> "increment", entry |-> f, todo |-> journal[j].todo \ {f},
                      json |-> [row[f].json EXCEPT !.recalled = @ + 1]]
  <2>3. /\ call.op = "increment" /\ call.entry = f /\ call.todo = journal[j].todo \ {f}
        /\ call.json.recalled = row[f].json.recalled + 1
    BY <1>4, <2>2 DEF EntryJson
  <2>4. journal' = [journal EXCEPT ![j] = call]
    BY <2>1
  <2> HIDE DEF call
  <2>5. Cardinality(Waiting(journal', f)) + 1 <= Cardinality(Waiting(journal, f))
    <3>1. Waiting(journal', f) \subseteq Waiting(journal, f) \ {j}
      <4> SUFFICES ASSUME NEW i \in Journals, f \in journal'[i].todo PROVE f \in journal[i].todo /\ i # j
        BY DEF Waiting
      <4> QED  BY <1>1, <2>3, <2>4
    <3>2. j \in Waiting(journal, f)
      BY <2>1 DEF Waiting
    <3>3. /\ IsFiniteSet(Waiting(journal, f) \ {j})
          /\ Cardinality(Waiting(journal, f) \ {j}) = Cardinality(Waiting(journal, f)) - 1
      BY <3>2, WaitingIsFinite, FS_RemoveElement
    <3>4. Cardinality(Waiting(journal', f)) <= Cardinality(Waiting(journal, f) \ {j})
      BY <3>1, <3>3, FS_Subset
    <3> QED  BY <3>3, <3>4, WaitingIsFinite
  <2>6. call.json.recalled + Cardinality(Waiting(journal', f)) <= recalls
    <3>1. Cardinality(Waiting(journal', f)) \in Nat /\ Cardinality(Waiting(journal, f)) \in Nat
      BY WaitingIsFinite
    <3> QED  BY <1>1, <1>4, <2>2, <2>3, <2>5, <3>1
  <2>7. row[f].column # "none" /\ \A g \in call.todo : row[g].column # "none"
    BY <1>1, <2>1, <2>3 DEF CallFits
  <2>8. CallFits(row, journal', recalls, call)
    <3>1. call.json.recalled \in Nat
      BY <1>4, <2>2, <2>3
    <3> QED  BY <2>2, <2>3, <2>6, <2>7, <3>1 DEF CallFits
  <2>9. CountsFit(row, journal', recalls)
    BY <1>2, <2>3, <2>4, <2>8, CallGoesOn
  <2> QED  BY <1>2, <2>2, <2>9 DEF FailureTypes
<1>12. ASSUME NEW j \in Journals, FJ!IncrementWrite(j) PROVE FailureTypes'
  <2> DEFINE f == journal[j].entry
             new == [row[f] EXCEPT !.json = journal[j].json]
             call == [FJ!Idle EXCEPT !.op = "recall", !.todo = journal[j].todo]
  <2>1. /\ row' = [row EXCEPT ![f] = new] /\ recalls' = recalls
        /\ journal' = [journal EXCEPT ![j] = call] /\ journal[j].op = "increment"
    BY <1>12 DEF FJ!IncrementWrite
  <2>2. f \in Entries /\ row[f].column # "none" /\ \A g \in journal[j].todo : row[g].column # "none"
    BY <1>1, <2>1 DEF CallFits
  <2>3. new \in FailureRow /\ new.column # "none" /\ new.json = journal[j].json
    BY <1>1, <2>2 DEF FailureRow
  <2>4. call.op = "recall" /\ call.todo = journal[j].todo
    BY DEF FJ!Idle
  <2>5. \A g \in journal[j].todo : row'[g].column # "none"
    BY <1>1, <2>1, <2>2, <2>3
  <2> HIDE DEF new, call
  <2>6. CountsFit(row', journal, recalls)
    BY <1>8, <2>1, <2>3
  <2>7. CallFits(row', [journal EXCEPT ![j] = call], recalls, call)
    BY <2>4, <2>5 DEF CallFits
  <2>8. CountsFit(row', journal', recalls)
    BY <2>1, <2>4, <2>6, <2>7, CallGoesOn
  <2> QED  BY <1>2, <2>1, <2>8 DEF FailureTypes
<1>13. ASSUME NEW j \in Journals, FJ!Return(j) PROVE FailureTypes'
  <2>1. journal' = [journal EXCEPT ![j] = FJ!Idle] /\ UNCHANGED <<row, recalls>>
    BY <1>13 DEF FJ!Return
  <2> QED  BY <1>2, <1>7, <2>1 DEF FailureTypes
<1>14. CASE UNCHANGED failures
  BY <1>2, <1>14 DEF failures, FailureTypes
<1> QED  BY <1>5, <1>6, <1>9, <1>10, <1>11, <1>12, <1>13, <1>14 DEF FJ!Next

LEMMA FailureTypesShow == FailuresInv /\ FailureTypes => FJ!TypeOK
<1> SUFFICES ASSUME FailuresInv, FailureTypes PROVE FJ!TypeOK
  OBVIOUS
<1>1. /\ row \in [Entries -> FailureRow] /\ recalls \in Nat /\ recalls <= MaxRecalls
      /\ \A f \in Entries : /\ row[f].json.recalled + Cardinality(Waiting(journal, f)) <= recalls
                            /\ row[f].column = "none" => row[f] = FJ!NoRow
      /\ \A j \in Journals : journal[j].todo \subseteq Entries
  BY DEF FailureTypes, CountsFit, FailuresInv
<1>2. ASSUME NEW f \in Entries, row[f] # FJ!NoRow
      PROVE  row[f].column \in FJ!Status /\ row[f].json.recalled \in 0..MaxRecalls
  <2>1. row[f].column \in FJ!Status \cup {"none"} /\ row[f].json.recalled \in Nat
    BY <1>1 DEF FailureRow, EntryJson
  <2>2. Cardinality(Waiting(journal, f)) \in Nat
    BY WaitingIsFinite
  <2> QED  BY <1>1, <1>2, <2>1, <2>2, FailuresAssumption
<1> QED  BY <1>1, <1>2 DEF FJ!TypeOK

---------------------------------------------------------------------------
(* memory/progress_tracking.                                               *)

VARIABLES rows, items, creators, frozen, values, ledger, query, toolCalls, queries
progress == <<rows, items, creators, frozen, values, ledger, query, toolCalls, queries>>
PL == INSTANCE ProgressLedger

QueryFields == {"at", "before", "todo", "gate", "drift"}
LedgerEvent == [evidence : Int, deviant : BOOLEAN]
InValues(k) == values[k] = items[k]
InLedger(k) == \E i \in DOMAIN ledger : ledger[i].evidence = k

\* While a delta is recorded, each change is in the values and in the ledger or still to be
\* written, and what is still to be written for the values is the plan as it is.
LedgerInv ==
  /\ DOMAIN rows \subseteq 1..MaxItems /\ DOMAIN items \subseteq 1..MaxItems
  /\ DOMAIN values = 1..MaxItems /\ ledger \in Seq(LedgerEvent)
  /\ DOMAIN query = QueryFields
  /\ query.at = "record" =>
       /\ \A k \in PL!Diff(query.before, items) :
            /\ InValues(k) \/ PL!Entry("values", k, items[k]) \in query.todo
            /\ InLedger(k) \/ PL!Entry("ledger", k, items[k]) \in query.todo
       /\ \A e \in query.todo : e.index \in Int
       /\ \A e \in query.todo : e.to = "values" => e.index \in DOMAIN items /\ e.item = items[e.index]
  /\ query.at = "answered" => \A k \in PL!Diff(query.before, items) : InValues(k) /\ InLedger(k)

LEMMA LedgerStarts == PL!Init => LedgerInv
<1> SUFFICES ASSUME PL!Init PROVE LedgerInv
  OBVIOUS
<1>1. rows = <<>> /\ items = <<>> /\ DOMAIN values = 1..MaxItems /\ ledger = <<>> /\ query = PL!NoQuery
  BY DEF PL!Init
<1>2. DOMAIN query = QueryFields /\ query.at = "idle"
  BY <1>1 DEF PL!NoQuery, QueryFields
<1>3. DOMAIN rows \subseteq 1..MaxItems /\ DOMAIN items \subseteq 1..MaxItems
  BY <1>1
<1>4. ledger \in Seq(LedgerEvent)
  BY <1>1
<1> QED  BY <1>1, <1>2, <1>3, <1>4 DEF LedgerInv

\* A query that neither records nor answers leaves nothing to show but the types.
LEMMA NothingRecorded ==
  ASSUME LedgerInv, query'.at \in {"idle", "agent"}, DOMAIN query' = QueryFields,
         DOMAIN rows' \subseteq 1..MaxItems, DOMAIN items' \subseteq 1..MaxItems,
         DOMAIN values' = 1..MaxItems, ledger' \in Seq(LedgerEvent)
  PROVE  LedgerInv'
BY DEF LedgerInv

LEMMA ToolCallKeeps ==
  ASSUME LedgerInv, PL!ToolCall,
         DOMAIN rows' \subseteq 1..MaxItems, DOMAIN items' \subseteq 1..MaxItems
  PROVE  LedgerInv'
<1>1. /\ query' = query /\ values' = values /\ ledger' = ledger /\ query.at = "agent"
      /\ DOMAIN query = QueryFields /\ DOMAIN values = 1..MaxItems /\ ledger \in Seq(LedgerEvent)
  BY DEF PL!ToolCall, LedgerInv
<1> QED  BY <1>1, NothingRecorded

LEMMA UpdateKeepsDomains ==
  ASSUME LedgerInv, NEW k, NEW item, PL!UpdateTask(k, item)
  PROVE  DOMAIN rows' \subseteq 1..MaxItems /\ DOMAIN items' \subseteq 1..MaxItems
BY DEF PL!UpdateTask, PL!UpdateItem, LedgerInv

LEMMA QueryBegins ==
  ASSUME LedgerInv, PL!BeginQuery
  PROVE  LedgerInv'
<1>1. query'.at \in {"idle", "agent"} /\ DOMAIN query' = QueryFields
  <2>1. query' = PL!NoQuery \/ query' = [PL!NoQuery EXCEPT !.at = "agent", !.before = items]
    BY DEF PL!BeginQuery
  <2>2. DOMAIN PL!NoQuery = QueryFields /\ PL!NoQuery.at = "idle"
    BY DEF PL!NoQuery, QueryFields
  <2>3. CASE query' = PL!NoQuery
    BY <2>2, <2>3
  <2>4. CASE query' = [PL!NoQuery EXCEPT !.at = "agent", !.before = items]
    BY <2>2, <2>4 DEF QueryFields
  <2> QED  BY <2>1, <2>3, <2>4
<1>2. rows' = rows /\ items' = items
  BY DEF PL!BeginQuery
<1>3. DOMAIN values' = 1..MaxItems /\ ledger' \in Seq(LedgerEvent)
  <2>1. UNCHANGED <<frozen, values, ledger>> \/ PL!SaveInitialState
    BY DEF PL!BeginQuery, PL!EnsureInitialized
  <2>2. CASE UNCHANGED <<frozen, values, ledger>>
    BY <2>2 DEF LedgerInv
  <2>3. CASE PL!SaveInitialState
    <3>1. DOMAIN values' = 1..MaxItems /\ ledger' = <<>>
      BY <2>3 DEF PL!SaveInitialState
    <3> QED  BY <3>1
  <2> QED  BY <2>1, <2>2, <2>3
<1> QED  BY <1>1, <1>2, <1>3, NothingRecorded DEF LedgerInv

LEMMA PlanCreated ==
  ASSUME LedgerInv, PL!CreatePlan
  PROVE  LedgerInv'
<1>1. DOMAIN rows' \subseteq 1..MaxItems /\ DOMAIN items' \subseteq 1..MaxItems
  <2>1. CASE UNCHANGED <<rows, items>>
    BY <2>1 DEF LedgerInv
  <2>2. CASE ~UNCHANGED <<rows, items>>
    <3>1. PICK descs \in PL!Plans(Descriptions, MaxItems) : PL!ReplacePlan(descs) /\ items' = rows'
      BY <2>2 DEF PL!CreatePlan
    <3>2. PICK n \in 0..MaxItems : descs \in [1..n -> Descriptions]
      BY <3>1 DEF PL!Plans
    <3>3. DOMAIN rows' = 1..n
      BY <3>1, <3>2 DEF PL!ReplacePlan, PL!NewPlan
    <3>4. 1..n \subseteq 1..MaxItems
      BY <3>2, PlanAssumption
    <3> QED  BY <3>1, <3>3, <3>4
  <2> QED  BY <2>1, <2>2
<1>2. /\ query' = query /\ values' = values /\ ledger' = ledger /\ query.at = "agent"
      /\ DOMAIN query = QueryFields /\ DOMAIN values = 1..MaxItems /\ ledger \in Seq(LedgerEvent)
  BY DEF PL!CreatePlan, LedgerInv
<1> QED  BY <1>1, <1>2, NothingRecorded

LEMMA PlanKept ==
  ASSUME LedgerInv, rows' = rows \/ rows' = items, items' = items \/ items' = rows,
         values' = values, ledger' = ledger,
         query'.at \in {"idle", "agent"}, DOMAIN query' = QueryFields
  PROVE  LedgerInv'
<1>1. DOMAIN rows \subseteq 1..MaxItems /\ DOMAIN items \subseteq 1..MaxItems
      /\ DOMAIN values = 1..MaxItems /\ ledger \in Seq(LedgerEvent)
  BY DEF LedgerInv
<1> QED  BY <1>1, NothingRecorded

LEMMA DeltaIsTaken ==
  ASSUME LedgerInv, PL!AgentAnswers
  PROVE  LedgerInv'
<1> DEFINE todo == PL!Delta(query.before, items)
<1>1. /\ rows' = rows /\ items' = items /\ values' = values /\ ledger' = ledger
      /\ DOMAIN query = QueryFields
  BY DEF PL!AgentAnswers, LedgerInv
<1>2. query' = [query EXCEPT !.at = "idle"] \/ query' = [query EXCEPT !.at = "record", !.todo = todo]
  BY DEF PL!AgentAnswers
<1>3. CASE query' = [query EXCEPT !.at = "idle"]
  <2>1. query'.at = "idle" /\ DOMAIN query' = QueryFields
    BY <1>1, <1>3 DEF QueryFields
  <2> QED  BY <1>1, <2>1, PlanKept
<1>4. CASE query' = [query EXCEPT !.at = "record", !.todo = todo]
  <2>1. \A k \in PL!Diff(query.before, items) :
          PL!Entry("values", k, items[k]) \in todo /\ PL!Entry("ledger", k, items[k]) \in todo
    BY DEF PL!Delta
  <2>2. \A e \in todo : e.index \in Int /\ (e.to = "values" => e.index \in DOMAIN items /\ e.item = items[e.index])
    <3> SUFFICES ASSUME NEW e \in todo
                 PROVE  e.index \in Int /\ (e.to = "values" => e.index \in DOMAIN items /\ e.item = items[e.index])
      OBVIOUS
    <3>1. CASE e = PL!Entry("ledger", 0, PL!Absent)
      BY <3>1 DEF PL!Entry
    <3>2. CASE e # PL!Entry("ledger", 0, PL!Absent)
      <4>1. PICK to \in {"values", "ledger"}, k \in PL!Diff(query.before, items) : e = PL!Entry(to, k, items[k])
        BY <3>2 DEF PL!Delta
      <4>2. k \in DOMAIN items /\ k \in Int
        BY DEF PL!Diff, LedgerInv
      <4> QED  BY <4>1, <4>2 DEF PL!Entry
    <3> QED  BY <3>1, <3>2
  <2> HIDE DEF todo
  <2>3. query'.at = "record" /\ query'.todo = todo /\ query'.before = query.before /\ DOMAIN query' = QueryFields
    BY <1>1, <1>4 DEF QueryFields
  <2> QED  BY <1>1, <2>1, <2>2, <2>3 DEF LedgerInv, InValues, InLedger
<1> QED  BY <1>2, <1>3, <1>4

LEMMA EntryWritten ==
  ASSUME LedgerInv, PL!WriteEntry
  PROVE  LedgerInv'
<1>1. PICK e \in query.todo :
        /\ values' = IF e.to = "values" THEN [values EXCEPT ![e.index] = e.item] ELSE values
        /\ ledger' = IF e.to = "ledger"
                     THEN Append(ledger, [evidence |-> e.index, deviant |-> e.item.desc \in Deviant])
                     ELSE ledger
        /\ query' = [query EXCEPT !.todo = @ \ {e}]
  BY DEF PL!WriteEntry
<1>2. query.at = "record" /\ rows' = rows /\ items' = items
  BY DEF PL!WriteEntry
<1>3. query'.at = "record" /\ query'.before = query.before /\ query'.todo = query.todo \ {e} /\ DOMAIN query' = QueryFields
  BY <1>1, <1>2 DEF QueryFields, LedgerInv
<1>4. /\ DOMAIN values' = 1..MaxItems
      /\ \A k \in DOMAIN items : InValues(k) => values'[k] = items[k]
      /\ e.to = "values" => values'[e.index] = items[e.index]
  <2>1. CASE e.to # "values"
    BY <1>1, <2>1 DEF LedgerInv, InValues
  <2>2. CASE e.to = "values"
    <3>1. e.index \in DOMAIN items /\ e.item = items[e.index] /\ DOMAIN items \subseteq DOMAIN values
      BY <1>1, <1>2, <2>2 DEF LedgerInv
    <3>2. values' = [values EXCEPT ![e.index] = items[e.index]]
      BY <1>1, <2>2, <3>1
    <3> QED  BY <3>1, <3>2 DEF LedgerInv, InValues
  <2> QED  BY <2>1, <2>2
<1>5. /\ ledger' \in Seq(LedgerEvent)
      /\ \A k : InLedger(k) => \E i \in DOMAIN ledger' : ledger'[i].evidence = k
      /\ e.to = "ledger" => \E i \in DOMAIN ledger' : ledger'[i].evidence = e.index
  <2>1. CASE e.to # "ledger"
    BY <1>1, <2>1 DEF LedgerInv, InLedger
  <2>2. CASE e.to = "ledger"
    <3> DEFINE noted == [evidence |-> e.index, deviant |-> e.item.desc \in Deviant]
    <3>1. noted \in LedgerEvent /\ noted.evidence = e.index
      BY <1>1, <1>2 DEF LedgerInv, LedgerEvent
    <3>2. ledger' = Append(ledger, noted) /\ ledger \in Seq(LedgerEvent)
      BY <1>1, <2>2 DEF LedgerInv
    <3> HIDE DEF noted
    <3>3. /\ ledger' \in Seq(LedgerEvent) /\ DOMAIN ledger' = 1..(Len(ledger) + 1) /\ DOMAIN ledger = 1..Len(ledger)
          /\ \A i \in DOMAIN ledger : ledger'[i] = ledger[i]
          /\ ledger'[Len(ledger) + 1] = noted /\ Len(ledger) \in Nat
      BY <3>1, <3>2
    <3>4. \A i \in DOMAIN ledger : i \in DOMAIN ledger'
      BY <3>3
    <3> QED  BY <3>1, <3>3, <3>4 DEF InLedger
  <2> QED  BY <2>1, <2>2
<1>6. \A k \in PL!Diff(query.before, items) :
        /\ values'[k] = items[k] \/ PL!Entry("values", k, items[k]) \in query'.todo
        /\ (\E i \in DOMAIN ledger' : ledger'[i].evidence = k) \/ PL!Entry("ledger", k, items[k]) \in query'.todo
  <2> SUFFICES ASSUME NEW k \in PL!Diff(query.before, items)
               PROVE  /\ values'[k] = items[k] \/ PL!Entry("values", k, items[k]) \in query'.todo
                      /\ (\E i \in DOMAIN ledger' : ledger'[i].evidence = k)
                           \/ PL!Entry("ledger", k, items[k]) \in query'.todo
    OBVIOUS
  <2>1. k \in DOMAIN items
    BY DEF PL!Diff
  <2>2. values'[k] = items[k] \/ PL!Entry("values", k, items[k]) \in query'.todo
    <3>1. InValues(k) \/ PL!Entry("values", k, items[k]) \in query.todo
      BY <1>2 DEF LedgerInv
    <3>2. CASE e = PL!Entry("values", k, items[k])
      BY <1>4, <3>2 DEF PL!Entry
    <3>3. CASE e # PL!Entry("values", k, items[k])
      BY <1>3, <1>4, <2>1, <3>1, <3>3
    <3> QED  BY <3>2, <3>3
  <2>3. (\E i \in DOMAIN ledger' : ledger'[i].evidence = k) \/ PL!Entry("ledger", k, items[k]) \in query'.todo
    <3>1. InLedger(k) \/ PL!Entry("ledger", k, items[k]) \in query.todo
      BY <1>2 DEF LedgerInv
    <3>2. CASE e = PL!Entry("ledger", k, items[k])
      BY <1>5, <3>2 DEF PL!Entry
    <3>3. CASE e # PL!Entry("ledger", k, items[k])
      BY <1>3, <1>5, <3>1, <3>3
    <3> QED  BY <3>2, <3>3
  <2> QED  BY <2>2, <2>3
<1>7. \A f \in query'.todo : f.index \in Int /\ (f.to = "values" => f.index \in DOMAIN items /\ f.item = items[f.index])
  BY <1>2, <1>3 DEF LedgerInv
<1>8. DOMAIN rows \subseteq 1..MaxItems /\ DOMAIN items \subseteq 1..MaxItems
  BY DEF LedgerInv
<1> QED  BY <1>2, <1>3, <1>4, <1>5, <1>6, <1>7, <1>8 DEF LedgerInv, InValues, InLedger

LEMMA QueryEnds ==
  ASSUME LedgerInv, PL!EndQuery
  PROVE  LedgerInv'
<1>1. /\ rows' = rows /\ items' = items /\ values' = values /\ ledger' = ledger
      /\ query.at = "record" /\ query.todo = {} /\ DOMAIN query = QueryFields
  BY DEF PL!EndQuery, LedgerInv
<1>2. query'.at = "answered" /\ query'.before = query.before /\ DOMAIN query' = QueryFields
  BY <1>1 DEF PL!EndQuery, QueryFields
<1>3. \A k \in PL!Diff(query.before, items) : InValues(k) /\ InLedger(k)
  BY <1>1 DEF LedgerInv
<1> QED  BY <1>1, <1>2, <1>3 DEF LedgerInv, InValues, InLedger

LEMMA LedgerStep == LedgerInv /\ [PL!Next]_progress => LedgerInv'
<1> SUFFICES ASSUME LedgerInv, [PL!Next]_progress PROVE LedgerInv'
  OBVIOUS
<1>1. CASE UNCHANGED progress
  BY <1>1 DEF progress, LedgerInv, InValues, InLedger
<1>2. CASE PL!CheckCreatePlan
  <2>1. PL!ToolCall /\ rows' = rows /\ items' = items
    BY <1>2 DEF PL!CheckCreatePlan
  <2> QED  BY <2>1, ToolCallKeeps DEF LedgerInv
<1>3. CASE PL!Start
  BY <1>3, UpdateKeepsDomains, ToolCallKeeps DEF PL!Start
<1>4. CASE PL!Complete
  BY <1>4, UpdateKeepsDomains, ToolCallKeeps DEF PL!Complete
<1>5. CASE PL!Fail
  BY <1>5, UpdateKeepsDomains, ToolCallKeeps DEF PL!Fail
<1>6. PL!NoQuery.at = "idle" /\ DOMAIN PL!NoQuery = QueryFields
  BY DEF PL!NoQuery, QueryFields
<1>7. CASE PL!AgentFails
  BY <1>6, <1>7, PlanKept DEF PL!AgentFails
<1>8. CASE PL!WriteFails
  BY <1>6, <1>8, PlanKept DEF PL!WriteFails
<1>9. CASE PL!Return
  BY <1>6, <1>9, PlanKept DEF PL!Return
<1>10. CASE PL!Restart
  BY <1>6, <1>10, PlanKept DEF PL!Restart, PL!LoadItems
<1> QED  BY <1>1, <1>2, <1>3, <1>4, <1>5, <1>7, <1>8, <1>9, <1>10, QueryBegins, PlanCreated, DeltaIsTaken,
            EntryWritten, QueryEnds DEF PL!Next

LEMMA LedgerShows == LedgerInv => PL!DeltaIsRecorded
<1> SUFFICES ASSUME LedgerInv, query.at = "answered" PROVE PL!DeltaIsRecorded
  BY DEF PL!DeltaIsRecorded
<1>1. \A k \in PL!Diff(query.before, items) : values[k] = items[k] /\ \E i \in DOMAIN ledger : ledger[i].evidence = k
  BY DEF LedgerInv, InValues, InLedger
<1> QED  BY <1>1 DEF PL!DeltaIsRecorded, PL!Diff

\* The tracker has the plan of the table, and each create that waits has had its tool call.
LedgerTypes ==
  /\ rows \in PL!Plans(PL!Item, MaxItems) /\ items = rows
  /\ creators \in Nat /\ toolCalls \in Nat /\ creators <= toolCalls /\ toolCalls <= MaxToolCalls
  /\ values \in [1..MaxItems -> PL!Item \cup {PL!Absent}]
  /\ query.at \in {"idle", "agent", "record", "answered"}

NoValues == [k \in 1..MaxItems |-> PL!Absent]
LEMMA NoValuesAreTyped == NoValues \in [1..MaxItems -> PL!Item \cup {PL!Absent}]
BY DEF NoValues

LEMMA LedgerTypesStart == PL!Init => LedgerTypes
<1> SUFFICES ASSUME PL!Init PROVE LedgerTypes
  OBVIOUS
<1>1. /\ rows = <<>> /\ items = <<>> /\ creators = 0 /\ toolCalls = 0 /\ values = NoValues
      /\ query = PL!NoQuery
  BY DEF PL!Init, NoValues
<1>2. <<>> \in PL!Plans(PL!Item, MaxItems)
  <2>1. 0 \in 0..MaxItems /\ <<>> \in [1..0 -> PL!Item]
    BY PlanAssumption
  <2> QED  BY <2>1 DEF PL!Plans
<1>3. PL!NoQuery.at = "idle"
  BY DEF PL!NoQuery
<1> QED  BY <1>1, <1>2, <1>3, NoValuesAreTyped, PlanAssumption DEF LedgerTypes

\* A plan that only has an item exchanged.
LEMMA ItemIsExchanged ==
  ASSUME NEW plan \in PL!Plans(PL!Item, MaxItems), NEW k, NEW item \in PL!Item
  PROVE  [plan EXCEPT ![k] = item] \in PL!Plans(PL!Item, MaxItems)
<1>1. PICK n \in 0..MaxItems : plan \in [1..n -> PL!Item]
  BY DEF PL!Plans
<1>2. [plan EXCEPT ![k] = item] \in [1..n -> PL!Item]
  BY <1>1
<1> QED  BY <1>2 DEF PL!Plans

LEMMA UpdateTypes ==
  ASSUME LedgerTypes, NEW k \in DOMAIN items, NEW item,
         items[k] \in PL!Item => item \in PL!Item, PL!ToolCall, UNCHANGED creators,
         PL!UpdateTask(k, item)
  PROVE  LedgerTypes'
<1>1. rows' = [rows EXCEPT ![k] = item] /\ items' = [items EXCEPT ![k] = item]
  BY DEF PL!UpdateTask, PL!UpdateItem
<1>2. items[k] \in PL!Item
  BY DEF LedgerTypes, PL!Plans
<1>3. rows' \in PL!Plans(PL!Item, MaxItems) /\ items' = rows'
  BY <1>1, <1>2, ItemIsExchanged DEF LedgerTypes
<1>4. toolCalls < MaxToolCalls /\ toolCalls' = toolCalls + 1 /\ UNCHANGED <<values, query>>
  BY DEF PL!ToolCall
<1> QED  BY <1>3, <1>4, PlanAssumption DEF LedgerTypes

LEMMA LedgerTypesStep ==
  ASSUME LedgerInv, LedgerTypes, [PL!Next]_progress PROVE LedgerTypes'
<1> DEFINE at == {"idle", "agent", "record", "answered"}
<1>1. CASE UNCHANGED progress
  BY <1>1 DEF progress, LedgerTypes
<1>2. CASE PL!BeginQuery
  <2>1. /\ UNCHANGED <<rows, items, creators, toolCalls>>
        /\ values' = values \/ values' = NoValues
    BY <1>2 DEF PL!BeginQuery, PL!EnsureInitialized, PL!SaveInitialState, NoValues
  <2>2. query' = PL!NoQuery \/ query' = [PL!NoQuery EXCEPT !.at = "agent", !.before = items]
    BY <1>2 DEF PL!BeginQuery
  <2>3. DOMAIN PL!NoQuery = QueryFields /\ PL!NoQuery.at = "idle"
    BY DEF PL!NoQuery, QueryFields
  <2>4. query'.at \in at
    BY <2>2, <2>3 DEF QueryFields
  <2> QED  BY <2>1, <2>4, NoValuesAreTyped DEF LedgerTypes
<1>3. CASE PL!CheckCreatePlan
  <2>1. /\ toolCalls < MaxToolCalls /\ toolCalls' = toolCalls + 1 /\ creators' = creators + 1
        /\ UNCHANGED <<rows, items, values, query>>
    BY <1>3 DEF PL!CheckCreatePlan, PL!ToolCall
  <2> QED  BY <2>1, PlanAssumption DEF LedgerTypes
<1>4. CASE PL!CreatePlan
  <2>1. /\ creators > 0 /\ creators' = creators - 1 /\ UNCHANGED <<values, query, toolCalls>>
    BY <1>4 DEF PL!CreatePlan
  <2>2. CASE UNCHANGED <<rows, items>>
    BY <2>1, <2>2 DEF LedgerTypes
  <2>3. CASE \E descs \in PL!Plans(Descriptions, MaxItems) : PL!ReplacePlan(descs) /\ items' = rows'
    <3>1. PICK descs \in PL!Plans(Descriptions, MaxItems) : PL!ReplacePlan(descs) /\ items' = rows'
      BY <2>3
    <3>2. PICK n \in 0..MaxItems : descs \in [1..n -> Descriptions]
      BY <3>1 DEF PL!Plans
    <3>3. rows' \in [1..n -> PL!Item]
      <4>1. \A k \in 1..n :
              [desc |-> descs[k], status |-> "pending", result |-> FALSE, error |-> FALSE] \in PL!Item
        BY <3>2 DEF PL!Item
      <4>2. rows' = [k \in 1..n |->
              [desc |-> descs[k], status |-> "pending", result |-> FALSE, error |-> FALSE]]
        BY <3>1, <3>2 DEF PL!ReplacePlan, PL!NewPlan
      <4> QED  BY <4>1, <4>2
    <3>4. rows' \in PL!Plans(PL!Item, MaxItems)
      BY <3>3 DEF PL!Plans
    <3> QED  BY <2>1, <3>1, <3>4 DEF LedgerTypes
  <2> QED  BY <1>4, <2>2, <2>3 DEF PL!CreatePlan
<1>5. CASE PL!Start
  <2>1. PICK k \in DOMAIN items : PL!UpdateTask(k, PL!Started(items[k]))
    BY <1>5 DEF PL!Start
  <2>2. items[k] \in PL!Item => PL!Started(items[k]) \in PL!Item
    BY DEF PL!Started, PL!Item
  <2> QED  BY <1>5, <2>1, <2>2, UpdateTypes DEF PL!Start
<1>6. CASE PL!Complete
  <2>1. PICK k \in DOMAIN items : PL!UpdateTask(k, PL!Completed(items[k]))
    BY <1>6 DEF PL!Complete
  <2>2. items[k] \in PL!Item => PL!Completed(items[k]) \in PL!Item
    BY DEF PL!Completed, PL!Item
  <2> QED  BY <1>6, <2>1, <2>2, UpdateTypes DEF PL!Complete
<1>7. CASE PL!Fail
  <2>1. PICK k \in DOMAIN items : PL!UpdateTask(k, PL!Failed(items[k]))
    BY <1>7 DEF PL!Fail
  <2>2. items[k] \in PL!Item => PL!Failed(items[k]) \in PL!Item
    BY DEF PL!Failed, PL!Item
  <2> QED  BY <1>7, <2>1, <2>2, UpdateTypes DEF PL!Fail
<1>8. ASSUME UNCHANGED <<rows, items, creators, values, toolCalls>>, query'.at \in at
      PROVE  LedgerTypes'
  BY <1>8 DEF LedgerTypes
<1>9. PL!NoQuery.at \in at
  BY DEF PL!NoQuery
<1>10. CASE PL!AgentAnswers
  <2>1. \/ query' = [query EXCEPT !.at = "idle"]
        \/ query' = [query EXCEPT !.at = "record", !.todo = PL!Delta(query.before, items)]
    BY <1>10 DEF PL!AgentAnswers
  <2>2. DOMAIN query = QueryFields
    BY DEF LedgerInv
  <2>3. query'.at \in at
    BY <2>1, <2>2 DEF QueryFields
  <2> QED  BY <1>8, <1>10, <2>3 DEF PL!AgentAnswers
<1>11. CASE PL!AgentFails \/ PL!WriteFails \/ PL!Return
  BY <1>8, <1>9, <1>11 DEF PL!AgentFails, PL!WriteFails, PL!Return
<1>12. CASE PL!WriteEntry
  <2>1. PICK e \in query.todo :
          /\ values' = IF e.to = "values" THEN [values EXCEPT ![e.index] = e.item] ELSE values
          /\ query' = [query EXCEPT !.todo = @ \ {e}]
          /\ query.at = "record" /\ UNCHANGED <<rows, items, creators, toolCalls>>
    BY <1>12 DEF PL!WriteEntry
  <2>2. query'.at = query.at
    BY <2>1
  <2>3. values' \in [1..MaxItems -> PL!Item \cup {PL!Absent}]
    <3>1. CASE e.to = "values"
      <4>1. e.index \in DOMAIN items /\ e.item = items[e.index]
        BY <2>1, <3>1 DEF LedgerInv
      <4>2. e.item \in PL!Item
        BY <4>1 DEF LedgerTypes, PL!Plans
      <4> QED  BY <2>1, <3>1, <4>2 DEF LedgerTypes
    <3>2. CASE e.to # "values"
      BY <2>1, <3>2 DEF LedgerTypes
    <3> QED  BY <3>1, <3>2
  <2> QED  BY <2>1, <2>2, <2>3 DEF LedgerTypes
<1>13. CASE PL!EndQuery
  <2>1. query' = [query EXCEPT !.at = "answered",
                    !.gate = PL!EvaluateVerificationGate, !.drift = PL!EvaluateDrift]
    BY <1>13, Zenon DEF PL!EndQuery
  <2>2. DOMAIN query = QueryFields
    BY DEF LedgerInv
  <2>3. query'.at \in at
    BY <2>1, <2>2 DEF QueryFields
  <2> QED  BY <1>8, <1>13, <2>3 DEF PL!EndQuery
<1>14. CASE PL!Restart
  <2>1. items' = rows /\ creators' = 0 /\ query' = PL!NoQuery /\ UNCHANGED <<rows, values, toolCalls>>
    BY <1>14 DEF PL!Restart, PL!LoadItems
  <2> QED  BY <1>9, <2>1 DEF LedgerTypes
<1> QED  BY <1>1, <1>2, <1>3, <1>4, <1>5, <1>6, <1>7, <1>10, <1>11, <1>12, <1>13, <1>14 DEF PL!Next

LEMMA LedgerTypesShow == LedgerTypes => PL!TypeOK
<1> SUFFICES ASSUME LedgerTypes PROVE PL!TypeOK
  OBVIOUS
<1>1. creators \in 0..MaxToolCalls
  BY PlanAssumption DEF LedgerTypes
<1> QED  BY <1>1 DEF LedgerTypes, PL!TypeOK

---------------------------------------------------------------------------
(* memory/mem0, Search.                                                    *)

VARIABLES stored, searching, searchRequest, found
searchVars == <<stored, searching, searchRequest, found>>
MS == INSTANCE Mem0Search

SearchInv ==
  /\ stored \in Seq(StoredTexts)
  /\ searching # "open" => searchRequest \in SearchRequests
  /\ searching = "embed" => MS!ValidSearch(searchRequest)
  /\ searching = "answered" => MS!BestMatchesFound

LEMMA SearchStarts == MS!Init => SearchInv
BY DEF MS!Init, SearchInv

LEMMA SameCardinalityOfMatches == \A S : MS!Cardinality(S) = Cardinality(S)
BY DEF MS!Cardinality, Cardinality

LEMMA FiltersAreComplements == MS!FiltersComplement
<1> SUFFICES ASSUME NEW actual \in 0..2, NEW value \in 1..2
             PROVE  /\ \A op \in {<<"eq", "ne">>, <<"in", "nin">>} :
                         MS!FilterValueMatches(actual, op[1], value) # MS!FilterValueMatches(actual, op[2], value)
                    /\ \A op \in {<<"gt", "lte">>, <<"lt", "gte">>} :
                         (MS!FilterValueMatches(actual, op[1], value) # MS!FilterValueMatches(actual, op[2], value))
                           <=> actual # MS!Absent
  BY DEF MS!FiltersComplement
<1>1. /\ MS!FilterValueMatches(actual, "eq", value) <=> actual = value
      /\ MS!FilterValueMatches(actual, "ne", value) <=> actual # value
      /\ MS!FilterValueMatches(actual, "in", value) <=> actual = value
      /\ MS!FilterValueMatches(actual, "nin", value) <=> actual # value
      /\ MS!FilterValueMatches(actual, "gt", value) <=> actual # MS!Absent /\ actual > value
      /\ MS!FilterValueMatches(actual, "gte", value) <=> actual # MS!Absent /\ actual >= value
      /\ MS!FilterValueMatches(actual, "lt", value) <=> actual # MS!Absent /\ actual < value
      /\ MS!FilterValueMatches(actual, "lte", value) <=> actual # MS!Absent /\ actual <= value
  BY DEF MS!FilterValueMatches, MS!CompareFilterNumber
<1>2. \A op : MS!FilterValueMatches(actual, op, value) \in BOOLEAN
  BY DEF MS!FilterValueMatches, MS!CompareFilterNumber
<1> QED  BY <1>1, <1>2

LEMMA MemoryStored ==
  ASSUME SearchInv, MS!Remember
  PROVE  SearchInv'
<1>1. PICK memory \in StoredTexts, i \in 1..(Len(stored) + 1) :
        stored' = [k \in 1..(Len(stored) + 1) |->
                     IF k < i THEN stored[k] ELSE IF k = i THEN memory ELSE stored[k - 1]]
  BY DEF MS!Remember
<1>2. stored \in Seq(StoredTexts) /\ Len(stored) \in Nat
  BY DEF SearchInv
<1>3. \A k \in 1..(Len(stored) + 1) : stored'[k] \in StoredTexts
  BY <1>1, <1>2
<1>4. stored' \in Seq(StoredTexts)
  BY <1>1, <1>2, <1>3
<1>5. searching' = searching /\ searchRequest' = searchRequest /\ searching # "answered"
  BY DEF MS!Remember
<1> QED  BY <1>4, <1>5 DEF SearchInv, MS!ValidSearch

LEMMA BestAreFound ==
  ASSUME SearchInv, MS!Answer
  PROVE  /\ MS!BestMatchesFound'
         /\ \A r \in DOMAIN found' : \E i \in DOMAIN stored' : found'[r] = stored'[i]
<1> DEFINE req == searchRequest
           S == MS!Scored(req, MS!Listing(req))
           R == {p \in S \X S : MS!Before(p[1], p[2])}
           ranking == MS!Ranked(S)
           n == Cardinality(S)
           m == IF MS!Limit(req) < n THEN MS!Limit(req) ELSE n
           score(i) == MS!FinalScore(stored[i])
           eligible(t) == /\ req.scope \subseteq t.scope
                          /\ t.semantic >= req.threshold
                          /\ MS!MatchesMetadataFilters(t, req)
<1>1. /\ stored \in Seq(StoredTexts) /\ Len(stored) \in Nat /\ DOMAIN stored = 1..Len(stored)
      /\ req \in SearchRequests /\ req.topK >= 0 /\ req.topK \in Int
  <2>1. searching = "embed"
    BY DEF MS!Answer
  <2>2. stored \in Seq(StoredTexts) /\ req \in SearchRequests /\ MS!ValidSearch(req)
    BY <2>1 DEF SearchInv
  <2>3. req.topK >= 0
    BY <2>2, Zenon DEF MS!ValidSearch
  <2> QED  BY <2>2, <2>3, SearchAssumption
<1>2. /\ found' = MS!Cut(ranking, req) /\ stored' = stored /\ searchRequest' = searchRequest
      /\ searching' = "answered"
  BY DEF MS!Answer, MS!Found
<1>3. S = {i \in DOMAIN stored : eligible(stored[i])}
  BY DEF MS!Scored, MS!Listing
<1>4. S \subseteq 1..Len(stored) /\ IsFiniteSet(S) /\ n \in Nat
  <2>1. S \subseteq 1..Len(stored)
    BY <1>1, <1>3
  <2>2. IsFiniteSet(1..Len(stored))
    BY <1>1, FS_Interval
  <2> HIDE DEF S
  <2> QED  BY <2>1, <2>2, FS_Subset, FS_CardinalityType
<1>5. \A i \in 1..Len(stored) : score(i) \in Int
  <2>1. \A i \in 1..Len(stored) : stored[i].semantic \in Int /\ stored[i].keyword \in Int
    BY <1>1, SearchAssumption
  <2> QED  BY <2>1 DEF MS!FinalScore
<1>6. \A i, j : MS!Before(i, j) <=> score(i) > score(j) \/ (score(i) = score(j) /\ i < j)
  BY DEF MS!Before
<1> HIDE DEF score
<1>7. IsRanking(S, R)
  <2>1. \A i, j \in S : <<i, j>> \in R <=> MS!Before(i, j)
    OBVIOUS
  <2> HIDE DEF S, R
  <2>2. \A i \in S : i \in Int /\ score(i) \in Int
    BY <1>4, <1>5
  <2> QED  BY <1>4, <1>6, <2>1, <2>2 DEF IsRanking
<1>8. \A i, j \in S : <<i, j>> \in R <=> MS!Before(i, j)
  OBVIOUS
<1>9. ranking = InOrder(S, R)
  <2>1. \A i \in S : {j \in S : MS!Before(j, i)} = Preceding(S, R, i)
    BY DEF Preceding
  <2> HIDE DEF S, R
  <2>2. MS!Cardinality(S) = Cardinality(S)
    BY SameCardinalityOfMatches
  <2>3. \A i \in S : MS!Cardinality({j \in S : MS!Before(j, i)}) = Place(S, R, i)
    BY <2>1, SameCardinalityOfMatches DEF Place
  <2> QED  BY <2>2, <2>3 DEF MS!Ranked, InOrder
<1> HIDE DEF S, R, ranking
<1>10. /\ ranking \in [1..n -> S]
       /\ \A i \in S : \E r \in 1..n : ranking[r] = i
       /\ \A q, r \in 1..n : q < r <=> <<ranking[q], ranking[r]>> \in R
  BY <1>7, <1>9, OrderedHasAll
<1>11. m \in Nat /\ m <= n /\ MS!Limit(req) \in Nat \ {0}
  BY <1>1, <1>4, SearchAssumption DEF MS!Limit
<1>12. DOMAIN found' = 1..m /\ Len(found') = m /\ \A r \in 1..m : found'[r] = stored[ranking[r]]
  <2>1. Len(ranking) = n
    BY <1>4, <1>10
  <2>2. found' = [r \in 1..m |-> stored[ranking[r]]]
    BY <1>2, <2>1 DEF MS!Cut
  <2> QED  BY <1>11, <2>2
<1>13. \A q, r \in 1..n : q < r => score(ranking[q]) >= score(ranking[r])
  <2> SUFFICES ASSUME NEW q \in 1..n, NEW r \in 1..n, q < r PROVE score(ranking[q]) >= score(ranking[r])
    OBVIOUS
  <2>1. ranking[q] \in S /\ ranking[r] \in S
    BY <1>10
  <2>2. MS!Before(ranking[q], ranking[r])
    BY <1>8, <1>10, <2>1
  <2>3. score(ranking[q]) \in Int /\ score(ranking[r]) \in Int
    BY <1>4, <1>5, <2>1
  <2> QED  BY <1>6, <2>2, <2>3
<1>14. \A r \in DOMAIN found' : eligible(found'[r])
  <2>1. \A i \in S : eligible(stored[i])
    BY <1>3
  <2> HIDE DEF eligible
  <2>2. \A r \in 1..m : r \in 1..n
    BY <1>4, <1>11
  <2> QED  BY <1>10, <1>12, <2>1, <2>2
<1>15. \A r \in 1..(Len(found') - 1) : MS!FinalScore(found'[r]) >= MS!FinalScore(found'[r + 1])
  <2> SUFFICES ASSUME NEW r \in 1..(m - 1) PROVE score(ranking[r]) >= score(ranking[r + 1])
    BY <1>11, <1>12 DEF score
  <2>1. r \in 1..n /\ r + 1 \in 1..n /\ r < r + 1
    BY <1>4, <1>11
  <2> QED  BY <1>13, <2>1
<1>16. \A i \in S : \/ \E r \in DOMAIN found' : found'[r] = stored[i]
                    \/ /\ Len(found') = MS!Limit(req)
                       /\ MS!FinalScore(stored[i]) <= MS!FinalScore(found'[Len(found')])
  <2> SUFFICES ASSUME NEW i \in S
               PROVE  \/ \E r \in DOMAIN found' : found'[r] = stored[i]
                      \/ m = MS!Limit(req) /\ score(i) <= score(ranking[m])
    BY <1>4, <1>11, <1>12 DEF score
  <2>1. PICK r \in 1..n : ranking[r] = i
    BY <1>10
  <2>2. CASE r <= m
    BY <1>4, <1>11, <1>12, <2>1, <2>2
  <2>3. CASE r > m
    <3>1. m = MS!Limit(req) /\ m \in 1..n /\ m < r
      BY <1>4, <1>11, <2>3
    <3>2. score(ranking[m]) >= score(i)
      BY <1>13, <2>1, <3>1
    <3>3. score(ranking[m]) \in Int /\ score(i) \in Int
      BY <1>4, <1>5, <1>10, <3>1
    <3> QED  BY <3>1, <3>2, <3>3
  <2> QED  BY <1>4, <1>11, <2>2, <2>3
<1>17. MS!FiltersComplement'
  BY FiltersAreComplements DEF MS!FiltersComplement
<1>18. \A r \in DOMAIN found' : \E i \in DOMAIN stored' : found'[r] = stored'[i]
  <2> SUFFICES ASSUME NEW r \in 1..m PROVE \E i \in DOMAIN stored : found'[r] = stored[i]
    BY <1>2, <1>12
  <2>1. r \in 1..n
    BY <1>4, <1>11
  <2>2. ranking[r] \in DOMAIN stored
    BY <1>1, <1>4, <1>10, <2>1
  <2> QED  BY <1>12, <2>2
<1> QED  BY <1>2, <1>3, <1>14, <1>15, <1>16, <1>17, <1>18 DEF MS!BestMatchesFound

LEMMA SearchSteps == SearchInv /\ [MS!Next]_searchVars => SearchInv'
<1> SUFFICES ASSUME SearchInv, [MS!Next]_searchVars PROVE SearchInv'
  OBVIOUS
<1>1. CASE UNCHANGED searchVars
  BY <1>1 DEF searchVars, SearchInv, MS!ValidSearch, MS!BestMatchesFound, MS!FiltersComplement
<1>2. CASE MS!Search
  <2>1. PICK req \in SearchRequests :
          searchRequest' = req /\ searching' = IF MS!ValidSearch(req) THEN "embed" ELSE "refused"
    BY <1>2 DEF MS!Search
  <2>2. stored' = stored
    BY <1>2 DEF MS!Search
  <2> QED  BY <2>1, <2>2 DEF SearchInv, MS!ValidSearch
<1>3. CASE MS!Answer
  <2>1. searching' = "answered" /\ searchRequest' = searchRequest /\ stored' = stored /\ searching = "embed"
    BY <1>3 DEF MS!Answer
  <2> QED  BY <1>3, <2>1, BestAreFound DEF SearchInv
<1> QED  BY <1>1, <1>2, <1>3, MemoryStored DEF MS!Next

LEMMA SearchShows == SearchInv => MS!BestMatchesFound
BY FiltersAreComplements DEF SearchInv, MS!BestMatchesFound

\* Nothing is found before the search answers, and then only what is stored.
SearchTypes ==
  /\ Len(stored) <= MaxStored
  /\ searching # "answered" => found = <<>>
  /\ \A r \in DOMAIN found : \E i \in DOMAIN stored : found[r] = stored[i]

LEMMA SearchTypesStart == MS!Init => SearchTypes
<1> SUFFICES ASSUME MS!Init PROVE SearchTypes
  OBVIOUS
<1>1. stored = <<>> /\ found = <<>>
  BY DEF MS!Init
<1>2. Len(stored) = 0 /\ DOMAIN found = {}
  BY <1>1
<1> QED  BY <1>1, <1>2, SearchAssumption DEF SearchTypes

LEMMA SearchTypesStep ==
  ASSUME SearchInv, SearchTypes, [MS!Next]_searchVars PROVE SearchTypes'
<1>1. CASE UNCHANGED searchVars
  BY <1>1 DEF searchVars, SearchTypes
<1>2. CASE MS!Remember
  <2>1. PICK memory \in StoredTexts, i \in 1..(Len(stored) + 1) :
          stored' = [k \in 1..(Len(stored) + 1) |->
                       IF k < i THEN stored[k] ELSE IF k = i THEN memory ELSE stored[k - 1]]
    BY <1>2 DEF MS!Remember
  <2>2. Len(stored) \in Nat
    BY LenProperties DEF SearchInv
  <2>3. Len(stored') = Len(stored) + 1
    BY <2>1, <2>2
  <2>4. Len(stored) < MaxStored /\ searching # "answered" /\ UNCHANGED <<searching, found>>
    BY <1>2 DEF MS!Remember
  <2>5. found' = <<>>
    BY <2>4 DEF SearchTypes
  <2> QED  BY <2>2, <2>3, <2>4, <2>5, SearchAssumption DEF SearchTypes
<1>3. CASE MS!Search
  <2>1. UNCHANGED <<stored, found>> /\ searching = "open"
    BY <1>3 DEF MS!Search
  <2> QED  BY <2>1 DEF SearchTypes
<1>4. CASE MS!Answer
  <2>1. stored' = stored /\ searching' = "answered"
    BY <1>4 DEF MS!Answer
  <2>2. \A r \in DOMAIN found' : \E i \in DOMAIN stored' : found'[r] = stored'[i]
    BY <1>4, BestAreFound
  <2> QED  BY <2>1, <2>2 DEF SearchTypes
<1> QED  BY <1>1, <1>2, <1>3, <1>4 DEF MS!Next

LEMMA SearchTypesShow == SearchInv /\ SearchTypes => MS!TypeOK
<1> SUFFICES ASSUME SearchInv, SearchTypes PROVE MS!TypeOK
  OBVIOUS
<1>1. \A i \in DOMAIN stored : stored[i] \in StoredTexts
  BY DEF SearchInv
<1> QED  BY <1>1 DEF SearchTypes, MS!TypeOK

---------------------------------------------------------------------------
(* memory/failure_tracking, RecallBeforeTool.                              *)

VARIABLES journalled, recalling, matches
recallVars == <<journalled, recalling, matches>>
FR == INSTANCE FailureRecall

JournalEntry == {e : e \in {FR!Normalized(d) : d \in DraftEntries}}
Grounding(e) ==
  /\ e.status = "approved" => e.reviewed
  /\ FR!Grounded(e.recall.keys, e.evidence.state)

FromTheJournal == \A r \in DOMAIN matches : \E i \in DOMAIN journalled : matches[r] = journalled[i]
AdviceInv ==
  /\ journalled \in Seq(JournalEntry)
  /\ \A i \in DOMAIN journalled : Grounding(journalled[i])
  /\ recalling = FR!NoRecall => matches = <<>>
  /\ FR!TriggersComeFirst /\ FromTheJournal

LEMMA RecallStarts == FR!Init => AdviceInv
<1> SUFFICES ASSUME FR!Init PROVE AdviceInv
  OBVIOUS
<1>1. journalled = <<>> /\ recalling = FR!NoRecall /\ matches = <<>>
  BY DEF FR!Init
<1>2. FR!TriggersComeFirst
  BY <1>1 DEF FR!TriggersComeFirst
<1> QED  BY <1>1, <1>2 DEF AdviceInv, FromTheJournal

LEMMA SameCardinalityOfRecalls == \A S : FR!Cardinality(S) = Cardinality(S)
BY DEF FR!Cardinality, Cardinality

LEMMA EntriesHaveSimilarities ==
  ASSUME NEW e \in JournalEntry
  PROVE  e.semantic \in Int
<1>1. PICK d \in DraftEntries : e = FR!Normalized(d)
  BY DEF JournalEntry
<1>2. e = d \/ e = [d EXCEPT !.status = "draft"]
  BY <1>1, Zenon DEF FR!Normalized
<1>3. "semantic" \in DOMAIN d /\ d.semantic \in Int
  BY RecallAssumption
<1> QED  BY <1>2, <1>3

LEMMA FailureRecorded ==
  ASSUME AdviceInv, FR!Record
  PROVE  AdviceInv'
<1>1. PICK d \in DraftEntries :
        FR!ValidEntry(FR!Normalized(d)) /\ journalled' = <<FR!Normalized(d)>> \o journalled
  BY DEF FR!Record
<1> DEFINE e == FR!Normalized(d)
<1>2. e \in JournalEntry
  BY DEF JournalEntry
<1>3. Grounding(e)
  BY <1>1, Zenon DEF FR!ValidEntry, FR!ValidateRecallGrounding, Grounding
<1>4. journalled \in Seq(JournalEntry) /\ \A i \in DOMAIN journalled : Grounding(journalled[i])
  BY DEF AdviceInv
<1>5. /\ recalling' = recalling /\ matches' = matches /\ recalling = FR!NoRecall /\ matches = <<>>
  BY DEF FR!Record, AdviceInv
<1> HIDE DEF e
<1>6. journalled' = <<e>> \o journalled
  BY <1>1 DEF e
<1>7. /\ journalled' \in Seq(JournalEntry) /\ DOMAIN journalled' = 1..(Len(journalled) + 1)
      /\ \A i \in 1..(Len(journalled) + 1) : journalled'[i] = IF i = 1 THEN e ELSE journalled[i - 1]
  BY <1>2, <1>4, <1>6
<1>8. \A i \in DOMAIN journalled' : Grounding(journalled'[i])
  <2> TAKE i \in DOMAIN journalled'
  <2>1. i = 1 \/ i - 1 \in DOMAIN journalled
    BY <1>4, <1>7
  <2>2. CASE i = 1
    BY <1>3, <1>7, <2>2
  <2>3. CASE i # 1
    BY <1>4, <1>7, <2>1, <2>3
  <2> QED  BY <2>2, <2>3
<1>9. FR!TriggersComeFirst'
  BY <1>5 DEF FR!TriggersComeFirst
<1>10. FromTheJournal'
  BY <1>5 DEF FromTheJournal
<1> QED  BY <1>5, <1>7, <1>8, <1>9, <1>10 DEF AdviceInv, Grounding, FR!Grounded

LEMMA StructuredScoresAreNumbers ==
  ASSUME NEW req \in RecallRequests, NEW e
  PROVE  FR!StructuredScore(req, e) \in Nat
<1> DEFINE pointsFor(c, n) == FR!Points(c, n)
           a == FR!Points(req.family # "" /\ req.family \in e.recall.families, 3)
           b == FR!Points(req.family # "" /\ req.family = e.family /\ req.family \notin e.recall.families, 2)
           c == FR!Points(req.tool # "" /\ req.tool \in e.recall.tools, 3)
           f == FR!Points(e.category \in req.categories \ e.recall.categories, 1)
           g == FR!Cardinality(req.keys \cap e.recall.keys)
           h == FR!Cardinality(req.categories \cap e.recall.categories)
<1>1. FR!StructuredScore(req, e) = a + b + c + g + h + f
  BY Zenon DEF FR!StructuredScore
<1>2. a \in {0, 3} /\ b \in {0, 2} /\ c \in {0, 3} /\ f \in {0, 1}
  BY Zenon DEF FR!Points
<1>3. g \in Nat /\ h \in Nat
  <2>1. IsFiniteSet(req.keys) /\ IsFiniteSet(req.categories)
    BY RecallAssumption
  <2>2. IsFiniteSet(req.keys \cap e.recall.keys) /\ IsFiniteSet(req.categories \cap e.recall.categories)
    BY <2>1, FS_Intersection
  <2> QED  BY <2>2, FS_CardinalityType, SameCardinalityOfRecalls
<1> HIDE DEF a, b, c, f, g, h
<1> QED  BY <1>1, <1>2, <1>3

LEMMA RecallOrder ==
  ASSUME AdviceInv, NEW req \in RecallRequests,
         NEW R, \A i, j \in DOMAIN journalled : <<i, j>> \in R <=> FR!Before(req, i, j),
         NEW S, S \subseteq DOMAIN journalled
  PROVE  /\ IsRanking(S, R) /\ FR!Ranked(req, S) = InOrder(S, R)
         /\ \A i \in S : FR!Cardinality({j \in S : FR!Before(req, j, i)}) = Place(S, R, i)
<1> DEFINE struct(i) == FR!StructuredScore(req, journalled[i])
           total(i) == FR!Score(req, journalled[i])
<1>1. DOMAIN journalled = 1..Len(journalled) /\ Len(journalled) \in Nat
  BY DEF AdviceInv
<1>2. \A i \in DOMAIN journalled : struct(i) \in Int /\ total(i) \in Int
  <2> TAKE i \in DOMAIN journalled
  <2>1. struct(i) \in Int
    BY StructuredScoresAreNumbers
  <2>2. journalled[i].semantic \in Int
    <3>1. journalled[i] \in JournalEntry
      BY DEF AdviceInv
    <3> QED  BY <3>1, EntriesHaveSimilarities
  <2>3. total(i) = IF struct(i) = 0 THEN 5 * journalled[i].semantic ELSE 50 * struct(i) + journalled[i].semantic
    BY DEF FR!Score
  <2> HIDE DEF struct, total
  <2> QED  BY <2>1, <2>2, <2>3
<1>3. \A i, j : FR!Before(req, i, j) <=>
        \/ struct(i) > struct(j)
        \/ struct(i) = struct(j) /\ (total(i) > total(j) \/ (total(i) = total(j) /\ i < j))
  BY DEF FR!Before
<1> HIDE DEF struct, total
<1>4. \A i, j \in DOMAIN journalled : <<i, j>> \in R <=> FR!Before(req, i, j)
  OBVIOUS
<1>5. IsFiniteSet(S)
  <2>1. S \subseteq 1..Len(journalled) /\ IsFiniteSet(1..Len(journalled))
    BY <1>1, FS_Interval
  <2> QED  BY <2>1, FS_Subset
<1>6. IsRanking(S, R)
  <2>1. \A i \in S : i \in Int /\ struct(i) \in Int /\ total(i) \in Int
    BY <1>1, <1>2
  <2>2. \A i, j \in S : <<i, j>> \in R <=>
          \/ struct(i) > struct(j)
          \/ struct(i) = struct(j) /\ (total(i) > total(j) \/ (total(i) = total(j) /\ i < j))
    BY <1>3, <1>4
  <2> QED  BY <1>5, <2>1, <2>2 DEF IsRanking
<1>7. \A i \in S : FR!Cardinality({j \in S : FR!Before(req, j, i)}) = Place(S, R, i)
  <2>1. \A i \in S : {j \in S : FR!Before(req, j, i)} = Preceding(S, R, i)
    BY <1>4 DEF Preceding
  <2> QED  BY <2>1, SameCardinalityOfRecalls DEF Place
<1>8. FR!Ranked(req, S) = InOrder(S, R)
  <2>1. FR!Cardinality(S) = Cardinality(S)
    BY SameCardinalityOfRecalls
  <2>2. FR!Ranked(req, S) = [r \in 1..Cardinality(S) |-> CHOOSE i \in S : Place(S, R, i) = r - 1]
    BY <1>7, <2>1 DEF FR!Ranked
  <2> QED  BY <2>2 DEF InOrder
<1> QED  BY <1>6, <1>7, <1>8

LEMMA TriggersAreRecalled ==
  ASSUME AdviceInv, FR!RecallBeforeTool
  PROVE  AdviceInv'
<1>1. PICK req \in RecallRequests :
        /\ FR!RecallRequested(req) /\ recalling' = req
        /\ matches' = [r \in 1..FR!Cardinality(FR!Recalled(req)) |->
                         journalled[FR!Ranked(req, FR!Recalled(req))[r]]]
  BY DEF FR!RecallBeforeTool
<1> DEFINE R == {p \in (DOMAIN journalled) \X (DOMAIN journalled) : FR!Before(req, p[1], p[2])}
           A == FR!Related(req)
           T == FR!TopMatches(req)
           Q == FR!Recalled(req)
           K == FR!Limit(req)
           n == Cardinality(Q)
           struct(i) == FR!StructuredScore(req, journalled[i])
<1>2. /\ journalled' = journalled /\ DOMAIN journalled = 1..Len(journalled) /\ Len(journalled) \in Nat
      /\ \A i \in DOMAIN journalled : Grounding(journalled[i])
  BY DEF AdviceInv, FR!RecallBeforeTool
<1>3. req # FR!NoRecall
  <2>1. /\ FR!NoRecall.family = "" /\ FR!NoRecall.tool = "" /\ FR!NoRecall.query = ""
        /\ FR!NoRecall.keys = {} /\ FR!NoRecall.categories = {}
    BY DEF FR!NoRecall
  <2> QED  BY <1>1, <2>1, Zenon DEF FR!RecallRequested
<1>4. K \in Nat \ {0}
  BY RecallAssumption DEF FR!Limit
<1>5. A \subseteq DOMAIN journalled /\ T \subseteq A /\ Q \subseteq T
  BY DEF FR!Related, FR!TopMatches, FR!Recalled
<1>6. /\ IsRanking(A, R) /\ IsRanking(Q, R) /\ FR!Ranked(req, Q) = InOrder(Q, R)
      /\ \A i \in A : FR!Cardinality({j \in A : FR!Before(req, j, i)}) = Place(A, R, i)
  <2>1. A \subseteq DOMAIN journalled /\ Q \subseteq DOMAIN journalled
    BY <1>5
  <2>2. \A i, j \in DOMAIN journalled : <<i, j>> \in R <=> FR!Before(req, i, j)
    OBVIOUS
  <2>3. ASSUME NEW S, S \subseteq DOMAIN journalled
        PROVE  /\ IsRanking(S, R) /\ FR!Ranked(req, S) = InOrder(S, R)
               /\ \A i \in S : FR!Cardinality({j \in S : FR!Before(req, j, i)}) = Place(S, R, i)
    <3> HIDE DEF R, A, T, Q, K, n, struct
    <3> QED  BY <2>2, <2>3, RecallOrder
  <2>4. IsRanking(Q, R) /\ FR!Ranked(req, Q) = InOrder(Q, R)
    BY <2>1, <2>3
  <2>5. IsRanking(A, R) /\ \A i \in A : FR!Cardinality({j \in A : FR!Before(req, j, i)}) = Place(A, R, i)
    BY <2>1, <2>3
  <2> QED  BY <2>4, <2>5
<1>7. T = {i \in A : Place(A, R, i) < K}
  BY <1>6 DEF FR!TopMatches
<1>8. \A i \in T : struct(i) > 0 => i \in Q
  BY DEF FR!Recalled
<1>9. \A i \in DOMAIN journalled : journalled[i].status = "approved" /\ struct(i) > 0 => i \in A
  BY DEF FR!Related
<1>10. \A i \in A : journalled[i].status = "approved"
  BY DEF FR!Related
<1>11. \A i \in DOMAIN journalled : struct(i) \in Nat
  BY StructuredScoresAreNumbers
<1>12. \A i, j \in DOMAIN journalled : <<i, j>> \in R => struct(i) >= struct(j)
  <2> SUFFICES ASSUME NEW i \in DOMAIN journalled, NEW j \in DOMAIN journalled, FR!Before(req, i, j)
               PROVE  struct(i) >= struct(j)
    OBVIOUS
  <2>1. struct(i) > struct(j) \/ struct(i) = struct(j)
    BY DEF FR!Before
  <2> HIDE DEF struct
  <2> QED  BY <1>11, <2>1
<1> HIDE DEF R, A, T, Q, K, struct
<1>13. /\ n \in Nat /\ DOMAIN matches' = 1..n /\ Len(matches') = n
       /\ \A r \in 1..n : \E i \in Q : matches'[r] = journalled[i]
       /\ \A i \in Q : \E r \in 1..n : matches'[r] = journalled[i]
  <2>1. matches' = [r \in 1..n |-> journalled[InOrder(Q, R)[r]]]
    BY <1>1, <1>6, SameCardinalityOfRecalls DEF Q
  <2>2. /\ n \in Nat /\ InOrder(Q, R) \in [1..n -> Q]
        /\ \A i \in Q : \E r \in 1..n : InOrder(Q, R)[r] = i
    BY <1>6, OrderedHasAll
  <2>3. DOMAIN matches' = 1..n /\ Len(matches') = n
    BY <2>1, <2>2
  <2>4. \A r \in 1..n : InOrder(Q, R)[r] \in Q
    BY <2>2
  <2> HIDE DEF n
  <2> QED  BY <2>1, <2>2, <2>3, <2>4
<1>14. ASSUME NEW i \in DOMAIN journalled, journalled[i].status = "approved", struct(i) > 0,
              \A r \in DOMAIN matches' : matches'[r] # journalled[i]
       PROVE  /\ Len(matches') = K
              /\ \A r \in DOMAIN matches' : FR!StructuredScore(req, matches'[r]) >= struct(i)
  <2>1. i \in A /\ i \notin Q
    BY <1>9, <1>13, <1>14
  <2>2. i \notin T
    BY <1>8, <1>14, <2>1
  <2>3. Place(A, R, i) >= K
    <3>1. ~(Place(A, R, i) < K)
      BY <1>7, <2>1, <2>2
    <3>2. Place(A, R, i) \in Int
      BY <1>6, <2>1, PlacesFollowTheOrder
    <3> QED  BY <1>4, <3>1, <3>2
  <2>4. Cardinality(T) = K
    BY <1>4, <1>6, <1>7, <2>1, <2>3, FirstPlaces
  <2>5. ASSUME NEW j \in T PROVE struct(j) >= struct(i) /\ j \in Q
    <3>1. j \in A /\ Place(A, R, j) < Place(A, R, i)
      <4>1. j \in A /\ Place(A, R, j) < K
        BY <1>7
      <4>2. Place(A, R, j) \in Int /\ Place(A, R, i) \in Int
        BY <1>6, <2>1, <4>1, PlacesFollowTheOrder
      <4> QED  BY <1>4, <2>3, <4>1, <4>2
    <3>2. <<j, i>> \in R
      BY <1>6, <2>1, <3>1, PlacesFollowTheOrder
    <3>3. j \in DOMAIN journalled /\ struct(j) >= struct(i)
      BY <1>5, <1>12, <3>1, <3>2
    <3>4. struct(j) > 0
      BY <1>11, <1>14, <3>3
    <3> QED  BY <1>8, <3>3, <3>4
  <2>6. Q = T
    BY <1>5, <2>5
  <2>7. Len(matches') = K
    BY <1>13, <2>4, <2>6
  <2>8. \A r \in 1..n : FR!StructuredScore(req, matches'[r]) >= struct(i)
    <3> TAKE r \in 1..n
    <3>1. PICK j \in Q : matches'[r] = journalled[j]
      BY <1>13
    <3>2. struct(j) >= struct(i)
      BY <2>5, <2>6
    <3> QED  BY <3>1, <3>2 DEF struct
  <2> QED  BY <1>13, <2>7, <2>8
<1>15. ASSUME NEW r \in DOMAIN matches'
       PROVE  /\ matches'[r].reviewed
              /\ req.keys \cap matches'[r].recall.keys # {} =>
                   matches'[r].recall.keys \cap matches'[r].evidence.state # {}
  <2>1. PICK j \in Q : matches'[r] = journalled[j]
    BY <1>13
  <2>2. j \in A /\ Grounding(journalled[j]) /\ journalled[j].status = "approved"
    BY <1>2, <1>5, <1>10
  <2> QED  BY <2>1, <2>2 DEF Grounding, FR!Grounded
<1>16. FR!TriggersComeFirst'
  <2>1. recalling' = req /\ FR!Limit(req) = K
    BY <1>1 DEF K
  <2>2. \A i \in DOMAIN journalled' : struct(i) = FR!StructuredScore(recalling', journalled'[i])
    BY <1>2, <2>1 DEF struct
  <2> QED  BY <1>2, <1>14, <1>15, <2>1, <2>2 DEF FR!TriggersComeFirst, FR!Limit
<1>17. journalled \in Seq(JournalEntry)
  BY DEF AdviceInv
<1>18. FromTheJournal'
  BY <1>2, <1>5, <1>13 DEF FromTheJournal
<1> QED  BY <1>1, <1>2, <1>3, <1>16, <1>17, <1>18 DEF AdviceInv, Grounding, FR!Grounded

LEMMA RecallSteps == AdviceInv /\ [FR!Next]_recallVars => AdviceInv'
<1> SUFFICES ASSUME AdviceInv, [FR!Next]_recallVars PROVE AdviceInv'
  OBVIOUS
<1>1. CASE UNCHANGED recallVars
  <2>1. journalled' = journalled /\ recalling' = recalling /\ matches' = matches
    BY <1>1 DEF recallVars
  <2> QED  BY <2>1, Zenon DEF AdviceInv, FR!TriggersComeFirst, FromTheJournal
<1> QED  BY <1>1, FailureRecorded, TriggersAreRecalled DEF FR!Next

LEMMA RecallShows == AdviceInv => FR!TriggersComeFirst
BY DEF AdviceInv

RecallTypes == Len(journalled) <= MaxEntries

LEMMA RecallTypesStart == FR!Init => RecallTypes
<1> SUFFICES ASSUME FR!Init PROVE RecallTypes
  OBVIOUS
<1>1. journalled = <<>>
  BY DEF FR!Init
<1> QED  BY <1>1, RecallAssumption DEF RecallTypes

LEMMA RecallTypesStep ==
  ASSUME AdviceInv, RecallTypes, [FR!Next]_recallVars PROVE RecallTypes'
<1>1. CASE FR!Record
  <2>1. Len(journalled) < MaxEntries /\ journalled \in Seq(JournalEntry)
    BY <1>1, Zenon DEF FR!Record, AdviceInv
  <2>2. PICK d \in DraftEntries : journalled' = <<FR!Normalized(d)>> \o journalled
    BY <1>1 DEF FR!Record
  <2> DEFINE e == FR!Normalized(d)
  <2>3. e \in JournalEntry
    BY DEF JournalEntry
  <2>4. journalled' = <<e>> \o journalled
    BY <2>2
  <2> HIDE DEF e
  <2>5. Len(journalled') = Len(journalled) + 1
    BY <2>1, <2>3, <2>4
  <2>6. Len(journalled) \in Nat
    BY <2>1, LenProperties
  <2> QED  BY <2>1, <2>5, <2>6, RecallAssumption DEF RecallTypes
<1>2. CASE journalled' = journalled
  BY <1>2 DEF RecallTypes
<1> QED  BY <1>1, <1>2, Zenon DEF FR!Next, FR!RecallBeforeTool, recallVars

LEMMA RecallTypesShow == AdviceInv /\ RecallTypes => FR!TypeOK
BY DEF AdviceInv, FromTheJournal, RecallTypes, FR!TypeOK

---------------------------------------------------------------------------
(* memory/hierarchical_v1, AssembleContext.                                *)

VARIABLES known, expired, assemblies, selected, assembled
contextVars == <<known, expired, assemblies, selected, assembled>>
LC == INSTANCE LayeredContext

ContextLayers == {"policy", "project", "user", "task", "scratchpad"}
RememberedEntry == [layer : ContextLayers, confidence : Int \ {0}, tokens : Nat, accessed : Int]
KeysTaken == [used : [ContextLayers -> Nat], keys : Seq(EntryKeys)]
AsCertainAs(k) ==
  {o \in EntryKeys : known[o].layer = known[k].layer /\ known[o].confidence >= known[k].confidence}
KeysOfLayer(l) == {k \in EntryKeys : known[k].layer = l}

KnownIsTyped ==
  /\ DOMAIN known = EntryKeys
  /\ \A k \in EntryKeys : known[k] = LC!Nothing \/ known[k] \in RememberedEntry

ContextInv ==
  /\ KnownIsTyped /\ assemblies \in 0..MaxAssemblies /\ selected \in Seq(EntryKeys)
  /\ LC!AssembledByCertainty

LEMMA ContextStarts == LC!Init => ContextInv
<1> SUFFICES ASSUME LC!Init PROVE ContextInv
  OBVIOUS
<1>1. known = [k \in EntryKeys |-> LC!Nothing] /\ assemblies = 0 /\ selected = <<>> /\ assembled = FALSE
  BY DEF LC!Init
<1>2. LC!AssembledByCertainty
  BY <1>1 DEF LC!AssembledByCertainty
<1>3. 0 \in 0..MaxAssemblies /\ selected \in Seq(EntryKeys)
  BY <1>1, LayerAssumption
<1> QED  BY <1>1, <1>2, <1>3 DEF ContextInv, KnownIsTyped

LEMMA TokensOfEntries ==
  ASSUME KnownIsTyped, NEW k \in EntryKeys
  PROVE  known[k].tokens \in Nat /\ known[k].confidence \in Int
<1>1. CASE known[k] = LC!Nothing
  BY <1>1 DEF LC!Nothing
<1>2. CASE known[k] \in RememberedEntry
  BY <1>2 DEF RememberedEntry
<1> QED  BY <1>1, <1>2 DEF KnownIsTyped

LEMMA BudgetsOfContext ==
  /\ DOMAIN LC!MergePolicies = ContextLayers
  /\ \A l \in ContextLayers : LC!MergePolicies[l] \in Nat
BY LayerAssumption DEF LC!MergePolicies, ContextLayers

LEMMA SameTotalOfKeys == \A w : LC!Total(w) = Total(w)
BY DEF LC!Total, Total

LEMMA TokensOfNoKeys == \A counted : LC!TokensOf(<<>>, counted) = 0
<1> TAKE counted
<1>1. [i \in DOMAIN <<>> |-> IF <<>>[i] \in counted THEN known[<<>>[i]].tokens ELSE 0] = <<>>
  OBVIOUS
<1> QED  BY <1>1, SameTotalOfKeys, TotalOfNone DEF LC!TokensOf

LEMMA TokensOfMoreKeys ==
  ASSUME KnownIsTyped, NEW keys \in Seq(EntryKeys), NEW k \in EntryKeys, NEW counted
  PROVE  /\ LC!TokensOf(keys, counted) \in Nat
         /\ LC!TokensOf(Append(keys, k), counted) =
              LC!TokensOf(keys, counted) + IF k \in counted THEN known[k].tokens ELSE 0
<1> DEFINE weight(s) == IF s \in counted THEN known[s].tokens ELSE 0
           w == [i \in DOMAIN keys |-> weight(keys[i])]
           v == [i \in DOMAIN Append(keys, k) |-> weight(Append(keys, k)[i])]
<1>1. \A s \in EntryKeys : weight(s) \in Nat
  BY TokensOfEntries
<1>2. /\ LC!TokensOf(keys, counted) = Total(w)
      /\ LC!TokensOf(Append(keys, k), counted) = Total(v)
  BY SameTotalOfKeys DEF LC!TokensOf
<1> HIDE DEF weight
<1>3. w \in Seq(Nat) /\ v = Append(w, weight(k))
  BY <1>1
<1>4. weight(k) \in Nat
  BY <1>1
<1> HIDE DEF w, v
<1>5. Total(w) \in Nat /\ Total(v) = Total(w) + weight(k)
  BY <1>3, <1>4, TotalOfMore
<1> QED  BY <1>2, <1>5 DEF weight

LEMMA OneMoreTaken ==
  ASSUME KnownIsTyped, NEW taken \in KeysTaken, NEW k \in EntryKeys, known[k] \in RememberedEntry
  PROVE  /\ LC!Take(taken, k) \in KeysTaken
         /\ IF taken.used[known[k].layer] + known[k].tokens <= LC!MergePolicies[known[k].layer]
            THEN /\ LC!Take(taken, k).keys = Append(taken.keys, k)
                 /\ \A l \in ContextLayers : LC!Take(taken, k).used[l] =
                      IF l = known[k].layer THEN taken.used[l] + known[k].tokens ELSE taken.used[l]
            ELSE LC!Take(taken, k) = taken
<1>1. known[k].layer \in ContextLayers /\ known[k].tokens \in Nat
  BY DEF RememberedEntry
<1>2. taken.used \in [ContextLayers -> Nat] /\ taken.keys \in Seq(EntryKeys)
  BY DEF KeysTaken
<1>3. CASE LC!Fits(taken, k)
  <2> DEFINE used == LC!Used(taken, k)
  <2>1. LC!Take(taken, k) = [used |-> used, keys |-> Append(taken.keys, k)]
    BY <1>3 DEF LC!Take
  <2>2. /\ used \in [ContextLayers -> Nat]
        /\ \A l \in ContextLayers : used[l] =
             IF l = known[k].layer THEN taken.used[l] + known[k].tokens ELSE taken.used[l]
    BY <1>1, <1>2 DEF LC!Used
  <2> HIDE DEF used
  <2>3. Append(taken.keys, k) \in Seq(EntryKeys)
    BY <1>2
  <2>4. LC!Take(taken, k) \in KeysTaken
    BY <2>1, <2>2, <2>3 DEF KeysTaken
  <2>5. LC!Take(taken, k).keys = Append(taken.keys, k) /\ LC!Take(taken, k).used = used
    BY <2>1
  <2> QED  BY <1>3, <2>2, <2>4, <2>5 DEF LC!Fits
<1>4. CASE ~LC!Fits(taken, k)
  <2>1. LC!Take(taken, k) = taken
    BY <1>4 DEF LC!Take
  <2> QED  BY <1>4, <2>1 DEF LC!Fits
<1> QED  BY <1>3, <1>4

LEMMA AssembledStepByStep ==
  ASSUME KnownIsTyped, NEW n \in Nat, NEW sequence \in [1..n -> EntryKeys],
         \A i \in 1..n : known[sequence[i]] \in RememberedEntry
  PROVE  \E f \in [0..n -> KeysTaken] :
           /\ f[0] = LC!NothingTaken /\ \A i \in 1..n : f[i] = LC!Take(f[i - 1], sequence[i])
           /\ LC!Assembled(sequence) = f[n].keys
<1> DEFINE g == [i \in 1..n |-> [t \in KeysTaken |-> LC!Take(t, sequence[i])]]
           step(f) == [i \in 0..n |-> IF i = 0 THEN LC!NothingTaken ELSE LC!Take(f[i - 1], sequence[i])]
           after == CHOOSE f : f = step(f)
<1>1. LC!NothingTaken \in KeysTaken
  <2>1. DOMAIN DefaultBudgets = ContextLayers
    BY LayerAssumption DEF ContextLayers
  <2>2. [l \in ContextLayers |-> 0] \in [ContextLayers -> Nat] /\ <<>> \in Seq(EntryKeys)
    OBVIOUS
  <2> QED  BY <2>1, <2>2 DEF LC!NothingTaken, KeysTaken
<1>2. g \in StepsIn(n, KeysTaken) /\ \A i \in 1..n, t \in KeysTaken : g[i][t] = LC!Take(t, sequence[i])
  <2>1. \A i \in 1..n, t \in KeysTaken : LC!Take(t, sequence[i]) \in KeysTaken
    BY OneMoreTaken
  <2> QED  BY <2>1 DEF StepsIn
<1> HIDE DEF g
<1>3. PICK f : FollowsSteps(f, n, KeysTaken, LC!NothingTaken, g)
  BY <1>1, <1>2, StepByStep, Zenon
<1>4. /\ f \in [0..n -> KeysTaken] /\ f[0] = LC!NothingTaken
      /\ \A i \in 1..n : f[i] = LC!Take(f[i - 1], sequence[i])
  <2>1. /\ f \in [0..n -> KeysTaken] /\ f[0] = LC!NothingTaken
        /\ \A i \in 1..n : f[i] = g[i][f[i - 1]]
    BY <1>3 DEF FollowsSteps
  <2>2. \A i \in 1..n : i - 1 \in 0..n
    OBVIOUS
  <2> QED  BY <1>2, <2>1, <2>2
<1>5. f = step(f)
  <2>1. \A i \in 0..n : f[i] = IF i = 0 THEN LC!NothingTaken ELSE LC!Take(f[i - 1], sequence[i])
    <3> TAKE i \in 0..n
    <3>1. i = 0 \/ i \in 1..n
      OBVIOUS
    <3> QED  BY <1>4, <3>1
  <2> QED  BY <1>4, <2>1
<1>6. after = step(after)
  BY <1>5
<1>7. LC!Assembled(sequence) = after[n].keys
  <2>1. Len(sequence) = n
    OBVIOUS
  <2> QED  BY <2>1 DEF LC!Assembled
<1> HIDE DEF after
<1>8. \A i \in 0..n : after[i] = f[i]
  <2> DEFINE P == {i \in 0..n : after[i] = f[i]}
  <2>1. 0 \in P
    BY <1>4, <1>6
  <2>2. ASSUME NEW i \in 1..n, i - 1 \in P PROVE i \in P
    <3>1. i \in 0..n /\ i # 0
      OBVIOUS
    <3>2. after[i] = LC!Take(after[i - 1], sequence[i])
      BY <1>6, <3>1
    <3> QED  BY <1>4, <2>2, <3>1, <3>2
  <2>3. 0..n \subseteq P
    <3> HIDE DEF P
    <3> QED  BY <2>1, <2>2, AllPositions
  <2> QED  BY <2>3
<1>9. n \in 0..n
  OBVIOUS
<1> QED  BY <1>4, <1>7, <1>8, <1>9

LEMMA AssembledInOrder ==
  ASSUME KnownIsTyped, NEW n \in Nat, NEW sequence \in [1..n -> EntryKeys],
         \A i \in 1..n : known[sequence[i]] \in RememberedEntry,
         \A i, j \in 1..n : sequence[i] = sequence[j] => i = j,
         \A i, j \in 1..n : LC!Earlier(sequence[i], sequence[j]) => i < j,
         NEW keys, keys = LC!Assembled(sequence)
  PROVE  /\ keys \in Seq(EntryKeys)
         /\ \A p \in DOMAIN keys : \E j \in 1..n : keys[p] = sequence[j]
         /\ \A p, q \in DOMAIN keys : keys[p] = keys[q] => p = q
         /\ \A l \in ContextLayers : LC!TokensOf(keys, KeysOfLayer(l)) <= LC!MergePolicies[l]
         /\ \A j \in 1..n :
              \/ \E p \in DOMAIN keys : keys[p] = sequence[j]
              \/ known[sequence[j]].tokens + LC!TokensOf(keys, AsCertainAs(sequence[j])) > LC!MergePolicies[known[sequence[j]].layer]
<1>1. PICK f \in [0..n -> KeysTaken] :
        /\ f[0] = LC!NothingTaken /\ \A i \in 1..n : f[i] = LC!Take(f[i - 1], sequence[i])
        /\ LC!Assembled(sequence) = f[n].keys
  BY AssembledStepByStep
<1> DEFINE budgetOf == LC!MergePolicies
           fromOrder(q, i) == \A p \in DOMAIN q : \E j \in 1..i : q[p] = sequence[j]
           once(q) == \A p, r \in DOMAIN q : q[p] = q[r] => p = r
           inside(t) == \A l \in ContextLayers : t.used[l] = LC!TokensOf(t.keys, KeysOfLayer(l)) /\ t.used[l] <= budgetOf[l]
           full(q, k) == known[k].tokens + LC!TokensOf(q, AsCertainAs(k)) > budgetOf[known[k].layer]
           has(q, k) == \E p \in DOMAIN q : q[p] = k
           good(i) == /\ fromOrder(f[i].keys, i) /\ once(f[i].keys) /\ inside(f[i])
                      /\ \A j \in 1..i : has(f[i].keys, sequence[j]) \/ full(f[i].keys, sequence[j])
           P == {i \in 0..n : good(i)}
<1>2. /\ \A i \in 0..n : f[i].used \in [ContextLayers -> Nat] /\ f[i].keys \in Seq(EntryKeys)
      /\ \A l \in ContextLayers : budgetOf[l] \in Nat
      /\ \A i \in 1..n : sequence[i] \in EntryKeys /\ known[sequence[i]].layer \in ContextLayers
                         /\ known[sequence[i]].tokens \in Nat /\ known[sequence[i]].confidence \in Int
  <2>1. \A i \in 0..n : f[i].used \in [ContextLayers -> Nat] /\ f[i].keys \in Seq(EntryKeys)
    BY DEF KeysTaken
  <2>2. \A i \in 1..n : sequence[i] \in EntryKeys /\ known[sequence[i]].layer \in ContextLayers
                         /\ known[sequence[i]].tokens \in Nat /\ known[sequence[i]].confidence \in Int
    BY DEF RememberedEntry
  <2> QED  BY <2>1, <2>2, BudgetsOfContext
<1>3. \A counted : \A q \in Seq(EntryKeys), k \in EntryKeys :
        /\ LC!TokensOf(q, counted) \in Nat
        /\ LC!TokensOf(Append(q, k), counted) = LC!TokensOf(q, counted) + IF k \in counted THEN known[k].tokens ELSE 0
  BY TokensOfMoreKeys
<1>4. 0 \in P
  <2>1. f[0].keys = <<>> /\ \A l \in ContextLayers : f[0].used[l] = 0
    BY <1>1, LayerAssumption DEF LC!NothingTaken, ContextLayers
  <2>2. inside(f[0])
    BY <1>2, <2>1, TokensOfNoKeys
  <2>3. fromOrder(f[0].keys, 0) /\ once(f[0].keys)
    BY <2>1
  <2> QED  BY <2>2, <2>3
<1>5. ASSUME NEW i \in 1..n, i - 1 \in P PROVE i \in P
  <2> DEFINE old == f[i - 1]  new == f[i]  k == sequence[i]
  <2>1. i - 1 \in 0..n /\ i \in 0..n /\ good(i - 1) /\ old \in KeysTaken
    BY <1>5
  <2>2. /\ k \in EntryKeys /\ known[k] \in RememberedEntry /\ known[k].layer \in ContextLayers
        /\ known[k].tokens \in Nat /\ known[k].confidence \in Int
        /\ old.keys \in Seq(EntryKeys) /\ old.used \in [ContextLayers -> Nat]
        /\ new = LC!Take(old, k)
    BY <1>1, <1>2, <2>1
  <2>3. IF old.used[known[k].layer] + known[k].tokens <= budgetOf[known[k].layer]
        THEN /\ new.keys = Append(old.keys, k)
             /\ \A l \in ContextLayers : new.used[l] =
                  IF l = known[k].layer THEN old.used[l] + known[k].tokens ELSE old.used[l]
        ELSE new = old
    BY <2>1, <2>2, OneMoreTaken
  <2>4. \A j \in 1..(i - 1) : j \in 1..n /\ j < i
    OBVIOUS
  <2>5. \A p \in DOMAIN old.keys : \E j \in 1..(i - 1) : old.keys[p] = sequence[j]
    BY <2>1
  <2>6. k \in KeysOfLayer(known[k].layer) /\ \A l \in ContextLayers : k \in KeysOfLayer(l) <=> l = known[k].layer
    BY <2>2 DEF KeysOfLayer
  <2>7. CASE old.used[known[k].layer] + known[k].tokens <= budgetOf[known[k].layer]
    <3>1. /\ new.keys = Append(old.keys, k)
          /\ \A l \in ContextLayers : new.used[l] =
               IF l = known[k].layer THEN old.used[l] + known[k].tokens ELSE old.used[l]
      BY <2>3, <2>7
    <3>2. /\ DOMAIN new.keys = 1..(Len(old.keys) + 1) /\ DOMAIN old.keys = 1..Len(old.keys) /\ Len(old.keys) \in Nat
          /\ \A p \in DOMAIN old.keys : new.keys[p] = old.keys[p]
          /\ new.keys[Len(old.keys) + 1] = k
      <4> HIDE DEF old, new, k
      <4> QED  BY <2>2, <3>1
    <3>3. inside(new)
      <4>1. \A l \in ContextLayers : LC!TokensOf(new.keys, KeysOfLayer(l)) =
              LC!TokensOf(old.keys, KeysOfLayer(l)) + IF k \in KeysOfLayer(l) THEN known[k].tokens ELSE 0
        BY <1>3, <2>2, <3>1
      <4>2. \A l \in ContextLayers : old.used[l] = LC!TokensOf(old.keys, KeysOfLayer(l)) /\ old.used[l] <= budgetOf[l]
        BY <2>1
      <4>3. \A l \in ContextLayers : old.used[l] \in Nat
        BY <2>2
      <4> HIDE DEF old, new, k, budgetOf
      <4>4. ASSUME NEW l \in ContextLayers
            PROVE  new.used[l] = LC!TokensOf(new.keys, KeysOfLayer(l)) /\ new.used[l] <= budgetOf[l]
        <5>1. CASE l = known[k].layer
          BY <2>6, <2>7, <3>1, <4>1, <4>2, <4>3, <5>1
        <5>2. CASE l # known[k].layer
          BY <2>6, <3>1, <4>1, <4>2, <4>3, <5>2
        <5> QED  BY <5>1, <5>2
      <4> QED  BY <4>4
    <3>4. fromOrder(new.keys, i)
      <4> TAKE p \in DOMAIN new.keys
      <4>1. CASE p \in DOMAIN old.keys
        <5>1. PICK j \in 1..(i - 1) : old.keys[p] = sequence[j]
          BY <2>5, <4>1
        <5>2. j \in 1..i
          OBVIOUS
        <5> QED  BY <3>2, <4>1, <5>1, <5>2
      <4>2. CASE p = Len(old.keys) + 1
        <5>1. i \in 1..i
          OBVIOUS
        <5> QED  BY <3>2, <4>2, <5>1
      <4> QED  BY <3>2, <4>1, <4>2
    <3>5. \A p \in DOMAIN old.keys : old.keys[p] # k
      <4> TAKE p \in DOMAIN old.keys
      <4>1. PICK j \in 1..(i - 1) : old.keys[p] = sequence[j]
        BY <2>5
      <4>2. j \in 1..n /\ j # i
        BY <2>4
      <4> QED  BY <4>1, <4>2
    <3>6. once(new.keys)
      <4>1. once(old.keys)
        BY <2>1
      <4> HIDE DEF old, new, k
      <4> QED  BY <3>2, <3>5, <4>1
    <3>7. ASSUME NEW j \in 1..i PROVE has(new.keys, sequence[j]) \/ full(new.keys, sequence[j])
      <4>1. CASE j = i
        <5>1. Len(old.keys) + 1 \in DOMAIN new.keys
          BY <3>2
        <5> QED  BY <3>2, <4>1, <5>1
      <4>2. CASE j # i
        <5>1. j \in 1..(i - 1) /\ j \in 1..n
          BY <4>2
        <5>2. has(old.keys, sequence[j]) \/ full(old.keys, sequence[j])
          BY <2>1, <5>1
        <5>3. CASE has(old.keys, sequence[j])
          <6>1. PICK p \in DOMAIN old.keys : old.keys[p] = sequence[j]
            BY <5>3
          <6>2. p \in DOMAIN new.keys /\ new.keys[p] = sequence[j]
            BY <3>2, <6>1
          <6> QED  BY <6>2
        <5>4. CASE full(old.keys, sequence[j])
          <6> DEFINE before == LC!TokensOf(old.keys, AsCertainAs(sequence[j]))
                     now == LC!TokensOf(new.keys, AsCertainAs(sequence[j]))
          <6>1. now = before + IF k \in AsCertainAs(sequence[j]) THEN known[k].tokens ELSE 0
            <7> HIDE DEF old, new, k
            <7> QED  BY <1>3, <2>2, <3>1
          <6>2. before \in Nat
            BY <1>3, <2>2
          <6>3. known[sequence[j]].tokens \in Nat /\ budgetOf[known[sequence[j]].layer] \in Nat
            BY <1>2, <5>1
          <6>4. known[sequence[j]].tokens + before > budgetOf[known[sequence[j]].layer]
            BY <5>4
          <6> HIDE DEF before, now, budgetOf
          <6>5. now \in Nat /\ now >= before
            BY <2>2, <6>1, <6>2
          <6>6. known[sequence[j]].tokens + now > budgetOf[known[sequence[j]].layer]
            BY <6>2, <6>3, <6>4, <6>5
          <6> QED  BY <6>6 DEF now, budgetOf
        <5> QED  BY <5>2, <5>3, <5>4
      <4> QED  BY <4>1, <4>2
    <3> QED  BY <2>1, <3>3, <3>4, <3>6, <3>7
  <2>8. CASE ~(old.used[known[k].layer] + known[k].tokens <= budgetOf[known[k].layer])
    <3>1. new = old
      BY <2>3, <2>8
    <3>2. fromOrder(new.keys, i)
      <4> TAKE p \in DOMAIN new.keys
      <4>1. PICK j \in 1..(i - 1) : old.keys[p] = sequence[j]
        BY <2>5, <3>1
      <4>2. j \in 1..i
        OBVIOUS
      <4> QED  BY <3>1, <4>1, <4>2
    <3>3. LC!TokensOf(old.keys, AsCertainAs(k)) = LC!TokensOf(old.keys, KeysOfLayer(known[k].layer))
      <4>1. \A p \in DOMAIN old.keys : old.keys[p] \in AsCertainAs(k) <=> old.keys[p] \in KeysOfLayer(known[k].layer)
        <5> TAKE p \in DOMAIN old.keys
        <5>1. PICK j \in 1..(i - 1) : old.keys[p] = sequence[j]
          BY <2>5
        <5>2. j \in 1..n /\ j < i /\ ~(i < j)
          BY <2>4
        <5>3. sequence[j] \in EntryKeys /\ known[sequence[j]].confidence \in Int
          BY <1>2, <5>2
        <5>4. ~LC!Earlier(k, sequence[j])
          BY <5>2
        <5>5. known[sequence[j]].layer = known[k].layer => known[sequence[j]].confidence >= known[k].confidence
          <6>1. known[sequence[j]].layer = known[k].layer => ~(known[k].confidence > known[sequence[j]].confidence)
            BY <5>4 DEF LC!Earlier
          <6> QED  BY <2>2, <5>3, <6>1
        <5> QED  BY <5>1, <5>3, <5>5 DEF AsCertainAs, KeysOfLayer
      <4> HIDE DEF old, k
      <4> QED  BY <4>1 DEF LC!TokensOf
    <3>4. full(new.keys, k)
      <4> DEFINE used == old.used[known[k].layer]
      <4>1. used = LC!TokensOf(old.keys, KeysOfLayer(known[k].layer)) /\ used \in Nat
        BY <2>1, <2>2
      <4>2. budgetOf[known[k].layer] \in Nat
        BY <1>2, <2>2
      <4>3. LC!TokensOf(new.keys, AsCertainAs(k)) = used
        BY <3>1, <3>3, <4>1
      <4>4. known[k].tokens + used > budgetOf[known[k].layer]
        BY <2>2, <2>8, <4>1, <4>2
      <4> QED  BY <4>3, <4>4
    <3>5. \A j \in 1..i : has(new.keys, sequence[j]) \/ full(new.keys, sequence[j])
      <4> TAKE j \in 1..i
      <4>1. j = i \/ j \in 1..(i - 1)
        OBVIOUS
      <4>2. \A m \in 1..(i - 1) : has(old.keys, sequence[m]) \/ full(old.keys, sequence[m])
        BY <2>1
      <4> HIDE DEF has, full
      <4> QED  BY <3>1, <3>4, <4>1, <4>2
    <3> QED  BY <2>1, <3>1, <3>2, <3>5
  <2> QED  BY <2>7, <2>8
<1>6. n \in P
  <2> HIDE DEF P
  <2>1. 0..n \subseteq P
    BY <1>4, <1>5, AllPositions
  <2> QED  BY <2>1
<1>7. keys = f[n].keys /\ n \in 0..n
  BY <1>1
<1>8. keys \in Seq(EntryKeys)
  BY <1>2, <1>7
<1>9. \A l \in ContextLayers : LC!TokensOf(keys, KeysOfLayer(l)) <= budgetOf[l]
  BY <1>6, <1>7
<1>10. \A j \in 1..n : has(keys, sequence[j]) \/ full(keys, sequence[j])
  BY <1>6, <1>7
<1>11. fromOrder(keys, n) /\ once(keys)
  BY <1>6, <1>7
<1> QED  BY <1>8, <1>9, <1>10, <1>11

LEMMA ContextIsAssembled ==
  ASSUME ContextInv, LC!AssembleContext
  PROVE  ContextInv'
<1>1. PICK sequence \in LC!SortedLayerKeys : selected' = LC!Assembled(sequence)
  BY DEF LC!AssembleContext
<1> DEFINE n == Cardinality(LC!Visible)
<1>2. /\ assemblies' = assemblies + 1 /\ assemblies \in Int /\ assemblies' \in 0..MaxAssemblies /\ assembled' = TRUE /\ expired' = expired
      /\ known' = [k \in EntryKeys |-> IF \E i \in DOMAIN selected' : selected'[i] = k
                                       THEN [known[k] EXCEPT !.accessed = assemblies'] ELSE known[k]]
      /\ KnownIsTyped
  <2>1. assemblies' \in 0..MaxAssemblies
    BY LayerAssumption DEF LC!AssembleContext, ContextInv
  <2> QED  BY <2>1, LayerAssumption DEF LC!AssembleContext, ContextInv
<1>3. /\ LC!Visible \subseteq EntryKeys \ expired /\ n \in Nat /\ LC!Cardinality(LC!Visible) = n
      /\ \A k \in EntryKeys \ expired : known[k] # LC!Nothing => k \in LC!Visible
      /\ \A k \in LC!Visible : known[k] \in RememberedEntry
  <2>1. LC!Visible \subseteq EntryKeys \ expired
    BY DEF LC!Visible
  <2>2. IsFiniteSet(LC!Visible)
    BY <2>1, LayerAssumption, FS_Subset
  <2>3. LC!Cardinality(LC!Visible) = n
    BY DEF LC!Cardinality, Cardinality
  <2>4. /\ \A k \in EntryKeys \ expired : known[k] # LC!Nothing => k \in LC!Visible
        /\ \A k \in LC!Visible : known[k] \in RememberedEntry
    BY <1>2 DEF LC!Visible, KnownIsTyped
  <2> QED  BY <2>1, <2>2, <2>3, <2>4, FS_CardinalityType
<1> HIDE DEF n
<1>4. /\ sequence \in [1..n -> LC!Visible]
      /\ \A k \in LC!Visible : \E i \in 1..n : sequence[i] = k
      /\ \A i, j \in 1..n : sequence[i] = sequence[j] => i = j
      /\ \A i, j \in 1..n : LC!Earlier(sequence[i], sequence[j]) => i < j
  <2>1. sequence \in [1..n -> LC!Visible]
    BY <1>3 DEF LC!SortedLayerKeys
  <2>2. DOMAIN sequence = 1..n
    BY <2>1
  <2> QED  BY <2>1, <2>2 DEF LC!SortedLayerKeys
<1>5. sequence \in [1..n -> EntryKeys] /\ \A i \in 1..n : known[sequence[i]] \in RememberedEntry
  BY <1>3, <1>4
<1> DEFINE keys == selected'
<1>6. /\ keys \in Seq(EntryKeys)
      /\ \A p \in DOMAIN keys : \E j \in 1..n : keys[p] = sequence[j]
      /\ \A p, q \in DOMAIN keys : keys[p] = keys[q] => p = q
      /\ \A l \in ContextLayers : LC!TokensOf(keys, KeysOfLayer(l)) <= LC!MergePolicies[l]
      /\ \A j \in 1..n :
           \/ \E p \in DOMAIN keys : keys[p] = sequence[j]
           \/ known[sequence[j]].tokens + LC!TokensOf(keys, AsCertainAs(sequence[j])) > LC!MergePolicies[known[sequence[j]].layer]
  <2>1. KnownIsTyped
    BY <1>2
  <2>2. keys = LC!Assembled(sequence)
    BY <1>1
  <2>3. n \in Nat
    BY <1>3
  <2>4. /\ \A i, j \in 1..n : sequence[i] = sequence[j] => i = j
        /\ \A i, j \in 1..n : LC!Earlier(sequence[i], sequence[j]) => i < j
    BY <1>4
  <2> HIDE DEF keys
  <2> QED  BY <1>5, <2>1, <2>2, <2>3, <2>4, AssembledInOrder
<1>7. /\ \A k \in EntryKeys : (\E i \in DOMAIN keys : keys[i] = k) => known[k] \in RememberedEntry
      /\ \A i \in DOMAIN keys : keys[i] \in EntryKeys /\ keys[i] \notin expired
  BY <1>3, <1>4, <1>5, <1>6
<1>8. /\ DOMAIN known' = EntryKeys
      /\ \A k \in EntryKeys :
           /\ known'[k].layer = known[k].layer /\ known'[k].tokens = known[k].tokens
           /\ known'[k].confidence = known[k].confidence
           /\ known'[k] = LC!Nothing \/ known'[k] \in RememberedEntry
           /\ (\A i \in DOMAIN keys : keys[i] # k) => known'[k] = known[k]
  <2>1. DOMAIN known' = EntryKeys
    BY <1>2
  <2>2. ASSUME NEW k \in EntryKeys, \E i \in DOMAIN keys : keys[i] = k
        PROVE  /\ known'[k].layer = known[k].layer /\ known'[k].tokens = known[k].tokens
               /\ known'[k].confidence = known[k].confidence /\ known'[k] \in RememberedEntry
    <3>1. known[k] \in RememberedEntry
      BY <1>7, <2>2
    <3>2. known'[k] = [known[k] EXCEPT !.accessed = assemblies']
      BY <1>2, <2>2
    <3>3. assemblies' \in Int
      BY <1>2
    <3> QED  BY <3>1, <3>2, <3>3 DEF RememberedEntry
  <2>3. ASSUME NEW k \in EntryKeys, ~\E i \in DOMAIN keys : keys[i] = k
        PROVE  known'[k] = known[k]
    BY <1>2, <2>3
  <2> HIDE DEF keys
  <2> QED  BY <1>2, <2>1, <2>2, <2>3 DEF KnownIsTyped
<1> DEFINE weights(counted) == [i \in DOMAIN keys |-> IF keys[i] \in counted THEN known'[keys[i]].tokens ELSE 0]
           seen == {keys[i] : i \in DOMAIN keys}
           inLayer(l) == {k \in seen : known'[k].layer = l}
           above(k) == {o \in inLayer(known'[k].layer) : known'[o].confidence >= known'[k].confidence}
<1>9. ASSUME NEW counted, NEW others, \A i \in DOMAIN keys : keys[i] \in counted <=> keys[i] \in others
      PROVE  LC!Total(weights(counted)) = LC!TokensOf(keys, others)
  <2>1. weights(counted) = [i \in DOMAIN keys |-> IF keys[i] \in others THEN known[keys[i]].tokens ELSE 0]
    BY <1>7, <1>8, <1>9
  <2> HIDE DEF weights, keys
  <2> QED  BY <2>1 DEF LC!TokensOf
<1>10. \A l : LC!Total(weights(inLayer(l))) = LC!TokensOf(keys, KeysOfLayer(l))
  <2> TAKE l
  <2>1. \A i \in DOMAIN keys : keys[i] \in inLayer(l) <=> keys[i] \in KeysOfLayer(l)
    BY <1>7, <1>8 DEF KeysOfLayer
  <2> HIDE DEF weights, inLayer, keys
  <2> QED  BY <1>9, <2>1
<1>11. \A k \in EntryKeys : LC!Total(weights(above(k))) = LC!TokensOf(keys, AsCertainAs(k))
  <2> TAKE k \in EntryKeys
  <2>1. \A i \in DOMAIN keys : keys[i] \in above(k) <=> keys[i] \in AsCertainAs(k)
    BY <1>7, <1>8 DEF AsCertainAs
  <2> HIDE DEF weights, above, keys
  <2> QED  BY <1>9, <2>1
<1>12. \A l \in ContextLayers : LC!Total(weights(inLayer(l))) <= LC!MergePolicies[l]
  <2> HIDE DEF weights, inLayer, keys
  <2> QED  BY <1>6, <1>10
<1>13. ASSUME NEW k \in EntryKeys \ (expired' \cup seen), known'[k] # LC!Nothing
       PROVE  known'[k].tokens + LC!Total(weights(above(k))) > LC!MergePolicies[known'[k].layer]
  <2>1. /\ known'[k].tokens = known[k].tokens /\ known'[k].layer = known[k].layer /\ known[k] # LC!Nothing
        /\ k \in LC!Visible
    BY <1>2, <1>3, <1>8, <1>13
  <2>2. PICK j \in 1..n : sequence[j] = k
    BY <1>4, <2>1
  <2>3. ~\E p \in DOMAIN keys : keys[p] = k
    BY <1>13
  <2>4. known[k].tokens + LC!TokensOf(keys, AsCertainAs(k)) > LC!MergePolicies[known[k].layer]
    BY <1>6, <2>2, <2>3
  <2> HIDE DEF weights, above, keys, seen
  <2> QED  BY <1>11, <2>1, <2>4
<1>14. seen \cap expired' = {}
  BY <1>2, <1>7
<1>15. \A p, q \in DOMAIN keys : keys[p] = keys[q] => p = q
  BY <1>6
<1>16. DOMAIN LC!MergePolicies = ContextLayers
  BY BudgetsOfContext
<1>17. LC!AssembledByCertainty'
  BY <1>12, <1>13, <1>14, <1>15, <1>16, Zenon DEF LC!AssembledByCertainty, LC!TokensOf
<1> QED  BY <1>2, <1>6, <1>8, <1>17 DEF ContextInv, KnownIsTyped

LEMMA ContextSteps == ContextInv /\ [LC!Next]_contextVars => ContextInv'
<1> SUFFICES ASSUME ContextInv, [LC!Next]_contextVars PROVE ContextInv'
  OBVIOUS
<1>1. CASE UNCHANGED contextVars
  BY <1>1 DEF contextVars, ContextInv, KnownIsTyped, LC!AssembledByCertainty, LC!TokensOf
<1>2. CASE LC!WriteEntry
  <2>1. PICK k \in EntryKeys, e \in EntryValues : known' = [known EXCEPT ![k] = LC!NormalizeEntry(e)]
    BY <1>2 DEF LC!WriteEntry
  <2>2. assembled' = FALSE /\ assemblies' = assemblies /\ selected' = selected /\ KnownIsTyped /\ assemblies \in Int
    BY <1>2, LayerAssumption DEF LC!WriteEntry, ContextInv
  <2>3. LC!NormalizeEntry(e) \in RememberedEntry
    BY <2>2, LayerAssumption DEF LC!NormalizeEntry, RememberedEntry, ContextLayers
  <2>4. KnownIsTyped'
    BY <2>1, <2>2, <2>3 DEF KnownIsTyped
  <2>5. LC!AssembledByCertainty'
    BY <2>2 DEF LC!AssembledByCertainty
  <2> QED  BY <2>2, <2>4, <2>5 DEF ContextInv
<1>3. CASE LC!Expire
  <2>1. assembled' = FALSE /\ assemblies' = assemblies /\ selected' = selected /\ known' = known
    BY <1>3 DEF LC!Expire
  <2>2. LC!AssembledByCertainty'
    BY <2>1 DEF LC!AssembledByCertainty
  <2> QED  BY <2>1, <2>2 DEF ContextInv, KnownIsTyped
<1> QED  BY <1>1, <1>2, <1>3, ContextIsAssembled DEF LC!Next

LEMMA ContextShows == ContextInv => LC!AssembledByCertainty
BY DEF ContextInv

LEMMA ContextTypesShow == ContextInv => LC!TypeOK
<1> SUFFICES ASSUME ContextInv PROVE LC!TypeOK
  OBVIOUS
<1>1. \A k \in EntryKeys : known[k] = LC!Nothing \/ known[k].confidence # 0
  BY DEF ContextInv, KnownIsTyped, RememberedEntry
<1>2. \A i \in DOMAIN selected : selected[i] \in EntryKeys
  BY DEF ContextInv
<1> QED  BY <1>1, <1>2 DEF LC!TypeOK, ContextInv

---------------------------------------------------------------------------
(* perception/triage.                                                      *)

VARIABLES prepare, tenant, candidates, placed, tokensUsed, docs, read
triageVars == <<prepare, tenant, candidates, placed, tokensUsed, docs, read>>
CT == INSTANCE ContextTriage

TriageItem ==
  [priority : 0..3, error : BOOLEAN, tokens : Nat, owner : CT!Tenants,
   handle : CT!Tenants \cup {CT!NoHandle}]
AsUrgentAs(p) == {s \in TriageItem : s.priority >= p}
Calm == {s \in TriageItem : ~s.error}

TriageInv ==
  /\ tenant \in CT!Tenants
  /\ candidates \in Seq(TriageItem)
  /\ placed \in [selected : Seq(TriageItem), deferred : Seq(TriageItem), dropped : Seq(TriageItem)]
  /\ prepare = "idle" => placed.selected = <<>> /\ placed.dropped = <<>>
  /\ \A i, j \in DOMAIN candidates : i < j => candidates[i].priority >= candidates[j].priority
  /\ \A i \in DOMAIN candidates, s \in DOMAIN placed.selected :
       placed.selected[s].priority >= candidates[i].priority
  /\ \A i \in DOMAIN candidates : candidates[i].handle \in {CT!NoHandle, tenant}
  /\ tokensUsed = CT!TokensOf(placed.selected, TriageItem)
  /\ CT!TokensOf(placed.selected, Calm) <= tokensUsed
  /\ CT!TokensOf(placed.selected, Calm) <= ContextBudget
  /\ \A d \in DOMAIN placed.dropped :
       /\ ~placed.dropped[d].error
       /\ CT!TokensOf(placed.selected, AsUrgentAs(placed.dropped[d].priority))
            + placed.dropped[d].tokens > ContextBudget
  /\ CT!HandlesStayWithTheTenant

LEMMA SameTotalOfItems == \A w : CT!Total(w) = Total(w)
BY DEF CT!Total, Total

LEMMA TokensOfNone == \A counted : CT!TokensOf(<<>>, counted) = 0
<1> TAKE counted
<1>1. [i \in DOMAIN <<>> |-> IF <<>>[i] \in counted THEN <<>>[i].tokens ELSE 0] = <<>>
  OBVIOUS
<1> QED  BY <1>1, SameTotalOfItems, TotalOfNone DEF CT!TokensOf

LEMMA TokensOfMore ==
  ASSUME NEW batch \in Seq(TriageItem), NEW item \in TriageItem, NEW counted
  PROVE  /\ CT!TokensOf(batch, counted) \in Nat
         /\ CT!TokensOf(Append(batch, item), counted) =
              CT!TokensOf(batch, counted) + IF item \in counted THEN item.tokens ELSE 0
<1> DEFINE weight(s) == IF s \in counted THEN s.tokens ELSE 0
           w == [i \in DOMAIN batch |-> weight(batch[i])]
           v == [i \in DOMAIN Append(batch, item) |-> weight(Append(batch, item)[i])]
<1>1. \A s \in TriageItem : weight(s) \in Nat
  BY DEF TriageItem
<1>2. /\ CT!TokensOf(batch, counted) = Total(w)
      /\ CT!TokensOf(Append(batch, item), counted) = Total(v)
  BY SameTotalOfItems DEF CT!TokensOf
<1> HIDE DEF weight
<1>3. w \in Seq(Nat) /\ v = Append(w, weight(item))
  BY <1>1
<1>4. weight(item) \in Nat
  BY <1>1
<1> HIDE DEF w, v
<1>5. Total(w) \in Nat /\ Total(v) = Total(w) + weight(item)
  BY <1>3, <1>4, TotalOfMore
<1> QED  BY <1>2, <1>5 DEF weight

LEMMA TriageStarts == CT!Init => TriageInv
<1> SUFFICES ASSUME CT!Init PROVE TriageInv
  OBVIOUS
<1>1. /\ prepare = "idle" /\ tenant \in CT!Tenants /\ candidates = <<>> /\ tokensUsed = 0 /\ read = {}
      /\ placed = [selected |-> <<>>, deferred |-> <<>>, dropped |-> <<>>]
  BY DEF CT!Init
<1>2. placed.selected = <<>> /\ placed.deferred = <<>> /\ placed.dropped = <<>>
  BY <1>1
<1>3. placed \in [selected : Seq(TriageItem), deferred : Seq(TriageItem), dropped : Seq(TriageItem)]
  BY <1>1
<1>4. /\ CT!TokensOf(placed.selected, TriageItem) = 0
      /\ CT!TokensOf(placed.selected, Calm) = 0
  BY <1>2, TokensOfNone
<1>5. CT!HandlesStayWithTheTenant
  BY <1>1, <1>2 DEF CT!HandlesStayWithTheTenant
<1> QED  BY <1>1, <1>2, <1>3, <1>4, <1>5, TriageAssumption DEF TriageInv

LEMMA ItemsAreItems ==
  ASSUME NEW t \in CT!Tenants, NEW item \in CT!PolicyItems(t) \cup CT!ExtraItems(t)
  PROVE  item \in TriageItem
<1>1. PICK p \in 0..3, e \in BOOLEAN, n \in Nat, owner \in CT!Tenants,
          handle \in CT!Tenants \cup {CT!NoHandle} : item = CT!Item(p, e, n, owner, handle)
  <2>1. \A x \in CT!Tenants : CT!SanitizeHandlePart(x) \in CT!Tenants
    BY DEF CT!SanitizeHandlePart, CT!Tenants
  <2>2. CT!P0 \in 0..3 /\ CT!P1 \in 0..3 /\ CT!P2 \in 0..3 /\ CT!P3 \in 0..3 /\ FALSE \in BOOLEAN
        /\ 1 \in Nat /\ (\A n \in 1..2 : n \in Nat) /\ "u" \in CT!Tenants
    BY DEF CT!P0, CT!P1, CT!P2, CT!P3, CT!Tenants
  <2>3. CASE item \in CT!ExtraItems(t)
    BY <2>2, <2>3 DEF CT!ExtraItems
  <2>4. CASE item \in CT!PolicyItems(t)
    BY <2>1, <2>2, <2>4 DEF CT!PolicyItems
  <2> QED  BY <2>3, <2>4
<1> QED  BY <1>1 DEF CT!Item, TriageItem

LEMMA BeforeIsAnOrder ==
  ASSUME NEW a \in TriageItem, NEW b \in TriageItem,
         NEW ea, ea = IF a.error THEN 1 ELSE 0, NEW eb, eb = IF b.error THEN 1 ELSE 0
  PROVE  CT!Before(a, b) <=>
           \/ a.priority > b.priority
           \/ a.priority = b.priority /\ (ea > eb \/ (ea = eb /\ a.tokens > b.tokens))
<1>1. /\ a.priority \in Int /\ b.priority \in Int /\ a.tokens \in Int /\ b.tokens \in Int
      /\ a.error \in BOOLEAN /\ b.error \in BOOLEAN
  BY DEF TriageItem
<1>2. CASE a.error /\ b.error
  BY <1>1, <1>2 DEF CT!Before
<1>3. CASE a.error /\ ~b.error
  <2>1. CT!Before(a, b) <=> IF a.priority # b.priority THEN a.priority > b.priority ELSE TRUE
    BY <1>1, <1>3, Zenon DEF CT!Before
  <2> QED  BY <1>1, <1>3, <2>1
<1>4. CASE ~a.error /\ b.error
  <2>1. CT!Before(a, b) <=> IF a.priority # b.priority THEN a.priority > b.priority ELSE FALSE
    BY <1>1, <1>4, Zenon DEF CT!Before
  <2> QED  BY <1>1, <1>4, <2>1
<1>5. CASE ~a.error /\ ~b.error
  BY <1>1, <1>5 DEF CT!Before
<1> QED  BY <1>2, <1>3, <1>4, <1>5

LEMMA SortedByUrgency ==
  ASSUME NEW n \in Nat, NEW batch \in [1..n -> TriageItem]
  PROVE  /\ CT!Sorted(batch) \in [1..n -> TriageItem]
         /\ \A r \in 1..n : \E i \in 1..n : CT!Sorted(batch)[r] = batch[i]
         /\ \A q, r \in 1..n : q < r => CT!Sorted(batch)[q].priority >= CT!Sorted(batch)[r].priority
<1> DEFINE S == 1..n
           R == {p \in S \X S : CT!Ahead(batch, p[1], p[2])}
           prio(i) == batch[i].priority
           err(i) == IF batch[i].error THEN 1 ELSE 0
           tok(i) == batch[i].tokens
<1>1. \A i \in S : prio(i) \in Int /\ err(i) \in Int /\ tok(i) \in Int
  BY DEF TriageItem
<1>2. \A i, j \in S : CT!Before(batch[i], batch[j]) <=>
        prio(i) > prio(j) \/ (prio(i) = prio(j) /\ (err(i) > err(j) \/ (err(i) = err(j) /\ tok(i) > tok(j))))
  BY BeforeIsAnOrder
<1>3. \A i, j \in S : <<i, j>> \in R <=> CT!Ahead(batch, i, j)
  OBVIOUS
<1>4. IsFiniteSet(S) /\ Cardinality(S) = n
  BY FS_Interval
<1>5. \A i \in S : i \in Int
  OBVIOUS
<1> HIDE DEF prio, err, tok, R, S
<1> DEFINE above(i, j) == prio(i) > prio(j) \/ (prio(i) = prio(j) /\ (err(i) > err(j) \/ (err(i) = err(j) /\ tok(i) > tok(j))))
<1>6. \A i, j \in S : <<i, j>> \in R <=> above(i, j) \/ (~above(j, i) /\ i < j)
  BY <1>2, <1>3 DEF CT!Ahead
<1>7. IsRanking(S, R)
  <2>1. \A i \in S : <<i, i>> \notin R
    BY <1>1, <1>5, <1>6
  <2>2. \A i, j \in S : i # j => <<i, j>> \in R \/ <<j, i>> \in R
    <3> HIDE DEF above
    <3> QED  BY <1>5, <1>6
  <2>3. ASSUME NEW i \in S, NEW j \in S, NEW k \in S, <<i, j>> \in R, <<j, k>> \in R
        PROVE  <<i, k>> \in R
    <3>1. /\ above(i, j) \/ (~above(j, i) /\ i < j)
          /\ above(j, k) \/ (~above(k, j) /\ j < k)
      BY <1>6, <2>3
    <3>2. above(i, k) \/ (~above(k, i) /\ i < k)
      BY <1>1, <1>5, <3>1
    <3> QED  BY <1>6, <3>2
  <2> QED  BY <1>4, <2>1, <2>2, <2>3 DEF IsRanking
<1> DEFINE rank == InOrder(S, R)
<1>8. CT!Sorted(batch) = [r \in 1..n |-> batch[rank[r]]]
  <2>1. \A i \in S : CT!Cardinality({j \in S : CT!Ahead(batch, j, i)}) = Place(S, R, i)
    <3>1. \A i \in S : {j \in S : CT!Ahead(batch, j, i)} = Preceding(S, R, i)
      BY <1>3 DEF Preceding
    <3>2. \A T : CT!Cardinality(T) = Cardinality(T)
      BY DEF CT!Cardinality, Cardinality
    <3> QED  BY <3>1, <3>2 DEF Place
  <2>2. DOMAIN batch = S
    BY DEF S
  <2>3. CT!Order(batch) = rank
    <3>1. CT!Order(batch) = [r \in S |-> CHOOSE i \in S : Place(S, R, i) = r - 1]
      BY <2>1, <2>2 DEF CT!Order
    <3> QED  BY <1>4, <3>1 DEF InOrder, S
  <2> QED  BY <2>2, <2>3 DEF CT!Sorted, S
<1>9. /\ rank \in [S -> S]
      /\ \A q, r \in S : q < r <=> <<rank[q], rank[r]>> \in R
  BY <1>4, <1>7, OrderedHasAll DEF S
<1> HIDE DEF rank
<1>10. \A q, r \in S : q < r => prio(rank[q]) >= prio(rank[r])
  <2> SUFFICES ASSUME NEW q \in S, NEW r \in S, q < r PROVE prio(rank[q]) >= prio(rank[r])
    OBVIOUS
  <2>1. rank[q] \in S /\ rank[r] \in S /\ <<rank[q], rank[r]>> \in R
    BY <1>9
  <2> QED  BY <1>1, <1>6, <2>1
<1> QED  BY <1>8, <1>9, <1>10 DEF S, prio

LEMMA CandidatesAreSorted ==
  ASSUME TriageInv, CT!PrepareTriageContext
  PROVE  TriageInv'
<1>1. PICK n \in 0..MaxCandidates : \E batch \in [1..n -> CT!PolicyItems(tenant) \cup CT!ExtraItems(tenant)] :
        IF \A i \in DOMAIN batch : CT!Normal(batch[i])
        THEN prepare' = "packing" /\ candidates' = CT!Sorted(batch)
        ELSE prepare' = "refused" /\ candidates' = <<>>
  BY DEF CT!PrepareTriageContext
<1>2. PICK batch \in [1..n -> CT!PolicyItems(tenant) \cup CT!ExtraItems(tenant)] :
        IF \A i \in DOMAIN batch : CT!Normal(batch[i])
        THEN prepare' = "packing" /\ candidates' = CT!Sorted(batch)
        ELSE prepare' = "refused" /\ candidates' = <<>>
  BY <1>1
<1>3. /\ prepare = "idle" /\ tenant' = tenant /\ placed' = placed /\ tokensUsed' = tokensUsed /\ read' = read
      /\ prepare' # "idle"
  BY <1>2 DEF CT!PrepareTriageContext
<1>4. n \in Nat /\ tenant \in CT!Tenants /\ placed.selected = <<>> /\ placed.dropped = <<>>
  BY <1>3, TriageAssumption DEF TriageInv
<1>5. batch \in [1..n -> TriageItem]
  BY <1>4, ItemsAreItems
<1>6. /\ candidates' \in Seq(TriageItem)
      /\ \A i, j \in DOMAIN candidates' : i < j => candidates'[i].priority >= candidates'[j].priority
      /\ \A i \in DOMAIN candidates' : candidates'[i].handle \in {CT!NoHandle, tenant}
  <2>1. CASE \A i \in DOMAIN batch : CT!Normal(batch[i])
    <3>1. candidates' = CT!Sorted(batch)
      BY <1>2, <2>1
    <3>2. /\ candidates' \in [1..n -> TriageItem]
          /\ \A r \in 1..n : \E i \in 1..n : candidates'[r] = batch[i]
          /\ \A q, r \in 1..n : q < r => candidates'[q].priority >= candidates'[r].priority
      BY <1>4, <1>5, <3>1, SortedByUrgency
    <3>3. \A i \in 1..n : batch[i].handle \in {CT!NoHandle, tenant}
      BY <1>5, <2>1 DEF CT!Normal, CT!ValidateTenantHandle
    <3>4. candidates' \in Seq(TriageItem) /\ DOMAIN candidates' = 1..n
      BY <1>4, <3>2
    <3>5. \A i \in 1..n : candidates'[i].handle \in {CT!NoHandle, tenant}
      BY <3>2, <3>3
    <3> QED  BY <3>2, <3>4, <3>5
  <2>2. CASE ~(\A i \in DOMAIN batch : CT!Normal(batch[i]))
    <3>1. candidates' = <<>>
      BY <1>2, <2>2
    <3> QED  BY <3>1
  <2> QED  BY <2>1, <2>2
<1>7. CT!HandlesStayWithTheTenant'
  BY <1>3 DEF TriageInv, CT!HandlesStayWithTheTenant
<1> QED  BY <1>3, <1>4, <1>6, <1>7 DEF TriageInv, CT!TokensOf

LEMMA ItemIsPlaced ==
  ASSUME TriageInv, CT!Place
  PROVE  TriageInv'
<1> DEFINE first == Head(candidates)
           item == CT!Compressed(first)
           slot == CT!Slot(item)
           sel == placed.selected
<1>1. /\ candidates \in Seq(TriageItem) /\ candidates # <<>> /\ prepare = "packing"
      /\ placed' = [placed EXCEPT ![slot] = Append(@, item)]
      /\ tokensUsed' = IF slot = "selected" THEN tokensUsed + item.tokens ELSE tokensUsed
      /\ candidates' = Tail(candidates) /\ prepare' = prepare /\ tenant' = tenant /\ read' = read
  BY DEF CT!Place, TriageInv
<1>2. first \in TriageItem /\ 1 \in DOMAIN candidates /\ first = candidates[1]
  BY <1>1
<1>3. /\ item \in TriageItem /\ item.priority = first.priority /\ item.handle = first.handle
      /\ item.error = first.error
  <2>1. CASE item = first
    BY <1>2, <2>1
  <2>2. CASE item = [first EXCEPT !.tokens = SupportingMax]
    BY <1>2, <2>2, TriageAssumption DEF TriageItem
  <2>3. item = first \/ item = [first EXCEPT !.tokens = SupportingMax]
    BY Zenon DEF CT!Compressed
  <2> QED  BY <2>1, <2>2, <2>3
<1>4. /\ item.handle \in {CT!NoHandle, tenant}
      /\ \A s \in DOMAIN sel : sel[s].priority >= item.priority
      /\ \A i \in DOMAIN candidates' : i + 1 \in DOMAIN candidates /\ candidates'[i] = candidates[i + 1]
      /\ \A i \in DOMAIN candidates' : item.priority >= candidates'[i].priority
  <2>1. \A i \in DOMAIN candidates' : i + 1 \in DOMAIN candidates /\ 1 < i + 1 /\ candidates'[i] = candidates[i + 1]
    BY <1>1
  <2> QED  BY <1>2, <1>3, <2>1 DEF TriageInv
<1>5. /\ candidates' \in Seq(TriageItem)
      /\ \A i, j \in DOMAIN candidates' : i < j => candidates'[i].priority >= candidates'[j].priority
      /\ \A i \in DOMAIN candidates' : candidates'[i].handle \in {CT!NoHandle, tenant'}
  <2>1. candidates' \in Seq(TriageItem)
    BY <1>1
  <2>2. \A i \in DOMAIN candidates' : i \in Int
    BY <2>1
  <2>3. /\ \A i, j \in DOMAIN candidates : i < j => candidates[i].priority >= candidates[j].priority
        /\ \A i \in DOMAIN candidates : candidates[i].handle \in {CT!NoHandle, tenant}
    BY DEF TriageInv
  <2>4. \A i, j \in DOMAIN candidates' : i < j => candidates'[i].priority >= candidates'[j].priority
    <3> SUFFICES ASSUME NEW i \in DOMAIN candidates', NEW j \in DOMAIN candidates', i < j
                 PROVE  candidates'[i].priority >= candidates'[j].priority
      OBVIOUS
    <3>1. i + 1 \in DOMAIN candidates /\ j + 1 \in DOMAIN candidates /\ i + 1 < j + 1
      BY <1>4, <2>2
    <3> QED  BY <1>4, <2>3, <3>1
  <2> QED  BY <1>1, <1>4, <2>1, <2>3, <2>4
<1>6. placed \in [selected : Seq(TriageItem), deferred : Seq(TriageItem), dropped : Seq(TriageItem)]
  BY DEF TriageInv
<1>7. slot \in {"selected", "deferred", "dropped"}
  BY DEF CT!Slot
<1>8. /\ placed' \in [selected : Seq(TriageItem), deferred : Seq(TriageItem), dropped : Seq(TriageItem)]
      /\ placed'.selected = IF slot = "selected" THEN Append(sel, item) ELSE sel
      /\ placed'.deferred = IF slot = "deferred" THEN Append(placed.deferred, item) ELSE placed.deferred
      /\ placed'.dropped = IF slot = "dropped" THEN Append(placed.dropped, item) ELSE placed.dropped
  <2> HIDE DEF slot, item
  <2>1. /\ DOMAIN placed = {"selected", "deferred", "dropped"}
        /\ \A k \in DOMAIN placed : placed[k] \in Seq(TriageItem)
        /\ placed = [k \in DOMAIN placed |-> placed[k]]
    BY <1>6
  <2>2. placed' = [k \in {"selected", "deferred", "dropped"} |->
                     IF k = slot THEN Append(placed[slot], item) ELSE placed[k]]
    BY <1>1, <2>1, Zenon
  <2>3. \A k \in {"selected", "deferred", "dropped"} : placed'[k] \in Seq(TriageItem)
    BY <1>3, <1>7, <2>1, <2>2
  <2>4. /\ placed'.selected = IF slot = "selected" THEN Append(sel, item) ELSE sel
        /\ placed'.deferred = IF slot = "deferred" THEN Append(placed.deferred, item) ELSE placed.deferred
        /\ placed'.dropped = IF slot = "dropped" THEN Append(placed.dropped, item) ELSE placed.dropped
    BY <2>2, Zenon
  <2>5. placed' \in [selected : Seq(TriageItem), deferred : Seq(TriageItem), dropped : Seq(TriageItem)]
    BY <2>2, <2>3
  <2> QED  BY <2>4, <2>5
<1>9. /\ sel \in Seq(TriageItem) /\ item.tokens \in Nat /\ item.error \in BOOLEAN /\ item.priority \in Int
      /\ \A counted : CT!TokensOf(sel, counted) \in Nat
      /\ \A counted : CT!TokensOf(Append(sel, item), counted) =
                        CT!TokensOf(sel, counted) + IF item \in counted THEN item.tokens ELSE 0
  <2>1. sel \in Seq(TriageItem) /\ item.tokens \in Nat /\ item.error \in BOOLEAN /\ item.priority \in Int
    BY <1>3, <1>6 DEF TriageItem
  <2> QED  BY <1>3, <2>1, TokensOfMore
<1>10. slot = "selected" => tokensUsed + item.tokens <= ContextBudget \/ item.error
  BY DEF CT!Slot
<1>11. slot = "dropped" => ~(tokensUsed + item.tokens <= ContextBudget) /\ ~item.error
  BY DEF CT!Slot
<1>12. /\ tokensUsed = CT!TokensOf(sel, TriageItem)
       /\ CT!TokensOf(sel, Calm) <= tokensUsed /\ CT!TokensOf(sel, Calm) <= ContextBudget
       /\ \A d \in DOMAIN placed.dropped :
            /\ ~placed.dropped[d].error
            /\ CT!TokensOf(sel, AsUrgentAs(placed.dropped[d].priority)) + placed.dropped[d].tokens > ContextBudget
  BY DEF TriageInv
<1>13. item \in Calm <=> ~item.error
  BY <1>3 DEF Calm
<1>14. \A d \in DOMAIN placed.dropped : placed.dropped[d].tokens \in Nat
  <2>1. placed.dropped \in Seq(TriageItem)
    BY <1>6
  <2>2. \A d \in DOMAIN placed.dropped : placed.dropped[d] \in TriageItem
    BY <2>1
  <2> QED  BY <2>2 DEF TriageItem
<1>15. CT!HandlesStayWithTheTenant'
  <2> SUFFICES ASSUME NEW s \in {"selected", "deferred"}, NEW i \in DOMAIN placed'[s]
               PROVE  placed'[s][i].handle \in {CT!NoHandle, tenant}
    BY <1>1 DEF TriageInv, CT!HandlesStayWithTheTenant
  <2>1. \A i2 \in DOMAIN placed[s] : placed[s][i2].handle \in {CT!NoHandle, tenant}
    BY DEF TriageInv, CT!HandlesStayWithTheTenant
  <2> HIDE DEF item, slot, sel
  <2>2. placed[s] \in Seq(TriageItem) /\ (placed'[s] = placed[s] \/ placed'[s] = Append(placed[s], item))
    <3>1. CASE s = "selected"
      BY <1>6, <1>8, <3>1 DEF sel
    <3>2. CASE s = "deferred"
      BY <1>6, <1>8, <3>2
    <3> QED  BY <3>1, <3>2
  <2>3. \A q \in Seq(TriageItem) : \A k \in DOMAIN Append(q, item) :
          (k \in DOMAIN q /\ Append(q, item)[k] = q[k]) \/ Append(q, item)[k] = item
    OBVIOUS
  <2>4. (i \in DOMAIN placed[s] /\ placed'[s][i] = placed[s][i]) \/ placed'[s][i] = item
    BY <2>2, <2>3
  <2> QED  BY <1>4, <2>1, <2>4
<1>16. \A s \in DOMAIN placed'.selected :
         (s \in DOMAIN sel /\ placed'.selected[s] = sel[s]) \/ placed'.selected[s] = item
  <2> HIDE DEF item, slot, sel
  <2> QED  BY <1>8, <1>9
<1>17. \A i \in DOMAIN candidates', s \in DOMAIN placed'.selected :
         placed'.selected[s].priority >= candidates'[i].priority
  <2>1. \A i \in DOMAIN candidates, s \in DOMAIN sel : sel[s].priority >= candidates[i].priority
    BY DEF TriageInv
  <2> HIDE DEF item, slot, sel
  <2> QED  BY <1>4, <1>16, <2>1
<1> HIDE DEF item, slot, sel
<1>18. CASE slot = "selected"
  <2>1. \A counted : CT!TokensOf(placed'.selected, counted) =
                       CT!TokensOf(sel, counted) + IF item \in counted THEN item.tokens ELSE 0
    BY <1>8, <1>9, <1>18
  <2>2. tokensUsed' = CT!TokensOf(placed'.selected, TriageItem)
    BY <1>1, <1>3, <1>12, <1>18, <2>1
  <2>3. CT!TokensOf(placed'.selected, Calm) <= tokensUsed'
    BY <1>1, <1>9, <1>12, <1>18, <2>1
  <2>4. CT!TokensOf(placed'.selected, Calm) <= ContextBudget
    <3>1. CASE item \in Calm
      BY <1>9, <1>10, <1>12, <1>13, <1>18, <2>1, <3>1, TriageAssumption
    <3>2. CASE item \notin Calm
      BY <1>9, <1>12, <2>1, <3>2
    <3> QED  BY <3>1, <3>2
  <2>5. \A d \in DOMAIN placed'.dropped :
          /\ ~placed'.dropped[d].error
          /\ CT!TokensOf(placed'.selected, AsUrgentAs(placed'.dropped[d].priority))
               + placed'.dropped[d].tokens > ContextBudget
    <3>1. placed'.dropped = placed.dropped
      BY <1>8, <1>18
    <3> TAKE d \in DOMAIN placed'.dropped
    <3> DEFINE old == CT!TokensOf(sel, AsUrgentAs(placed.dropped[d].priority))
               more == CT!TokensOf(placed'.selected, AsUrgentAs(placed.dropped[d].priority))
    <3>2. old \in Nat /\ more >= old /\ more \in Nat
      BY <1>9, <2>1
    <3>3. old + placed.dropped[d].tokens > ContextBudget /\ ~placed.dropped[d].error
      BY <1>12, <3>1
    <3>4. placed.dropped[d].tokens \in Nat
      BY <1>14, <3>1
    <3> HIDE DEF old
    <3>5. more + placed.dropped[d].tokens > ContextBudget
      <4> HIDE DEF more
      <4> QED  BY <3>2, <3>3, <3>4, TriageAssumption
    <3> QED  BY <3>1, <3>3, <3>5
  <2> QED  BY <1>1, <1>5, <1>8, <1>15, <1>17, <2>2, <2>3, <2>4, <2>5 DEF TriageInv
<1>19. CASE slot = "deferred"
  <2>1. placed'.selected = sel /\ placed'.dropped = placed.dropped /\ tokensUsed' = tokensUsed
    BY <1>1, <1>8, <1>19
  <2> QED  BY <1>1, <1>5, <1>8, <1>12, <1>15, <1>17, <2>1 DEF TriageInv
<1>20. CASE slot = "dropped"
  <2>1. /\ placed'.selected = sel /\ placed'.dropped = Append(placed.dropped, item)
        /\ tokensUsed' = tokensUsed
    BY <1>1, <1>8, <1>20
  <2>2. CT!TokensOf(sel, AsUrgentAs(item.priority)) = tokensUsed
    <3>1. \A s \in DOMAIN sel : sel[s] \in TriageItem /\ sel[s] \in AsUrgentAs(item.priority)
      BY <1>4, <1>9 DEF AsUrgentAs
    <3> QED  BY <1>12, <3>1 DEF CT!TokensOf
  <2>3. CT!TokensOf(sel, AsUrgentAs(item.priority)) + item.tokens > ContextBudget /\ ~item.error
    <3>1. tokensUsed \in Nat
      BY <1>9, <1>12
    <3> QED  BY <1>9, <1>11, <1>20, <2>2, <3>1, TriageAssumption
  <2>4. placed.dropped \in Seq(TriageItem)
    BY <1>6
  <2>5. \A d \in DOMAIN placed'.dropped :
          (d \in DOMAIN placed.dropped /\ placed'.dropped[d] = placed.dropped[d]) \/ placed'.dropped[d] = item
    BY <2>1, <2>4
  <2>6. \A d \in DOMAIN placed'.dropped :
          /\ ~placed'.dropped[d].error
          /\ CT!TokensOf(sel, AsUrgentAs(placed'.dropped[d].priority)) + placed'.dropped[d].tokens > ContextBudget
    <3> TAKE d \in DOMAIN placed'.dropped
    <3>1. CASE placed'.dropped[d] = item
      BY <2>3, <3>1
    <3>2. CASE d \in DOMAIN placed.dropped /\ placed'.dropped[d] = placed.dropped[d]
      BY <1>12, <3>2
    <3> QED  BY <2>5, <3>1, <3>2
  <2> QED  BY <1>1, <1>5, <1>8, <1>12, <1>15, <1>17, <2>1, <2>6 DEF TriageInv
<1> QED  BY <1>7, <1>18, <1>19, <1>20

LEMMA TriageSteps == TriageInv /\ [CT!Next]_triageVars => TriageInv'
<1> SUFFICES ASSUME TriageInv, [CT!Next]_triageVars PROVE TriageInv'
  OBVIOUS
<1>1. CASE UNCHANGED triageVars
  BY <1>1 DEF triageVars, TriageInv, CT!HandlesStayWithTheTenant, CT!TokensOf
<1>2. CASE CT!Prepared
  BY <1>2 DEF CT!Prepared, TriageInv, CT!HandlesStayWithTheTenant, CT!TokensOf
<1>3. CASE CT!ReadTenantHandle
  <2>1. PICK handle : handle = tenant /\ read' = read \cup {handle}
    BY <1>3 DEF CT!ReadTenantHandle, CT!ValidateTenantHandle
  <2>2. /\ prepare' = prepare /\ tenant' = tenant /\ candidates' = candidates /\ placed' = placed
        /\ tokensUsed' = tokensUsed
    BY <1>3 DEF CT!ReadTenantHandle
  <2>3. CT!HandlesStayWithTheTenant'
    BY <2>1, <2>2 DEF TriageInv, CT!HandlesStayWithTheTenant
  <2> QED  BY <2>2, <2>3 DEF TriageInv, CT!TokensOf
<1> QED  BY <1>1, <1>2, <1>3, CandidatesAreSorted, ItemIsPlaced DEF CT!Next

LEMMA TriageShows == TriageInv => CT!DroppedForTheUrgent /\ CT!HandlesStayWithTheTenant
<1> SUFFICES ASSUME TriageInv PROVE CT!DroppedForTheUrgent
  BY DEF TriageInv
<1> DEFINE sel == placed.selected
           chosen == {sel[i] : i \in DOMAIN sel}
<1>1. placed \in [selected : Seq(TriageItem), deferred : Seq(TriageItem), dropped : Seq(TriageItem)]
  BY DEF TriageInv
<1>2. \A i \in DOMAIN sel : sel[i] \in TriageItem /\ sel[i] \in chosen
  BY <1>1
<1>3. \A p : CT!TokensOf(sel, {s \in chosen : s.priority >= p}) = CT!TokensOf(sel, AsUrgentAs(p))
  <2> TAKE p
  <2>1. \A i \in DOMAIN sel : sel[i] \in {s \in chosen : s.priority >= p} <=> sel[i] \in AsUrgentAs(p)
    BY <1>2 DEF AsUrgentAs
  <2> HIDE DEF sel, chosen
  <2> QED  BY <2>1 DEF CT!TokensOf
<1>4. CT!TokensOf(sel, {s \in chosen : ~s.error}) = CT!TokensOf(sel, Calm)
  <2>1. \A i \in DOMAIN sel : sel[i] \in {s \in chosen : ~s.error} <=> sel[i] \in Calm
    BY <1>2 DEF Calm
  <2> HIDE DEF sel, chosen
  <2> QED  BY <2>1 DEF CT!TokensOf
<1>5. /\ CT!TokensOf(sel, Calm) <= ContextBudget
      /\ \A d \in DOMAIN placed.dropped :
           /\ ~placed.dropped[d].error
           /\ CT!TokensOf(sel, AsUrgentAs(placed.dropped[d].priority)) + placed.dropped[d].tokens > ContextBudget
  BY DEF TriageInv
<1> HIDE DEF chosen
<1> QED  BY <1>3, <1>4, <1>5 DEF CT!DroppedForTheUrgent, chosen

TriageTypes == prepare \in {"idle", "packing", "prepared", "refused"} /\ read \subseteq docs

LEMMA TriageTypesStart == CT!Init => TriageTypes
BY DEF CT!Init, TriageTypes

LEMMA TriageTypesStep == ASSUME TriageTypes, [CT!Next]_triageVars PROVE TriageTypes'
<1>1. prepare' \in {"idle", "packing", "prepared", "refused"}
  BY DEF TriageTypes, CT!Next, CT!PrepareTriageContext, CT!Place, CT!Prepared, CT!ReadTenantHandle, triageVars
<1>2. read' \subseteq docs'
  <2>1. CASE CT!ReadTenantHandle
    BY <2>1 DEF CT!ReadTenantHandle, TriageTypes
  <2>2. CASE UNCHANGED <<docs, read>>
    BY <2>2 DEF TriageTypes
  <2> QED  BY <2>1, <2>2 DEF CT!Next, CT!PrepareTriageContext, CT!Place, CT!Prepared, triageVars
<1> QED  BY <1>1, <1>2 DEF TriageTypes

LEMMA TriageTypesShow == TriageInv /\ TriageTypes => CT!TypeOK
BY DEF TriageInv, TriageTypes, CT!TypeOK

---------------------------------------------------------------------------
(* perception/claude_compaction.                                           *)

VARIABLES messages, appended, invokedSkills, request, overtaken
compaction == <<messages, appended, invokedSkills, request, overtaken>>
CC == INSTANCE ContextCompaction

SkillNames == Skills \cup {"none"}
MessageKinds == {"text", "use", "result", "skill", "summary"} \cup CC!Boundary
\* Messages number and tell of what was appended so far; an attachment is of a skill.
SessionMessage ==
  {m \in [kind : MessageKinds, number : 0..appended, tokens : 0..3, covers : SUBSET (1..appended),
          skill : SkillNames] : m.kind = "skill" => m.skill \in Skills}
\* The table of invoked skills has one entry of a skill.
SkillLists == {q \in Seq(Skills) : \A i, j \in DOMAIN q : q[i] = q[j] => i = j}
View(msgs) == CC!MessagesAfterLastCompactBoundary(msgs)
Told(msg) == ({msg.number} \ {0}) \cup msg.covers
Attached(skills, msgs) ==
  \A i \in DOMAIN msgs : msgs[i].kind = "skill" => \E k \in DOMAIN skills : skills[k] = msgs[i].skill

\* A view has its boundary in front, its messages in order behind what was there when they came,
\* and tells of none that is yet to come.
InOrderUpTo(v, n) ==
  /\ \A k \in DOMAIN v : k > 1 => v[k].kind \notin CC!Boundary
  /\ \A k \in DOMAIN v : v[k].number # 0 => v[k].covers = {}
  /\ \A k \in DOMAIN v : Told(v[k]) \subseteq 1..n
  /\ \A j, k \in DOMAIN v : j < k /\ v[k].number # 0 => \A m \in Told(v[j]) : m < v[k].number
TellsUpTo(v, n) == \A m \in 1..n : m \in overtaken \/ \E k \in DOMAIN v : m \in Told(v[k])

CompactionInv ==
  /\ messages \in Seq(SessionMessage) /\ appended \in Nat /\ invokedSkills \in SkillLists
  /\ Attached(invokedSkills, messages)
  /\ request.at = "summary" =>
       /\ request.view \in Seq(SessionMessage) /\ request.since \in 0..appended
       /\ request.snipped \in Seq(SessionMessage)
       /\ \A i \in DOMAIN request.snipped : request.snipped[i].kind # "skill"
  /\ SnipTokens = 0 =>
       /\ InOrderUpTo(View(messages), appended) /\ TellsUpTo(View(messages), appended)
       /\ request.at = "summary" =>
            /\ request.snipped = <<>>
            /\ InOrderUpTo(request.view, request.since) /\ TellsUpTo(request.view, request.since)

LEMMA ViewFromBoundary ==
  ASSUME NEW S, NEW msgs \in Seq(S)
  PROVE  \E first \in 1..(Len(msgs) + 1) :
           /\ View(msgs) = SubSeq(msgs, first, Len(msgs))
           /\ \A i \in DOMAIN msgs : i > first => msgs[i].kind \notin CC!Boundary
           /\ first = 1 \/ (first \in DOMAIN msgs /\ msgs[first].kind \in CC!Boundary)
<1> DEFINE n == Len(msgs)
           boundaries == {i \in DOMAIN msgs : msgs[i].kind \in CC!Boundary}
<1>1. n \in Nat /\ DOMAIN msgs = 1..n
  OBVIOUS
<1>2. CASE boundaries = {}
  <2>1. View(msgs) = SubSeq(msgs, 1, n)
    BY <1>2 DEF View, CC!MessagesAfterLastCompactBoundary
  <2> QED  BY <1>1, <1>2, <2>1
<1>3. CASE boundaries # {}
  <2> DEFINE first == CHOOSE i \in boundaries : \A j \in boundaries : j <= i
  <2>1. \E i \in boundaries : \A j \in boundaries : j <= i
    <3>1. boundaries \subseteq 1..n
      BY <1>1
    <3> HIDE DEF boundaries
    <3> QED  BY <1>1, <1>3, <3>1, HasLargest
  <2>2. first \in boundaries /\ \A j \in boundaries : j <= first
    <3> HIDE DEF boundaries
    <3> QED  BY <2>1
  <2>3. View(msgs) = SubSeq(msgs, first, n)
    BY <1>3 DEF View, CC!MessagesAfterLastCompactBoundary
  <2>4. first \in 1..n /\ msgs[first].kind \in CC!Boundary
    BY <1>1, <2>2
  <2>5. \A i \in DOMAIN msgs : i > first => msgs[i].kind \notin CC!Boundary
    <3> SUFFICES ASSUME NEW i \in 1..n, i > first, msgs[i].kind \in CC!Boundary PROVE FALSE
      BY <1>1
    <3>1. i \in boundaries
      BY <1>1
    <3> HIDE DEF first, boundaries
    <3>2. i <= first
      BY <2>2, <3>1
    <3> QED  BY <1>1, <2>4, <3>2
  <2> HIDE DEF first, boundaries
  <2>6. first \in 1..(n + 1) /\ first \in DOMAIN msgs
    BY <1>1, <2>4
  <2> QED  BY <2>3, <2>4, <2>5, <2>6
<1> QED  BY <1>2, <1>3

\* The part of a sequence from first on.
LEMMA FromPosition ==
  ASSUME NEW S, NEW q \in Seq(S), NEW first \in 1..(Len(q) + 1)
  PROVE  LET r == SubSeq(q, first, Len(q))
         IN  /\ r \in Seq(S) /\ Len(r) = Len(q) - first + 1
             /\ \A k \in DOMAIN r : first + k - 1 \in DOMAIN q /\ r[k] = q[first + k - 1]
             /\ \A i \in DOMAIN q : i >= first => i - first + 1 \in DOMAIN r /\ r[i - first + 1] = q[i]
<1> DEFINE n == Len(q)
<1>1. n \in Nat /\ \A k \in first..n : q[k] \in S
  OBVIOUS
<1>2. /\ SubSeq(q, first, n) \in Seq(S)
      /\ Len(SubSeq(q, first, n)) = IF first <= n THEN n - first + 1 ELSE 0
      /\ \A k \in 1..n - first + 1 : SubSeq(q, first, n)[k] = q[first + k - 1]
  <2> HIDE DEF n
  <2> QED  BY <1>1, SubSeqProperties
<1>3. Len(SubSeq(q, first, n)) = n - first + 1
  BY <1>1, <1>2
<1>4. DOMAIN SubSeq(q, first, n) = 1..(n - first + 1) /\ DOMAIN q = 1..n
  BY <1>2, <1>3
<1> HIDE DEF n
<1>5. \A k \in 1..(n - first + 1) : first + k - 1 \in 1..n
  BY <1>1
<1>6. \A i \in 1..n : i >= first => i - first + 1 \in 1..(n - first + 1) /\ first + (i - first + 1) - 1 = i
  BY <1>1
<1> QED  BY <1>2, <1>3, <1>4, <1>5, <1>6 DEF n

LEMMA ViewIsTheEnd ==
  ASSUME NEW msgs \in Seq(SessionMessage)
  PROVE  /\ View(msgs) \in Seq(SessionMessage)
         /\ \A k \in DOMAIN View(msgs) : \E i \in DOMAIN msgs : View(msgs)[k] = msgs[i]
         /\ \A k \in DOMAIN View(msgs) : k > 1 => View(msgs)[k].kind \notin CC!Boundary
<1>1. PICK first \in 1..(Len(msgs) + 1) :
        /\ View(msgs) = SubSeq(msgs, first, Len(msgs))
        /\ \A i \in DOMAIN msgs : i > first => msgs[i].kind \notin CC!Boundary
  BY ViewFromBoundary
<1> DEFINE v == View(msgs)
<1>2. /\ v \in Seq(SessionMessage) /\ Len(v) = Len(msgs) - first + 1
      /\ \A k \in DOMAIN v : first + k - 1 \in DOMAIN msgs /\ v[k] = msgs[first + k - 1]
  BY <1>1, FromPosition
<1> HIDE DEF v
<1>3. ASSUME NEW k \in DOMAIN v, k > 1 PROVE v[k].kind \notin CC!Boundary
  <2>1. k \in Nat /\ Len(msgs) \in Nat
    BY <1>2
  <2>2. first + k - 1 > first
    BY <1>3, <2>1
  <2> QED  BY <1>1, <1>2, <2>2
<1> QED  BY <1>2, <1>3 DEF v

\* What is not a boundary comes behind the view.
LEMMA ViewGrows ==
  ASSUME NEW S, NEW msgs \in Seq(S), NEW msg \in S, msg.kind \notin CC!Boundary
  PROVE  View(Append(msgs, msg)) = Append(View(msgs), msg)
<1> DEFINE more == Append(msgs, msg)
           n == Len(msgs)
<1>1. /\ n \in Nat /\ more \in Seq(S) /\ Len(more) = n + 1 /\ more[n + 1] = msg
      /\ \A i \in 1..n : more[i] = msgs[i]
      /\ DOMAIN msgs = 1..n /\ DOMAIN more = 1..(n + 1)
  OBVIOUS
<1>2. PICK first \in 1..(n + 1) :
        /\ View(msgs) = SubSeq(msgs, first, n)
        /\ \A i \in DOMAIN msgs : i > first => msgs[i].kind \notin CC!Boundary
        /\ first = 1 \/ (first \in DOMAIN msgs /\ msgs[first].kind \in CC!Boundary)
  BY ViewFromBoundary
<1>3. PICK begin \in 1..(n + 2) :
        /\ View(more) = SubSeq(more, begin, n + 1)
        /\ \A i \in DOMAIN more : i > begin => more[i].kind \notin CC!Boundary
        /\ begin = 1 \/ (begin \in DOMAIN more /\ more[begin].kind \in CC!Boundary)
  <2>1. n + 1 + 1 = n + 2
    BY <1>1
  <2> HIDE DEF more
  <2> QED  BY Zenon, <1>1, <2>1, ViewFromBoundary
<1> HIDE DEF more, n
<1>4. begin = first
  <2>1. ~(begin > first)
    <3> SUFFICES ASSUME begin > first PROVE FALSE
      OBVIOUS
    <3>1. begin \in 1..(n + 1) /\ more[begin].kind \in CC!Boundary
      BY <1>1, <1>2, <1>3
    <3>2. CASE begin = n + 1
      BY <1>1, <3>1, <3>2
    <3>3. CASE begin # n + 1
      <4>1. begin \in 1..n
        BY <1>1, <3>1, <3>3
      <4> QED  BY <1>1, <1>2, <3>1, <4>1
    <3> QED  BY <3>2, <3>3
  <2>2. ~(first > begin)
    <3> SUFFICES ASSUME first > begin PROVE FALSE
      OBVIOUS
    <3>1. first \in 1..n /\ msgs[first].kind \in CC!Boundary
      BY <1>1, <1>2, <1>3
    <3>2. first \in DOMAIN more /\ more[first] = msgs[first]
      BY <1>1, <3>1
    <3> QED  BY <1>3, <3>1, <3>2
  <2> QED  BY <1>1, <2>1, <2>2
<1> DEFINE v == View(msgs)
           w == View(more)
<1>5. /\ v \in Seq(S) /\ Len(v) = n - first + 1
      /\ \A k \in DOMAIN v : v[k] = msgs[first + k - 1]
  BY <1>1, <1>2, FromPosition DEF n
<1>6. /\ w \in Seq(S) /\ Len(w) = n + 1 - first + 1
      /\ \A k \in DOMAIN w : w[k] = more[first + k - 1]
  <2>1. first \in 1..(Len(more) + 1) /\ View(more) = SubSeq(more, first, Len(more))
    BY <1>1, <1>3, <1>4
  <2> HIDE DEF w
  <2>2. w = SubSeq(more, first, Len(more))
    BY <2>1 DEF w
  <2> QED  BY <1>1, <2>1, <2>2, FromPosition
<1> HIDE DEF v, w
<1>7. DOMAIN v = 1..(n - first + 1) /\ DOMAIN w = 1..(n - first + 2)
  BY <1>1, <1>5, <1>6
<1>8. \A k \in DOMAIN w : w[k] = Append(v, msg)[k]
  <2> TAKE k \in DOMAIN w
  <2>1. CASE k = n - first + 2
    <3>1. first + k - 1 = n + 1 /\ k = Len(v) + 1
      BY <1>1, <1>5, <2>1
    <3>2. Append(v, msg)[k] = msg
      BY <1>5, <3>1
    <3> QED  BY <1>1, <1>6, <3>1, <3>2
  <2>2. CASE k # n - first + 2
    <3>1. k \in DOMAIN v /\ first + k - 1 \in 1..n
      <4>1. k \in 1..(n - first + 2) /\ first \in 1..(n + 1)
        BY <1>7
      <4>2. k \in 1..(n - first + 1) /\ first + k - 1 \in 1..n
        BY <1>1, <2>2, <4>1
      <4> QED  BY <1>7, <4>2
    <3>2. Append(v, msg)[k] = v[k]
      BY <1>5, <3>1
    <3> QED  BY <1>1, <1>5, <1>6, <3>1, <3>2
  <2> QED  BY <2>1, <2>2
<1>9. Append(v, msg) \in Seq(S) /\ DOMAIN Append(v, msg) = 1..(n - first + 2)
  <2>1. Len(Append(v, msg)) = n - first + 2
    BY <1>1, <1>5
  <2> QED  BY <1>5, <2>1
<1>10. w = Append(v, msg)
  <2>1. w = [k \in DOMAIN w |-> w[k]]
    BY <1>6
  <2>2. Append(v, msg) = [k \in DOMAIN Append(v, msg) |-> Append(v, msg)[k]]
    <3>1. \A q \in Seq(S) : q = [k \in DOMAIN q |-> q[k]]
      OBVIOUS
    <3> QED  BY <1>9, <3>1, Zenon
  <2>3. DOMAIN Append(v, msg) = DOMAIN w
    BY <1>7, <1>9
  <2> QED  BY <1>8, <2>1, <2>2, <2>3
<1> QED  BY <1>10 DEF v, w, more

\* A boundary begins a view of its own.
LEMMA ViewBegins ==
  ASSUME NEW msgs \in Seq(SessionMessage), NEW post \in Seq(SessionMessage),
         Len(post) > 0, post[1].kind \in CC!Boundary,
         \A k \in DOMAIN post : k > 1 => post[k].kind \notin CC!Boundary
  PROVE  View(msgs \o post) = post
<1> DEFINE all == msgs \o post
           n == Len(msgs)
           m == Len(post)
<1>1. n \in Nat /\ m \in Nat /\ m > 0 /\ DOMAIN msgs = 1..n /\ DOMAIN post = 1..m
  OBVIOUS
<1>2. /\ all \in Seq(SessionMessage) /\ Len(all) = n + m /\ DOMAIN all = 1..(n + m)
      /\ \A k \in 1..m : all[n + k] = post[k]
  BY <1>1
<1> HIDE DEF all, n, m
<1>3. PICK first \in 1..(n + m + 1) :
        /\ View(all) = SubSeq(all, first, Len(all))
        /\ \A i \in DOMAIN all : i > first => all[i].kind \notin CC!Boundary
        /\ first = 1 \/ (first \in DOMAIN all /\ all[first].kind \in CC!Boundary)
  <2>1. \E first \in 1..(Len(all) + 1) :
        /\ View(all) = SubSeq(all, first, Len(all))
        /\ \A i \in DOMAIN all : i > first => all[i].kind \notin CC!Boundary
        /\ first = 1 \/ (first \in DOMAIN all /\ all[first].kind \in CC!Boundary)
    BY <1>2, ViewFromBoundary
  <2> QED  BY <1>2, <2>1
<1>4. n + 1 \in DOMAIN all /\ all[n + 1].kind \in CC!Boundary
  <2>1. 1 \in 1..m /\ n + 1 \in 1..(n + m)
    BY <1>1
  <2> QED  BY <1>2, <2>1
<1>5. ~(first < n + 1)
  BY <1>1, <1>3, <1>4
<1>6. ~(first > n + 1)
  <2> SUFFICES ASSUME first > n + 1 PROVE FALSE
    OBVIOUS
  <2>1. first \in 1..(n + m) /\ all[first].kind \in CC!Boundary
    BY <1>1, <1>2, <1>3
  <2>2. PICK k \in 1..m : first = n + k /\ k > 1
    <3>1. first - n \in 1..m /\ first = n + (first - n) /\ first - n > 1
      BY <1>1, <2>1
    <3> QED  BY <3>1
  <2> QED  BY <1>1, <1>2, <2>1, <2>2
<1>7. first = n + 1
  BY <1>1, <1>5, <1>6
<1> DEFINE v == View(all)
<1>8. /\ v \in Seq(SessionMessage) /\ Len(v) = Len(all) - first + 1
      /\ \A k \in DOMAIN v : v[k] = all[first + k - 1]
  <2>1. first \in 1..(Len(all) + 1)
    BY <1>2, <1>3
  <2> HIDE DEF v
  <2>2. v = SubSeq(all, first, Len(all))
    BY <1>3 DEF v
  <2> QED  BY <1>2, <2>1, <2>2, FromPosition
<1> HIDE DEF v
<1>9. DOMAIN v = 1..m
  BY <1>1, <1>2, <1>7, <1>8
<1>10. \A k \in 1..m : v[k] = post[k]
  <2> TAKE k \in 1..m
  <2>1. first + k - 1 = n + k
    BY <1>1, <1>7
  <2> QED  BY <1>2, <1>8, <1>9, <2>1
<1>11. v = [k \in 1..m |-> v[k]] /\ post = [k \in 1..m |-> post[k]]
  BY <1>1, <1>8, <1>9
<1> QED  BY <1>10, <1>11 DEF v, all

\* Shrinking a result keeps what the view tells.
LEMMA BudgetKeepsTheView ==
  ASSUME NEW v \in Seq(SessionMessage), NEW w, w \in {CC!ApplyToolResultBudget(v), CC!Microcompact(v)}
  PROVE  /\ w \in Seq(SessionMessage) /\ DOMAIN w = DOMAIN v
         /\ \A k \in DOMAIN v : /\ w[k].kind = v[k].kind /\ w[k].number = v[k].number
                               /\ w[k].covers = v[k].covers /\ w[k].skill = v[k].skill
<1>1. DOMAIN v = 1..Len(v) /\ Len(v) \in Nat /\ \A k \in DOMAIN v : v[k] \in SessionMessage
  OBVIOUS
<1>2. DOMAIN w = DOMAIN v
  BY DEF CC!ApplyToolResultBudget, CC!Microcompact
<1>3. \A k \in DOMAIN v : w[k] \in {v[k], [v[k] EXCEPT !.tokens = 1]}
  BY DEF CC!ApplyToolResultBudget, CC!Microcompact
<1>4. \A k \in DOMAIN v :
        /\ w[k] \in SessionMessage /\ w[k].kind = v[k].kind /\ w[k].number = v[k].number
        /\ w[k].covers = v[k].covers /\ w[k].skill = v[k].skill
  <2> TAKE k \in DOMAIN v
  <2>1. v[k] \in SessionMessage
    BY <1>1
  <2>2. CASE w[k] = v[k]
    BY <2>1, <2>2
  <2>3. CASE w[k] = [v[k] EXCEPT !.tokens = 1]
    <3> DEFINE m == v[k]
    <3>1. m \in SessionMessage /\ w[k] = [m EXCEPT !.tokens = 1]
      BY <2>1, <2>3
    <3> HIDE DEF m
    <3>2. [m EXCEPT !.tokens = 1] = [kind |-> m.kind, number |-> m.number, tokens |-> 1,
                                     covers |-> m.covers, skill |-> m.skill]
      BY <3>1 DEF SessionMessage
    <3>3. /\ m.kind \in MessageKinds /\ m.number \in 0..appended /\ m.covers \in SUBSET (1..appended)
          /\ m.skill \in SkillNames /\ (m.kind = "skill" => m.skill \in Skills)
      BY <3>1 DEF SessionMessage
    <3> QED  BY <3>1, <3>2, <3>3 DEF SessionMessage, m
  <2> QED  BY <1>3, <2>2, <2>3
<1>5. w = [k \in 1..Len(v) |-> w[k]]
  BY <1>1, <1>2 DEF CC!ApplyToolResultBudget, CC!Microcompact
<1>6. w \in Seq(SessionMessage)
  <2> DEFINE n == Len(v)
             u == [k \in 1..n |-> w[k]]
  <2>1. n \in Nat /\ \A k \in 1..n : w[k] \in SessionMessage
    BY <1>1, <1>4
  <2> HIDE DEF n
  <2>2. u \in Seq(SessionMessage)
    BY <2>1
  <2> QED  BY <1>5, <2>2 DEF n
<1> QED  BY <1>2, <1>4, <1>6

LEMMA SameViewTellsTheSame ==
  ASSUME NEW v, NEW w, NEW n, InOrderUpTo(v, n), TellsUpTo(v, n), DOMAIN w = DOMAIN v,
         \A k \in DOMAIN v : w[k].kind = v[k].kind /\ w[k].number = v[k].number /\ w[k].covers = v[k].covers
  PROVE  InOrderUpTo(w, n) /\ TellsUpTo(w, n)
<1>1. \A k \in DOMAIN v : Told(w[k]) = Told(v[k])
  BY DEF Told
<1> QED  BY <1>1 DEF InOrderUpTo, TellsUpTo

\* What a skill is recorded with stays, and it is there.
LEMMA RecordKeepsSkills ==
  ASSUME NEW skills \in SkillLists, NEW s \in Skills
  PROVE  LET r == CC!RecordInvokedSkill(skills, s)
         IN  /\ r \in SkillLists
             /\ \E k \in DOMAIN r : r[k] = s
             /\ \A i \in DOMAIN skills : \E k \in DOMAIN r : r[k] = skills[i]
<1> DEFINE n == Len(skills)
           listed == {i \in DOMAIN skills : skills[i] = s}
           last == IF listed = {} THEN n + 1 ELSE CHOOSE i \in listed : TRUE
           front == SubSeq(skills, 1, last - 1)
           rest == SubSeq(skills, last + 1, n)
           r == CC!RecordInvokedSkill(skills, s)
<1>1. n \in Nat /\ DOMAIN skills = 1..n /\ skills \in Seq(Skills)
  BY DEF SkillLists
<1>2. /\ last \in 1..(n + 1) /\ (last \in DOMAIN skills => skills[last] = s)
      /\ \A i \in DOMAIN skills : skills[i] = s => i = last
  <2>1. CASE listed = {}
    BY <1>1, <2>1
  <2>2. CASE listed # {}
    <3> HIDE DEF listed
    <3>1. last \in listed
      BY <2>2
    <3> HIDE DEF last
    <3> QED  BY <1>1, <3>1 DEF listed, SkillLists
  <2> QED  BY <2>1, <2>2
<1>3. r = (<<s>> \o front) \o rest
  BY DEF CC!RecordInvokedSkill
<1> HIDE DEF last, r, listed, n
<1>4. /\ front \in Seq(Skills) /\ Len(front) = last - 1
      /\ \A k \in 1..(last - 1) : front[k] = skills[k]
  <2>1. \A k \in 1..(last - 1) : skills[k] \in Skills /\ k \in 1..n
    BY <1>1, <1>2
  <2>2. /\ front \in Seq(Skills)
        /\ Len(front) = IF 1 <= last - 1 THEN last - 1 - 1 + 1 ELSE 0
        /\ \A k \in 1..(last - 1 - 1 + 1) : front[k] = skills[1 + k - 1]
    BY <1>2, <2>1, SubSeqProperties
  <2>3. last - 1 - 1 + 1 = last - 1 /\ last - 1 >= 0 /\ \A k \in 1..(last - 1) : 1 + k - 1 = k
    BY <1>1, <1>2
  <2> QED  BY <2>2, <2>3
<1>5. /\ rest \in Seq(Skills) /\ Len(rest) = IF last <= n THEN n - last ELSE 0
      /\ \A k \in 1..(n - last) : rest[k] = skills[last + k]
  <2>1. last + 1 \in Int /\ \A k \in (last + 1)..n : skills[k] \in Skills
    BY <1>1, <1>2
  <2>2. /\ rest \in Seq(Skills)
        /\ Len(rest) = IF last + 1 <= n THEN n - (last + 1) + 1 ELSE 0
        /\ \A k \in 1..(n - (last + 1) + 1) : rest[k] = skills[last + 1 + k - 1]
    BY <1>1, <2>1, SubSeqProperties
  <2>3. n - (last + 1) + 1 = n - last /\ \A k \in 1..(n - last) : last + 1 + k - 1 = last + k
    BY <1>1, <1>2
  <2>4. (IF last + 1 <= n THEN n - last ELSE 0) = (IF last <= n THEN n - last ELSE 0)
    BY <1>1, <1>2
  <2> QED  BY <2>2, <2>3, <2>4
<1> HIDE DEF front, rest
<1> DEFINE head == <<s>> \o front
<1>6. /\ head \in Seq(Skills) /\ Len(head) = last
      /\ head[1] = s /\ \A k \in 1..(last - 1) : head[k + 1] = skills[k]
  <2>1. Len(head) = 1 + Len(front) /\ head \in Seq(Skills) /\ head[1] = s
    BY <1>4
  <2>2. \A k \in 1..Len(front) : head[k + 1] = front[k]
    BY <1>4
  <2> QED  BY <1>1, <1>2, <1>4, <2>1, <2>2
<1> HIDE DEF head
<1>7. /\ r \in Seq(Skills) /\ DOMAIN r = 1..(Len(head) + Len(rest))
      /\ \A k \in 1..Len(head) : r[k] = head[k]
      /\ \A k \in 1..Len(rest) : r[Len(head) + k] = rest[k]
  BY <1>3, <1>5, <1>6 DEF head
<1>8. Len(rest) \in Nat /\ last \in 1..(last + Len(rest)) /\ 1 \in 1..last
  BY <1>1, <1>2, <1>5
<1>9. r[1] = s /\ 1 \in DOMAIN r
  BY <1>1, <1>2, <1>6, <1>7, <1>8
<1>10. ASSUME NEW i \in DOMAIN skills PROVE \E k \in DOMAIN r : r[k] = skills[i]
  <2>1. i \in 1..n
    BY <1>1
  <2>2. CASE i < last
    <3>1. i \in 1..(last - 1) /\ i + 1 \in 1..last
      BY <1>1, <1>2, <2>1, <2>2
    <3>2. r[i + 1] = skills[i] /\ i + 1 \in DOMAIN r
      BY <1>2, <1>6, <1>7, <1>8, <3>1
    <3> QED  BY <3>2
  <2>3. CASE i = last
    BY <1>2, <1>9, <2>3
  <2>4. CASE i > last
    <3>1. i - last \in 1..(n - last) /\ last <= n /\ last + (i - last) = i
      BY <1>1, <1>2, <2>1, <2>4
    <3>2. rest[i - last] = skills[i] /\ i - last \in 1..Len(rest)
      BY <1>5, <3>1
    <3>3. r[last + (i - last)] = skills[i] /\ last + (i - last) \in DOMAIN r
      BY <1>2, <1>6, <1>7, <1>8, <3>2
    <3> QED  BY <3>3
  <2> QED  BY <1>1, <1>2, <2>1, <2>2, <2>3, <2>4
\* Behind the first entry are the others, but for the one at last.
<1>11. ASSUME NEW k \in DOMAIN r, k > 1
       PROVE  /\ k <= last => k - 1 \in DOMAIN skills /\ r[k] = skills[k - 1] /\ k - 1 # last
              /\ k > last => k \in DOMAIN skills /\ r[k] = skills[k]
  <2>1. k \in 1..(last + Len(rest)) /\ k \in Nat
    BY <1>6, <1>7
  <2>2. CASE k <= last
    <3>1. k - 1 \in 1..(last - 1) /\ k \in 1..last /\ k - 1 \in 1..n
      BY <1>1, <1>2, <1>11, <2>1, <2>2
    <3>2. head[(k - 1) + 1] = skills[k - 1] /\ (k - 1) + 1 = k
      BY <1>6, <2>1, <3>1
    <3>3. r[k] = head[k] /\ k - 1 # last
      BY <1>2, <1>6, <1>7, <3>1
    <3> QED  BY <1>1, <2>1, <2>2, <1>2, <3>1, <3>2, <3>3
  <2>3. CASE k > last
    <3>1. k - last \in 1..Len(rest) /\ last + (k - last) = k
      BY <1>2, <1>8, <2>1, <2>3
    <3>2. k - last \in 1..(n - last) /\ k \in 1..n
      BY <1>1, <1>2, <1>5, <2>1, <3>1
    <3>3. r[last + (k - last)] = rest[k - last] /\ rest[k - last] = skills[last + (k - last)]
      BY <1>5, <1>6, <1>7, <3>1, <3>2
    <3> QED  BY <1>1, <1>2, <2>1, <2>3, <3>1, <3>2, <3>3
  <2> QED  BY <1>1, <1>2, <2>1, <2>2, <2>3
<1>12. ASSUME NEW i \in DOMAIN r, NEW j \in DOMAIN r, i < j, r[i] = r[j] PROVE FALSE
  <2>1. i \in Nat /\ j \in Nat /\ i >= 1 /\ last \in Nat
    BY <1>1, <1>2, <1>6, <1>7
  <2>2. \A a, b \in DOMAIN skills : skills[a] = skills[b] => a = b
    BY DEF SkillLists
  <2>3. CASE i = 1
    BY <1>2, <1>9, <1>11, <1>12, <2>1, <2>3
  <2>4. CASE i > 1 /\ j <= last
    <3>1. i <= last /\ j > 1
      BY <1>12, <2>1, <2>4
    <3>2. r[i] = skills[i - 1] /\ i - 1 \in DOMAIN skills
      BY <1>11, <2>4, <3>1
    <3>3. r[j] = skills[j - 1] /\ j - 1 \in DOMAIN skills
      BY <1>11, <2>4, <3>1
    <3>4. i - 1 = j - 1
      BY <1>12, <2>2, <3>2, <3>3
    <3> QED  BY <1>12, <2>1, <3>4
  <2>5. CASE i > 1 /\ i <= last /\ j > last
    <3>1. j > 1
      BY <1>12, <2>1, <2>5
    <3>2. r[i] = skills[i - 1] /\ i - 1 \in DOMAIN skills
      BY <1>11, <2>5
    <3>3. r[j] = skills[j] /\ j \in DOMAIN skills
      BY <1>11, <2>5, <3>1
    <3>4. i - 1 = j
      BY <1>12, <2>2, <3>2, <3>3
    <3> QED  BY <1>12, <2>1, <3>4
  <2>6. CASE i > last
    <3>1. i > 1 /\ j > 1 /\ j > last
      BY <1>12, <1>2, <1>1, <2>1, <2>6
    <3>2. r[i] = skills[i] /\ i \in DOMAIN skills
      BY <1>11, <2>6, <3>1
    <3>3. r[j] = skills[j] /\ j \in DOMAIN skills
      BY <1>11, <3>1
    <3>4. i = j
      BY <1>12, <2>2, <3>2, <3>3
    <3> QED  BY <1>12, <2>1, <3>4
  <2> QED  BY <2>1, <2>3, <2>4, <2>5, <2>6
<1>13. \A i, j \in DOMAIN r : r[i] = r[j] => i = j
  <2> SUFFICES ASSUME NEW i \in DOMAIN r, NEW j \in DOMAIN r, r[i] = r[j], i # j PROVE FALSE
    OBVIOUS
  <2>1. i < j \/ j < i
    BY <1>7, <1>6, <1>8
  <2> QED  BY <1>12, <2>1
<1>14. r \in SkillLists
  BY <1>7, <1>13 DEF SkillLists
<1> QED  BY <1>14, <1>9, <1>10 DEF r

\* Restoring attachments: the skills known stay, those attached are known.
LEMMA RestoreKeepsSkills ==
  ASSUME NEW skills \in SkillLists, NEW msgs \in Seq(SessionMessage)
  PROVE  /\ CC!Restored(skills, msgs) \in SkillLists
         /\ Attached(CC!Restored(skills, msgs), msgs)
         /\ \A j \in DOMAIN skills : \E k \in DOMAIN CC!Restored(skills, msgs) :
              CC!Restored(skills, msgs)[k] = skills[j]
<1> DEFINE n == Len(msgs)
           record(q, i) == IF i \in CC!SkillMessages(msgs) THEN CC!RecordInvokedSkill(q, msgs[i].skill) ELSE q
           g == [i \in 1..n |-> [q \in SkillLists |-> record(q, i)]]
           step(f) == [i \in 0..n |->
             IF i = 0 THEN skills
             ELSE IF i \in CC!SkillMessages(msgs) THEN CC!RecordInvokedSkill(f[i - 1], msgs[i].skill)
             ELSE f[i - 1]]
           after == CHOOSE f : f = step(f)
<1>1. n \in Nat /\ DOMAIN msgs = 1..n /\ \A i \in 1..n : msgs[i] \in SessionMessage
  OBVIOUS
<1>2. CC!Restored(skills, msgs) = after[n]
  BY DEF CC!Restored
<1> HIDE DEF n
<1>3. \A i \in 1..n, q \in SkillLists :
        /\ record(q, i) \in SkillLists
        /\ \A j \in DOMAIN q : \E k \in DOMAIN record(q, i) : record(q, i)[k] = q[j]
        /\ msgs[i].kind = "skill" => \E k \in DOMAIN record(q, i) : record(q, i)[k] = msgs[i].skill
  <2> TAKE i \in 1..n, q \in SkillLists
  <2>1. msgs[i].kind = "skill" => msgs[i].skill \in Skills
    BY <1>1 DEF SessionMessage
  <2>2. i \in CC!SkillMessages(msgs) <=> msgs[i].kind = "skill"
    BY <1>1 DEF CC!SkillMessages
  <2>3. CASE msgs[i].kind = "skill"
    <3>1. record(q, i) = CC!RecordInvokedSkill(q, msgs[i].skill)
      BY <2>2, <2>3
    <3> DEFINE r == CC!RecordInvokedSkill(q, msgs[i].skill)
    <3>2. /\ r \in SkillLists
          /\ \E k \in DOMAIN r : r[k] = msgs[i].skill
          /\ \A j \in DOMAIN q : \E k \in DOMAIN r : r[k] = q[j]
      BY <2>1, <2>3, RecordKeepsSkills
    <3>3. record(q, i) = r
      BY <3>1
    <3> HIDE DEF record, r
    <3> QED  BY <3>2, <3>3
  <2>4. CASE msgs[i].kind # "skill"
    <3>1. record(q, i) = q
      BY <2>2, <2>4
    <3> HIDE DEF record
    <3> QED  BY <2>4, <3>1
  <2> QED  BY <2>3, <2>4
<1>4. g \in StepsIn(n, SkillLists) /\ \A i \in 1..n, q \in SkillLists : g[i][q] = record(q, i)
  <2>1. \A i \in 1..n, q \in SkillLists : record(q, i) \in SkillLists
    BY <1>3
  <2> HIDE DEF record
  <2> QED  BY <2>1 DEF StepsIn
<1> HIDE DEF g
<1>5. PICK f : FollowsSteps(f, n, SkillLists, skills, g)
  BY <1>1, <1>4, StepByStep, Zenon
<1>6. /\ f \in [0..n -> SkillLists] /\ f[0] = skills
      /\ \A i \in 1..n : i - 1 \in 0..n /\ f[i] = record(f[i - 1], i)
  <2>1. /\ f \in [0..n -> SkillLists] /\ f[0] = skills
        /\ \A i \in 1..n : f[i] = g[i][f[i - 1]]
    BY <1>5 DEF FollowsSteps
  <2>2. \A i \in 1..n : i - 1 \in 0..n
    BY <1>1
  <2> HIDE DEF record
  <2> QED  BY <1>4, <2>1, <2>2
<1>7. f = step(f)
  <2>1. \A i \in 0..n : f[i] = IF i = 0 THEN skills ELSE record(f[i - 1], i)
    <3> TAKE i \in 0..n
    <3>1. i = 0 \/ i \in 1..n
      BY <1>1
    <3> HIDE DEF record
    <3> QED  BY <1>6, <3>1
  <2> QED  BY <1>6, <2>1
<1>8. after = step(after)
  BY <1>7
<1> HIDE DEF after
<1>9. \A i \in 0..n : after[i] = f[i]
  <2> DEFINE P == {i \in 0..n : after[i] = f[i]}
  <2>1. 0 \in P
    <3>1. 0 \in 0..n
      BY <1>1
    <3> QED  BY <1>6, <1>8, <3>1
  <2>2. ASSUME NEW i \in 1..n, i - 1 \in P PROVE i \in P
    <3>1. i \in 0..n /\ i # 0
      BY <1>1
    <3>2. after[i] = record(after[i - 1], i)
      BY <1>8, <3>1
    <3> HIDE DEF record
    <3> QED  BY <1>6, <2>2, <3>1, <3>2
  <2>3. 0..n \subseteq P
    <3> HIDE DEF P
    <3> QED  BY <1>1, <2>1, <2>2, AllPositions
  <2> QED  BY <2>3
<1> HIDE DEF record
<1> DEFINE has(q, s) == \E k \in DOMAIN q : q[k] = s
           keeps(i) == /\ \A j \in DOMAIN skills : has(f[i], skills[j])
                      /\ \A j \in 1..i : msgs[j].kind = "skill" => has(f[i], msgs[j].skill)
           K == {i \in 0..n : keeps(i)}
<1>10. 0 \in K
  <2>1. 0 \in 0..n /\ \A j \in 1..0 : FALSE
    BY <1>1
  <2> QED  BY <1>6, <2>1
<1>11. ASSUME NEW i \in 1..n, i - 1 \in K PROVE i \in K
  <2>1. i - 1 \in 0..n /\ f[i - 1] \in SkillLists /\ f[i] = record(f[i - 1], i)
    BY <1>6
  <2>2. /\ \A s : has(f[i - 1], s) => has(f[i], s)
        /\ msgs[i].kind = "skill" => has(f[i], msgs[i].skill)
    BY <1>3, <2>1
  <2> HIDE DEF has
  <2>3. \A j \in 1..i : j = i \/ j \in 1..(i - 1)
    BY <1>1
  <2>4. keeps(i)
    BY <1>11, <2>2, <2>3
  <2>5. i \in 0..n
    BY <1>1
  <2> QED  BY <2>4, <2>5
<1>12. n \in K /\ n \in 0..n
  <2> HIDE DEF K
  <2>1. 0..n \subseteq K
    BY <1>1, <1>10, <1>11, AllPositions
  <2> QED  BY <1>1, <2>1
<1>13. CC!Restored(skills, msgs) = f[n] /\ f[n] \in SkillLists
  BY <1>2, <1>6, <1>9, <1>12
<1> QED  BY <1>1, <1>12, <1>13 DEF Attached

LEMMA CompactionStarts == CC!Init => CompactionInv
<1> SUFFICES ASSUME CC!Init PROVE CompactionInv
  OBVIOUS
<1>1. messages = <<>> /\ appended = 0 /\ invokedSkills = <<>> /\ request.at # "summary"
  BY DEF CC!Init, CC!NoRequest
<1>2. messages \in Seq(SessionMessage) /\ invokedSkills \in SkillLists /\ DOMAIN messages = {}
  BY <1>1 DEF SkillLists
<1>3. DOMAIN View(messages) = {}
  BY <1>2, ViewIsTheEnd
<1>4. InOrderUpTo(View(messages), appended) /\ TellsUpTo(View(messages), appended)
  BY <1>1, <1>3 DEF InOrderUpTo, TellsUpTo
<1> QED  BY <1>1, <1>2, <1>4 DEF CompactionInv, Attached

LEMMA SeqOfMore == ASSUME NEW A, NEW B, A \subseteq B, NEW q \in Seq(A) PROVE q \in Seq(B)
OBVIOUS

LEMMA SameMessages == appended' = appended => SessionMessage' = SessionMessage
BY DEF SessionMessage

LEMMA OneMoreToTell ==
  ASSUME NEW S, NEW v \in Seq(S), NEW n \in Nat, NEW msg \in S,
         InOrderUpTo(v, n), TellsUpTo(v, n),
         msg.number = n + 1, msg.covers = {}, msg.kind \notin CC!Boundary
  PROVE  InOrderUpTo(Append(v, msg), n + 1) /\ TellsUpTo(Append(v, msg), n + 1)
<1> DEFINE w == Append(v, msg)
           l == Len(v)
<1>1. /\ l \in Nat /\ DOMAIN v = 1..l /\ DOMAIN w = 1..(l + 1) /\ w[l + 1] = msg
      /\ \A k \in 1..l : w[k] = v[k]
  OBVIOUS
<1>2. Told(msg) = {n + 1}
  BY DEF Told
<1> HIDE DEF w, l
<1>3. \A k \in DOMAIN w : (k = l + 1 /\ w[k] = msg) \/ (k \in DOMAIN v /\ w[k] = v[k])
  BY <1>1
<1>4. \A k \in DOMAIN v : Told(v[k]) \subseteq 1..n
  BY DEF InOrderUpTo
<1>5. \A j \in DOMAIN v : \A m \in Told(v[j]) : m < n + 1
  BY <1>4
<1>6. ASSUME NEW j \in DOMAIN w, NEW k \in DOMAIN w, j < k, w[k].number # 0, NEW m \in Told(w[j])
      PROVE  m < w[k].number
  <2>1. j \in DOMAIN v /\ w[j] = v[j]
    BY <1>1, <1>6
  <2>2. CASE k = l + 1
    BY <1>1, <1>5, <1>6, <2>1, <2>2
  <2>3. CASE k # l + 1
    <3>1. k \in DOMAIN v /\ w[k] = v[k]
      BY <1>3, <2>3
    <3> QED  BY <1>6, <2>1, <3>1 DEF InOrderUpTo
  <2> QED  BY <2>2, <2>3
<1>7. \A k \in DOMAIN w : Told(w[k]) \subseteq 1..(n + 1)
  <2>1. 1..n \subseteq 1..(n + 1) /\ n + 1 \in 1..(n + 1)
    OBVIOUS
  <2> QED  BY <1>2, <1>3, <1>4, <2>1
<1>8. \A k \in DOMAIN w : k > 1 => w[k].kind \notin CC!Boundary
  BY <1>3 DEF InOrderUpTo
<1>9. \A k \in DOMAIN w : w[k].number # 0 => w[k].covers = {}
  BY <1>3 DEF InOrderUpTo
<1>10. InOrderUpTo(w, n + 1)
  BY <1>6, <1>7, <1>8, <1>9 DEF InOrderUpTo
<1>11. TellsUpTo(w, n + 1)
  <2> SUFFICES ASSUME NEW m \in 1..(n + 1), m \notin overtaken PROVE \E k \in DOMAIN w : m \in Told(w[k])
    BY DEF TellsUpTo
  <2>1. CASE m = n + 1
    BY <1>1, <1>2, <2>1
  <2>2. CASE m # n + 1
    <3>1. m \in 1..n
      BY <2>2
    <3>2. PICK k \in DOMAIN v : m \in Told(v[k])
      BY <3>1 DEF TellsUpTo
    <3>3. k \in DOMAIN w /\ w[k] = v[k]
      BY <1>1
    <3> QED  BY <3>2, <3>3
  <2> QED  BY <2>1, <2>2
<1> QED  BY <1>10, <1>11 DEF w

LEMMA AppendKeepsTold ==
  ASSUME CompactionInv, CC!AppendMessage
  PROVE  CompactionInv'
<1>1. PICK kind \in {"text", "use", "result"}, tokens \in 1..3 :
        messages' = Append(messages, CC!Msg(kind, appended + 1, tokens))
  BY DEF CC!AppendMessage
<1> DEFINE msg == CC!Msg(kind, appended + 1, tokens)
<1>2. /\ appended' = appended + 1 /\ invokedSkills' = invokedSkills /\ request' = request
      /\ overtaken' = overtaken
  BY DEF CC!AppendMessage
<1>3. messages \in Seq(SessionMessage) /\ appended \in Nat /\ invokedSkills \in SkillLists
  BY DEF CompactionInv
<1>4. /\ msg \in SessionMessage' /\ msg.number = appended + 1 /\ msg.covers = {}
      /\ msg.kind \notin CC!Boundary /\ msg.kind # "skill"
  <2>1. kind \in MessageKinds /\ kind \notin CC!Boundary /\ kind # "skill"
    BY DEF MessageKinds, CC!Boundary
  <2>2. appended + 1 \in 0..appended' /\ tokens \in 0..3 /\ {} \in SUBSET (1..appended') /\ "none" \in SkillNames
    BY <1>2, <1>3 DEF SkillNames
  <2> QED  BY <2>1, <2>2 DEF CC!Msg, SessionMessage
<1> HIDE DEF msg
<1>14. SessionMessage \subseteq SessionMessage'
  <2>1. 0..appended \subseteq 0..appended' /\ 1..appended \subseteq 1..appended'
    BY <1>2, <1>3
  <2> QED  BY <2>1 DEF SessionMessage
<1>15. messages \in Seq(SessionMessage')
  BY <1>3, <1>14, SeqOfMore
<1>5. messages' = Append(messages, msg)
  BY <1>1 DEF msg
<1>6. View(messages)' = Append(View(messages), msg)
  <2>1. View(Append(messages, msg)) = Append(View(messages), msg)
    BY <1>4, <1>15, ViewGrows
  <2> QED  BY <1>5, <2>1 DEF View, CC!MessagesAfterLastCompactBoundary
<1>7. messages' \in Seq(SessionMessage')
  BY <1>4, <1>5, <1>15
<1>8. Attached(invokedSkills, messages)'
  <2>1. Attached(invokedSkills, messages)
    BY DEF CompactionInv
  <2>2. \A i \in DOMAIN messages' : messages'[i] = msg \/ (i \in DOMAIN messages /\ messages'[i] = messages[i])
    BY <1>3, <1>5
  <2> QED  BY <1>2, <1>4, <2>1, <2>2 DEF Attached
<1>9. View(messages) \in Seq(SessionMessage')
  <2>1. View(messages) \in Seq(SessionMessage)
    BY <1>3, ViewIsTheEnd
  <2> QED  BY <1>14, <2>1, SeqOfMore
<1>10. SnipTokens = 0 => InOrderUpTo(View(messages), appended)' /\ TellsUpTo(View(messages), appended)'
  <2> SUFFICES ASSUME SnipTokens = 0
               PROVE  InOrderUpTo(View(messages), appended)' /\ TellsUpTo(View(messages), appended)'
    OBVIOUS
  <2>1. InOrderUpTo(View(messages), appended) /\ TellsUpTo(View(messages), appended)
    BY DEF CompactionInv
  <2> DEFINE w == Append(View(messages), msg)
  <2>2. InOrderUpTo(w, appended + 1) /\ TellsUpTo(w, appended + 1)
    BY <1>3, <1>4, <1>9, <2>1, OneMoreToTell
  <2> HIDE DEF w
  <2>3. View(messages)' = w
    BY <1>6 DEF w
  <2> QED  BY <1>2, <2>2, <2>3 DEF InOrderUpTo, TellsUpTo
<1>11. request.at = "summary" =>
         /\ request.view \in Seq(SessionMessage') /\ request.since \in 0..(appended + 1)
         /\ request.snipped \in Seq(SessionMessage')
         /\ \A i \in DOMAIN request.snipped : request.snipped[i].kind # "skill"
  <2>1. request.since \in 0..appended => request.since \in 0..(appended + 1)
    BY <1>3
  <2>2. request.at = "summary" =>
          request.view \in Seq(SessionMessage) /\ request.snipped \in Seq(SessionMessage)
    BY DEF CompactionInv
  <2> QED  BY <1>14, <2>1, <2>2, SeqOfMore DEF CompactionInv
<1>12. SnipTokens = 0 /\ request.at = "summary" =>
         /\ request.snipped = <<>>
         /\ InOrderUpTo(request.view, request.since) /\ TellsUpTo(request.view, request.since)'
  BY <1>2 DEF CompactionInv, TellsUpTo
<1>13. appended' \in Nat
  BY <1>2, <1>3
<1> QED  BY <1>2, <1>3, <1>7, <1>8, <1>10, <1>11, <1>12, <1>13 DEF CompactionInv, InOrderUpTo

LEMMA InvokeKeepsTold ==
  ASSUME CompactionInv, CC!InvokeSkill
  PROVE  CompactionInv'
<1>1. PICK s \in Skills : invokedSkills' = CC!RecordInvokedSkill(invokedSkills, s)
  BY DEF CC!InvokeSkill
<1>2. UNCHANGED <<messages, appended, request, overtaken>>
  BY DEF CC!InvokeSkill
<1>3. invokedSkills \in SkillLists /\ s \in Skills /\ Attached(invokedSkills, messages)
  BY DEF CompactionInv
<1>4. /\ invokedSkills' \in SkillLists
      /\ \A i \in DOMAIN invokedSkills : \E k \in DOMAIN invokedSkills' : invokedSkills'[k] = invokedSkills[i]
  BY <1>1, <1>3, RecordKeepsSkills
<1>5. Attached(invokedSkills, messages)'
  BY <1>2, <1>3, <1>4 DEF Attached
<1>6. /\ View(messages)' = View(messages)
      /\ \A v, n : TellsUpTo(v, n)' <=> TellsUpTo(v, n)
  BY <1>2 DEF View, TellsUpTo
<1> QED  BY SameMessages, <1>2, <1>4, <1>5, <1>6 DEF CompactionInv, View, TellsUpTo

LEMMA PrepareKeepsTold ==
  ASSUME CompactionInv, CC!PrepareNextQuery
  PROVE  CompactionInv'
<1> DEFINE v == View(messages)
           view == CC!ApplyToolResultBudget(v)
           snipped == IF CC!Snips(view) THEN <<CC!Msg("snip", 0, 0)>> ELSE <<>>
           snippedView == CC!HistorySnip(view)
           prepared == CC!Microcompact(snippedView)
<1>1. /\ UNCHANGED <<appended, invokedSkills, overtaken>>
      /\ \/ /\ request' = [at |-> "summary", view |-> prepared, snipped |-> snipped, since |-> appended]
            /\ messages' = messages
         \/ messages' = messages \o snipped /\ request' = request
  BY DEF CC!PrepareNextQuery, View
<1>2. request.at # "summary"
  BY DEF CC!PrepareNextQuery, CC!NoRequest
<1>3. /\ messages \in Seq(SessionMessage) /\ appended \in Nat /\ invokedSkills \in SkillLists
      /\ Attached(invokedSkills, messages)
  BY DEF CompactionInv
<1>4. v \in Seq(SessionMessage)
  BY <1>3, ViewIsTheEnd
<1>5. view \in Seq(SessionMessage) /\ DOMAIN view = DOMAIN v
  BY <1>4, BudgetKeepsTheView
<1> DEFINE snip == CC!Msg("snip", 0, 0)
<1>6. snip \in SessionMessage /\ snip.kind # "skill"
  BY <1>3 DEF CC!Msg, SessionMessage, MessageKinds, SkillNames, CC!Boundary
<1> HIDE DEF snip
<1>7. snipped \in Seq(SessionMessage) /\ \A i \in DOMAIN snipped : snipped[i].kind # "skill"
  <2>1. CASE CC!Snips(view)
    <3>1. snipped = <<snip>>
      BY <2>1 DEF snip
    <3> HIDE DEF snipped
    <3> QED  BY <1>6, <3>1
  <2>2. CASE ~CC!Snips(view)
    BY <2>2
  <2> QED  BY <2>1, <2>2
<1>8. snippedView \in Seq(SessionMessage)
  <2>1. CASE CC!Snips(view)
    <3> DEFINE start == CC!SnipStart(view)
               l == Len(view)
    <3>1. l \in Nat /\ \A k \in 1..l : view[k] \in SessionMessage
      BY <1>5
    <3>2. start \in Int /\ start > 0
      <4>1. KeepRecent \in Nat
        BY CompactionAssumption
      <4>2. start > 0
        BY <2>1 DEF CC!Snips
      <4>3. start \in {l - KeepRecent, l - KeepRecent - 1}
        BY DEF CC!SnipStart
      <4> QED  BY <3>1, <4>1, <4>2, <4>3
    <3>3. snippedView = <<snip>> \o SubSeq(view, start + 1, l)
      BY <2>1 DEF CC!HistorySnip, snip
    <3> HIDE DEF view, snippedView, start, l
    <3>4. \A k \in (start + 1)..l : view[k] \in SessionMessage
      BY <3>1, <3>2
    <3>5. SubSeq(view, start + 1, l) \in Seq(SessionMessage)
      BY <3>1, <3>2, <3>4, SubSeqProperties
    <3> QED  BY <1>6, <3>3, <3>5
  <2>2. CASE ~CC!Snips(view)
    BY <1>5, <2>2 DEF CC!HistorySnip
  <2> QED  BY <2>1, <2>2
<1>9. prepared \in Seq(SessionMessage)
  BY <1>8, BudgetKeepsTheView
<1>10. SnipTokens = 0 => /\ snipped = <<>>
                         /\ InOrderUpTo(prepared, appended) /\ TellsUpTo(prepared, appended)
  <2> SUFFICES ASSUME SnipTokens = 0
               PROVE  snipped = <<>> /\ InOrderUpTo(prepared, appended) /\ TellsUpTo(prepared, appended)
    OBVIOUS
  <2>1. ~CC!Snips(view)
    BY DEF CC!Snips
  <2>2. snipped = <<>> /\ snippedView = view
    BY <2>1 DEF CC!HistorySnip
  <2>3. InOrderUpTo(v, appended) /\ TellsUpTo(v, appended)
    BY DEF CompactionInv
  <2>4. \A k \in DOMAIN v : /\ view[k].kind = v[k].kind /\ view[k].number = v[k].number
                            /\ view[k].covers = v[k].covers
    BY <1>4, BudgetKeepsTheView
  <2>5. DOMAIN prepared = DOMAIN view /\ \A k \in DOMAIN view :
          /\ prepared[k].kind = view[k].kind /\ prepared[k].number = view[k].number
          /\ prepared[k].covers = view[k].covers
    BY <1>5, <2>2, BudgetKeepsTheView
  <2> HIDE DEF prepared, view, snippedView, snipped, v
  <2>6. DOMAIN prepared = DOMAIN v /\ \A k \in DOMAIN v :
          /\ prepared[k].kind = v[k].kind /\ prepared[k].number = v[k].number
          /\ prepared[k].covers = v[k].covers
    BY <1>5, <2>4, <2>5
  <2> QED  BY <2>2, <2>3, <2>6, SameViewTellsTheSame
<1> HIDE DEF prepared, view, snippedView, snipped
<1>18. SessionMessage' = SessionMessage
  BY <1>1, SameMessages
<1>11. messages' = messages \/ messages' = messages \o snipped
  BY <1>1
<1>12. messages' \in Seq(SessionMessage)
  <2>1. CASE messages' = messages
    BY <1>3, <2>1
  <2>2. CASE messages' = messages \o snipped
    BY <1>3, <1>7, <2>2
  <2> QED  BY <1>11, <2>1, <2>2
<1>13. Attached(invokedSkills, messages)'
  <2>1. \A i \in DOMAIN messages' : (i \in DOMAIN messages /\ messages'[i] = messages[i]) \/ messages'[i].kind # "skill"
    <3>1. CASE messages' = messages
      BY <3>1
    <3>2. CASE messages' = messages \o snipped
      <4> TAKE i \in DOMAIN messages'
      <4>1. i \in 1..(Len(messages) + Len(snipped))
        BY <1>3, <1>7, <3>2
      <4>2. CASE i <= Len(messages)
        BY <1>3, <1>7, <3>2, <4>1, <4>2
      <4>3. CASE i > Len(messages)
        <5>1. i - Len(messages) \in DOMAIN snipped
          BY <1>3, <1>7, <4>1, <4>3
        <5>2. messages'[i] = snipped[i - Len(messages)]
          BY <1>3, <1>7, <3>2, <4>1, <4>3
        <5> QED  BY <1>7, <5>1, <5>2
      <4> QED  BY <1>3, <4>1, <4>2, <4>3
    <3> QED  BY <1>11, <3>1, <3>2
  <2> QED  BY <1>1, <1>3, <2>1 DEF Attached
<1>14. SnipTokens = 0 => InOrderUpTo(View(messages), appended)' /\ TellsUpTo(View(messages), appended)'
  <2> SUFFICES ASSUME SnipTokens = 0
               PROVE  InOrderUpTo(View(messages), appended)' /\ TellsUpTo(View(messages), appended)'
    OBVIOUS
  <2>1. messages' = messages
    BY <1>3, <1>10, <1>11
  <2>2. InOrderUpTo(View(messages), appended) /\ TellsUpTo(View(messages), appended)
    BY DEF CompactionInv
  <2>3. View(messages)' = View(messages)
    BY <2>1 DEF View
  <2> QED  BY <1>1, <2>2, <2>3 DEF InOrderUpTo, TellsUpTo
<1>15. request'.at = "summary" =>
         /\ request'.view = prepared /\ request'.snipped = snipped /\ request'.since = appended
  BY <1>1, <1>2
<1>16. request'.at = "summary" =>
         /\ request'.view \in Seq(SessionMessage) /\ request'.since \in 0..appended'
         /\ request'.snipped \in Seq(SessionMessage)
         /\ \A i \in DOMAIN request'.snipped : request'.snipped[i].kind # "skill"
  <2>1. appended \in 0..appended
    BY <1>3
  <2> QED  BY <1>1, <1>7, <1>9, <1>15, <2>1
<1>17. SnipTokens = 0 /\ request'.at = "summary" =>
         /\ request'.snipped = <<>>
         /\ InOrderUpTo(request'.view, request'.since) /\ TellsUpTo(request.view, request.since)'
  BY <1>1, <1>10, <1>15 DEF TellsUpTo
<1> QED  BY <1>18, <1>1, <1>3, <1>12, <1>13, <1>14, <1>16, <1>17 DEF CompactionInv, InOrderUpTo

LEMMA AttachmentsTellNothing ==
  ASSUME invokedSkills \in SkillLists, appended \in Nat
  PROVE  /\ CC!Attachments \in Seq(SessionMessage)
         /\ \A k \in DOMAIN CC!Attachments :
              /\ CC!Attachments[k].kind = "skill" /\ CC!Attachments[k].number = 0
              /\ CC!Attachments[k].covers = {}
<1> DEFINE l == Len(invokedSkills)
           fit == IF l < SkillBudget THEN l ELSE SkillBudget
           a(i) == [kind |-> "skill", number |-> 0, tokens |-> 0, covers |-> {}, skill |-> invokedSkills[i]]
<1>1. fit \in Nat /\ \A i \in 1..fit : invokedSkills[i] \in Skills
  BY CompactionAssumption DEF SkillLists
<1>2. CC!Attachments = [i \in 1..fit |-> a(i)]
  BY DEF CC!Attachments
<1> HIDE DEF fit
<1>3. \A i \in 1..fit : a(i) \in SessionMessage
  BY <1>1 DEF SessionMessage, MessageKinds, SkillNames
<1> DEFINE q == [i \in 1..fit |-> a(i)]
<1>4. \A i \in 1..fit : q[i].kind = "skill" /\ q[i].number = 0 /\ q[i].covers = {}
  OBVIOUS
<1>5. DOMAIN q = 1..fit /\ q \in Seq(SessionMessage)
  <2> HIDE DEF a
  <2> QED  BY <1>1, <1>3
<1> HIDE DEF q
<1>6. CC!Attachments = q
  BY <1>2 DEF q
<1> QED  BY <1>4, <1>5, <1>6

LEMMA TwoSequences ==
  ASSUME NEW S, NEW a \in Seq(S), NEW b \in Seq(S)
  PROVE  /\ a \o b \in Seq(S) /\ DOMAIN (a \o b) = 1..(Len(a) + Len(b))
         /\ \A k \in 1..Len(a) : (a \o b)[k] = a[k]
         /\ \A k \in 1..Len(b) : (a \o b)[Len(a) + k] = b[k]
  OBVIOUS

\* What a summary is written back as: boundary, summary, what is kept, attachments.
WrittenBack(covers, keep) ==
  <<CC!Msg("compact", 0, 0), [CC!Msg("summary", 0, 1) EXCEPT !.covers = covers]>>
    \o keep \o CC!Attachments

LEMMA WrittenBackInOrder ==
  ASSUME invokedSkills \in SkillLists, appended \in Nat, NEW covers \in SUBSET (1..appended), NEW keep \in Seq(SessionMessage)
  PROVE  LET post == WrittenBack(covers, keep) IN
         /\ post \in Seq(SessionMessage) /\ Len(post) >= Len(keep) + 2
         /\ post[1].kind = "compact" /\ post[1].number = 0 /\ post[1].covers = {}
         /\ post[2].kind = "summary" /\ post[2].number = 0 /\ post[2].covers = covers
         /\ \A k \in DOMAIN keep : post[k + 2] = keep[k]
         /\ \A k \in DOMAIN post : k > Len(keep) + 2 =>
              post[k].kind = "skill" /\ post[k].number = 0 /\ post[k].covers = {}
<1> DEFINE b == CC!Msg("compact", 0, 0)
           s == [CC!Msg("summary", 0, 1) EXCEPT !.covers = covers]
           att == CC!Attachments
           q == <<b, s>> \o keep
           post == q \o att
           l == Len(keep)
<1>1. /\ b \in SessionMessage /\ s \in SessionMessage
      /\ b.kind = "compact" /\ b.number = 0 /\ b.covers = {}
      /\ s.kind = "summary" /\ s.number = 0 /\ s.covers = covers
  <2>1. s = [kind |-> "summary", number |-> 0, tokens |-> 1, covers |-> covers, skill |-> "none"]
    BY DEF CC!Msg
  <2> QED  BY <2>1 DEF CC!Msg, SessionMessage, MessageKinds, SkillNames, CC!Boundary
<1>2. /\ att \in Seq(SessionMessage)
      /\ \A k \in DOMAIN att : att[k].kind = "skill" /\ att[k].number = 0 /\ att[k].covers = {}
  BY AttachmentsTellNothing
<1>3. post = WrittenBack(covers, keep)
  BY DEF WrittenBack
<1> HIDE DEF b, s, att
<1> DEFINE two == <<b, s>>
<1>4. two \in Seq(SessionMessage) /\ Len(two) = 2 /\ two[1] = b /\ two[2] = s
  BY <1>1
<1>5. q = two \o keep
  OBVIOUS
<1>6. l \in Nat /\ DOMAIN keep = 1..l
  OBVIOUS
<1> HIDE DEF two, q, l
<1>7. /\ q \in Seq(SessionMessage) /\ DOMAIN q = 1..(l + 2) /\ Len(q) = l + 2
      /\ q[1] = b /\ q[2] = s /\ \A k \in 1..l : q[k + 2] = keep[k]
  <2>1. /\ q \in Seq(SessionMessage) /\ DOMAIN q = 1..(Len(two) + l)
        /\ \A k \in 1..Len(two) : q[k] = two[k]
        /\ \A k \in 1..l : q[Len(two) + k] = keep[k]
    BY <1>4, <1>5, TwoSequences DEF l
  <2>2. DOMAIN q = 1..(l + 2) /\ q[1] = b /\ q[2] = s
    BY <1>4, <1>6, <2>1
  <2>3. \A k \in 1..l : q[k + 2] = keep[k]
    <3> TAKE k \in 1..l
    <3>1. k + 2 = Len(two) + k
      BY <1>4, <1>6
    <3> QED  BY <2>1, <3>1
  <2>4. Len(q) = l + 2
    <3>1. l + 2 \in Nat
      BY <1>6
    <3> QED  BY <2>1, <2>2, <3>1
  <2> QED  BY <2>1, <2>2, <2>3, <2>4
<1>8. post = q \o att
  OBVIOUS
<1> DEFINE n == Len(att)
<1>9. n \in Nat /\ DOMAIN att = 1..n
  BY <1>2
<1> HIDE DEF post, n
<1>10. /\ post \in Seq(SessionMessage) /\ DOMAIN post = 1..(l + 2 + n)
       /\ \A k \in 1..(l + 2) : post[k] = q[k]
       /\ \A k \in 1..n : post[l + 2 + k] = att[k]
  BY <1>2, <1>7, <1>8, TwoSequences DEF n
<1>11. Len(post) >= l + 2
  <2>1. Len(post) = l + 2 + n
    <3>1. l + 2 + n \in Nat
      BY <1>6, <1>9
    <3> QED  BY <1>10, <3>1
  <2> QED  BY <1>6, <1>9, <2>1
<1>12. post[1] = b /\ post[2] = s
  BY <1>6, <1>7, <1>10
<1>13. \A k \in 1..l : post[k + 2] = keep[k]
  <2> TAKE k \in 1..l
  <2>1. k + 2 \in 1..(l + 2)
    BY <1>6
  <2> QED  BY <1>7, <1>10, <2>1
<1>14. \A k \in DOMAIN post : k > l + 2 => post[k].kind = "skill" /\ post[k].number = 0 /\ post[k].covers = {}
  <2> SUFFICES ASSUME NEW k \in 1..(l + 2 + n), k > l + 2
               PROVE  post[k].kind = "skill" /\ post[k].number = 0 /\ post[k].covers = {}
    BY <1>10
  <2>1. PICK i \in 1..n : k = l + 2 + i
    <3>1. k - (l + 2) \in 1..n /\ k = l + 2 + (k - (l + 2))
      BY <1>6, <1>9
    <3> QED  BY <3>1
  <2> QED  BY <1>2, <1>9, <1>10, <2>1
<1> QED  BY <1>1, <1>3, <1>6, <1>10, <1>11, <1>12, <1>13, <1>14 DEF l

\* What a summary may cover and what may be kept beside it, of a view of the first n messages.
KeptInOrder(covers, keep, n) ==
  /\ covers \subseteq 1..n
  /\ \A k \in DOMAIN keep : keep[k].kind \notin CC!Boundary
  /\ \A k \in DOMAIN keep : keep[k].number # 0 => keep[k].covers = {}
  /\ \A k \in DOMAIN keep : Told(keep[k]) \subseteq 1..n
  /\ \A k \in DOMAIN keep : keep[k].number # 0 => \A m \in covers : m < keep[k].number
  /\ \A j, k \in DOMAIN keep : j < k /\ keep[k].number # 0 => \A m \in Told(keep[j]) : m < keep[k].number
  /\ \A m \in 1..n : m \in overtaken \/ m \in covers \/ \E k \in DOMAIN keep : m \in Told(keep[k])

LEMMA WrittenBackTells ==
  ASSUME invokedSkills \in SkillLists, appended \in Nat, NEW covers \in SUBSET (1..appended), NEW keep \in Seq(SessionMessage),
         NEW n \in Nat, KeptInOrder(covers, keep, n)
  PROVE  InOrderUpTo(WrittenBack(covers, keep), n) /\ TellsUpTo(WrittenBack(covers, keep), n)
<1> DEFINE post == WrittenBack(covers, keep)
           l == Len(keep)
<1>1. /\ post \in Seq(SessionMessage) /\ Len(post) >= l + 2
      /\ post[1].kind = "compact" /\ post[1].number = 0 /\ post[1].covers = {}
      /\ post[2].kind = "summary" /\ post[2].number = 0 /\ post[2].covers = covers
      /\ \A k \in DOMAIN keep : post[k + 2] = keep[k]
      /\ \A k \in DOMAIN post : k > l + 2 =>
           post[k].kind = "skill" /\ post[k].number = 0 /\ post[k].covers = {}
  BY WrittenBackInOrder
<1>2. l \in Nat /\ DOMAIN keep = 1..l
  OBVIOUS
<1> HIDE DEF post, l
<1>3. Len(post) \in Nat /\ DOMAIN post = 1..Len(post)
  BY <1>1
<1>4. /\ 1 \in DOMAIN post /\ 2 \in DOMAIN post
      /\ \A k \in DOMAIN keep : k + 2 \in DOMAIN post
      /\ \A k \in DOMAIN post : k = 1 \/ k = 2 \/ k > l + 2 \/ \E i \in DOMAIN keep : k = i + 2
  <2>1. ASSUME NEW k \in 1..Len(post), k > 2, k <= l + 2 PROVE k - 2 \in 1..l /\ k = (k - 2) + 2
    BY <1>2, <2>1
  <2>2. \A k \in DOMAIN post : k = 1 \/ k = 2 \/ k > l + 2 \/ \E i \in DOMAIN keep : k = i + 2
    <3> TAKE k \in DOMAIN post
    <3>1. k \in 1..Len(post)
      BY <1>3
    <3>2. CASE k > 2 /\ k <= l + 2
      BY <1>2, <2>1, <3>1, <3>2
    <3>3. CASE ~(k > 2 /\ k <= l + 2)
      BY <1>2, <3>1, <3>3
    <3> QED  BY <3>2, <3>3
  <2>3. 1 \in DOMAIN post /\ 2 \in DOMAIN post /\ \A k \in DOMAIN keep : k + 2 \in DOMAIN post
    BY <1>1, <1>2, <1>3
  <2> QED  BY <2>2, <2>3
<1>5. /\ Told(post[1]) = {} /\ Told(post[2]) = covers
      /\ \A k \in DOMAIN keep : Told(post[k + 2]) = Told(keep[k])
      /\ \A k \in DOMAIN post : k > l + 2 => Told(post[k]) = {}
  BY <1>1 DEF Told
<1>6. \A k \in DOMAIN post : k > 1 => post[k].kind \notin CC!Boundary
  <2> SUFFICES ASSUME NEW k \in DOMAIN post, k > 1 PROVE post[k].kind \notin CC!Boundary
    OBVIOUS
  <2>1. "summary" \notin CC!Boundary /\ "skill" \notin CC!Boundary
    BY DEF CC!Boundary
  <2>2. CASE \E i \in DOMAIN keep : k = i + 2
    BY <1>1, <2>2 DEF KeptInOrder
  <2> QED  BY <1>1, <1>4, <2>1, <2>2
<1>7. \A k \in DOMAIN post : post[k].number # 0 => \E i \in DOMAIN keep : k = i + 2 /\ post[k] = keep[i]
  BY <1>1, <1>4
<1>8. \A k \in DOMAIN post : post[k].number # 0 => post[k].covers = {}
  BY <1>7 DEF KeptInOrder
<1>9. \A k \in DOMAIN post : Told(post[k]) \subseteq 1..n
  <2> SUFFICES ASSUME NEW k \in DOMAIN post PROVE Told(post[k]) \subseteq 1..n
    OBVIOUS
  <2>1. CASE \E i \in DOMAIN keep : k = i + 2
    BY <1>5, <2>1 DEF KeptInOrder
  <2>2. CASE k = 2
    BY <1>5, <2>2 DEF KeptInOrder
  <2>3. CASE k = 1 \/ k > l + 2
    BY <1>5, <2>3
  <2> QED  BY <1>4, <2>1, <2>2, <2>3
<1>10. \A j, k \in DOMAIN post : j < k /\ post[k].number # 0 => \A m \in Told(post[j]) : m < post[k].number
  <2> SUFFICES ASSUME NEW j \in DOMAIN post, NEW k \in DOMAIN post, j < k, post[k].number # 0
               PROVE  \A m \in Told(post[j]) : m < post[k].number
    OBVIOUS
  <2>1. PICK i \in DOMAIN keep : k = i + 2 /\ post[k] = keep[i]
    BY <1>7
  <2>2. CASE j = 1
    BY <1>5, <2>2
  <2>3. CASE j = 2
    BY <1>5, <2>1, <2>3 DEF KeptInOrder
  <2>4. CASE \E h \in DOMAIN keep : j = h + 2
    <3>1. PICK h \in DOMAIN keep : j = h + 2
      BY <2>4
    <3>2. h < i
      BY <1>2, <2>1, <3>1
    <3> QED  BY <1>5, <2>1, <3>1, <3>2 DEF KeptInOrder
  <2>5. ~(j > l + 2)
    BY <1>2, <1>3, <2>1
  <2> QED  BY <1>4, <2>2, <2>3, <2>4, <2>5
<1>11. TellsUpTo(post, n)
  BY <1>4, <1>5 DEF KeptInOrder, TellsUpTo
<1> QED  BY <1>6, <1>8, <1>9, <1>10, <1>11 DEF InOrderUpTo, post

LEMMA WrittenBackBegins ==
  ASSUME invokedSkills \in SkillLists, appended \in Nat, NEW covers \in SUBSET (1..appended), NEW keep \in Seq(SessionMessage)
  PROVE  /\ WrittenBack(covers, keep) \in Seq(SessionMessage) /\ Len(WrittenBack(covers, keep)) > 0
         /\ WrittenBack(covers, keep)[1].kind = "compact"
<1> DEFINE post == WrittenBack(covers, keep)
<1>1. /\ post \in Seq(SessionMessage) /\ Len(post) >= Len(keep) + 2
      /\ post[1].kind = "compact" /\ post[1].number = 0 /\ post[1].covers = {}
      /\ post[2].kind = "summary" /\ post[2].number = 0 /\ post[2].covers = covers
      /\ \A k \in DOMAIN keep : post[k + 2] = keep[k]
      /\ \A k \in DOMAIN post : k > Len(keep) + 2 =>
           post[k].kind = "skill" /\ post[k].number = 0 /\ post[k].covers = {}
  BY WrittenBackInOrder
<1>2. Len(keep) \in Nat
  OBVIOUS
<1> HIDE DEF post
<1>3. Len(post) > 0
  BY <1>1, <1>2
<1> QED  BY <1>1, <1>3 DEF post

LEMMA WriteBackKeepsTold ==
  ASSUME CompactionInv, request.at = "summary", NEW covers \in SUBSET (1..appended), NEW keep \in Seq(SessionMessage),
         CC!WriteBack(covers, keep), SnipTokens = 0 => KeptInOrder(covers, keep, request.since)
  PROVE  CompactionInv'
<1> DEFINE post == WrittenBack(covers, keep)
           before == messages \o request.snipped
           skills == CC!Restored(invokedSkills, post)
<1>1. /\ messages' = before \o post /\ invokedSkills' = skills
      /\ overtaken' = overtaken \cup (request.since + 1)..appended
      /\ request' = CC!NoRequest /\ appended' = appended
  BY DEF CC!WriteBack, WrittenBack
<1>2. /\ messages \in Seq(SessionMessage) /\ appended \in Nat /\ invokedSkills \in SkillLists
      /\ Attached(invokedSkills, messages)
      /\ request.since \in 0..appended /\ request.snipped \in Seq(SessionMessage)
      /\ \A i \in DOMAIN request.snipped : request.snipped[i].kind # "skill"
  BY DEF CompactionInv
<1>3. /\ post \in Seq(SessionMessage) /\ Len(post) > 0 /\ post[1].kind = "compact"
  <2>1. invokedSkills \in SkillLists /\ appended \in Nat
    BY <1>2
  <2> QED  BY <2>1, WrittenBackBegins
<1> HIDE DEF post
<1>4. /\ before \in Seq(SessionMessage)
      /\ \A i \in DOMAIN before : before[i].kind = "skill" => \E j \in DOMAIN messages : messages[j] = before[i]
  <2> DEFINE s == request.snipped
             a == Len(messages)
             b == Len(s)
  <2>1. s \in Seq(SessionMessage) /\ \A i \in DOMAIN s : s[i].kind # "skill"
    BY <1>2
  <2> HIDE DEF s
  <2>2. /\ messages \o s \in Seq(SessionMessage) /\ DOMAIN (messages \o s) = 1..(a + b)
        /\ \A k \in 1..a : (messages \o s)[k] = messages[k]
        /\ \A k \in 1..b : (messages \o s)[a + k] = s[k]
    BY <1>2, <2>1, TwoSequences
  <2>3. a \in Nat /\ b \in Nat /\ DOMAIN messages = 1..a /\ DOMAIN s = 1..b
    BY <1>2, <2>1
  <2>4. before = messages \o s
    BY DEF s
  <2> HIDE DEF before, a, b
  <2>5. ASSUME NEW i \in DOMAIN before, before[i].kind = "skill" PROVE \E j \in DOMAIN messages : messages[j] = before[i]
    <3>1. i \in 1..(a + b)
      BY <2>2, <2>4
    <3>2. CASE i \in 1..a
      BY <2>2, <2>3, <2>4, <3>2
    <3>3. CASE i \notin 1..a
      <4>1. i - a \in 1..b /\ i = a + (i - a)
        BY <2>3, <3>1, <3>3
      <4>2. (messages \o s)[a + (i - a)] = s[i - a]
        BY <2>2, <4>1
      <4>3. before[i] = s[i - a]
        BY <2>4, <4>1, <4>2
      <4> QED  BY <2>1, <2>3, <2>5, <4>1, <4>3
    <3> QED  BY <3>2, <3>3
  <2> QED  BY <2>2, <2>4, <2>5
<1> HIDE DEF before
<1>5. /\ before \o post \in Seq(SessionMessage)
      /\ \A i \in DOMAIN (before \o post) :
           \/ \E j \in DOMAIN before : (before \o post)[i] = before[j]
           \/ \E j \in DOMAIN post : (before \o post)[i] = post[j]
  <2> DEFINE a == Len(before)
             b == Len(post)
  <2>1. a \in Nat /\ b \in Nat /\ DOMAIN before = 1..a /\ DOMAIN post = 1..b
    BY <1>3, <1>4
  <2>2. /\ before \o post \in Seq(SessionMessage) /\ DOMAIN (before \o post) = 1..(a + b)
        /\ \A k \in 1..a : (before \o post)[k] = before[k]
        /\ \A k \in 1..b : (before \o post)[a + k] = post[k]
    BY <1>3, <1>4, TwoSequences
  <2> HIDE DEF a, b
  <2>3. ASSUME NEW i \in 1..(a + b), i \notin 1..a PROVE i - a \in 1..b /\ i = a + (i - a)
    BY <2>1, <2>3
  <2> QED  BY <2>1, <2>2, <2>3
<1>6. /\ skills \in SkillLists /\ Attached(skills, post)
      /\ \A j \in DOMAIN invokedSkills : \E k \in DOMAIN skills : skills[k] = invokedSkills[j]
  BY <1>2, <1>3, RestoreKeepsSkills
<1> HIDE DEF skills
<1>7. Attached(skills, before \o post)
  <2> SUFFICES ASSUME NEW i \in DOMAIN (before \o post), (before \o post)[i].kind = "skill"
               PROVE  \E k \in DOMAIN skills : skills[k] = (before \o post)[i].skill
    BY DEF Attached
  <2>1. CASE \E j \in DOMAIN before : (before \o post)[i] = before[j]
    <3>1. PICK j \in DOMAIN messages : messages[j] = (before \o post)[i]
      BY <1>4, <2>1
    <3>2. PICK k \in DOMAIN invokedSkills : invokedSkills[k] = messages[j].skill
      BY <1>2, <3>1 DEF Attached
    <3> QED  BY <1>6, <3>1, <3>2
  <2>2. CASE \E j \in DOMAIN post : (before \o post)[i] = post[j]
    BY <1>6, <2>2 DEF Attached
  <2> QED  BY <1>5, <2>1, <2>2
<1>8. SnipTokens = 0 =>
        /\ InOrderUpTo(post, appended) /\ View(before \o post) = post
        /\ \A m \in 1..appended : m \in overtaken' \/ \E k \in DOMAIN post : m \in Told(post[k])
  <2> SUFFICES ASSUME SnipTokens = 0
               PROVE  /\ InOrderUpTo(post, appended) /\ View(before \o post) = post
                      /\ \A m \in 1..appended : m \in overtaken' \/ \E k \in DOMAIN post : m \in Told(post[k])
    OBVIOUS
  <2> DEFINE since == request.since
  <2>1. since \in Nat /\ since <= appended
    BY <1>2
  <2>2. KeptInOrder(covers, keep, since)
    OBVIOUS
  <2> HIDE DEF since
  <2>3. InOrderUpTo(post, since) /\ TellsUpTo(post, since)
    BY <1>2, <2>1, <2>2, WrittenBackTells DEF post
  <2>4. InOrderUpTo(post, appended)
    <3>1. 1..since \subseteq 1..appended
      BY <1>2, <2>1
    <3> QED  BY <2>3, <3>1 DEF InOrderUpTo
  <2>5. \A m \in 1..appended : m \in overtaken' \/ \E k \in DOMAIN post : m \in Told(post[k])
    <3> TAKE m \in 1..appended
    <3>1. m \in 1..since \/ m \in (since + 1)..appended
      BY <1>2, <2>1
    <3>2. overtaken' = overtaken \cup (since + 1)..appended
      BY <1>1 DEF since
    <3> QED  BY <2>3, <3>1, <3>2 DEF TellsUpTo
  <2>6. View(before \o post) = post
    <3>1. post[1].kind \in CC!Boundary
      BY <1>3 DEF CC!Boundary
    <3>2. \A k \in DOMAIN post : k > 1 => post[k].kind \notin CC!Boundary
      BY <2>3 DEF InOrderUpTo
    <3> QED  BY <1>3, <1>4, <3>1, <3>2, ViewBegins
  <2> QED  BY <2>4, <2>5, <2>6
<1>12. SessionMessage' = SessionMessage
  BY <1>1, SameMessages
<1>9. request'.at # "summary"
  BY <1>1 DEF CC!NoRequest
<1>10. View(messages)' = View(before \o post)
  BY <1>1 DEF View
<1>11. SnipTokens = 0 => InOrderUpTo(View(messages), appended)' /\ TellsUpTo(View(messages), appended)'
  <2> SUFFICES ASSUME SnipTokens = 0
               PROVE  InOrderUpTo(View(messages), appended)' /\ TellsUpTo(View(messages), appended)'
    OBVIOUS
  <2>1. View(messages)' = post /\ appended' = appended
    BY <1>1, <1>8, <1>10
  <2>2. InOrderUpTo(View(messages), appended)'
    BY <1>8, <2>1 DEF InOrderUpTo
  <2>3. TellsUpTo(View(messages), appended)'
    BY <1>8, <2>1 DEF TellsUpTo
  <2> QED  BY <2>2, <2>3
<1> QED  BY <1>12, <1>1, <1>2, <1>5, <1>6, <1>7, <1>9, <1>11 DEF CompactionInv, Attached

LEMMA ViewTellsNumbers ==
  ASSUME NEW v \in Seq(SessionMessage), appended \in Nat
  PROVE  /\ CC!Covered(v) \in SUBSET (1..appended)
         /\ \A m : m \in CC!Covered(v) <=> \E k \in DOMAIN v : m \in Told(v[k])
<1>1. \A k \in DOMAIN v : v[k].number \in 0..appended /\ v[k].covers \in SUBSET (1..appended)
  <2>1. \A k \in DOMAIN v : v[k] \in SessionMessage
    OBVIOUS
  <2> QED  BY <2>1 DEF SessionMessage
<1>2. \A m : m \in CC!Covered(v) <=> \E k \in DOMAIN v : m \in Told(v[k])
  BY DEF CC!Covered, Told
<1>3. \A k \in DOMAIN v : Told(v[k]) \subseteq 1..appended
  BY <1>1 DEF Told
<1> QED  BY <1>2, <1>3

LEMMA ModelKeepsTold ==
  ASSUME CompactionInv, CC!SummaryByModel
  PROVE  CompactionInv'
<1> DEFINE view == request.view
           covers == CC!Covered(view)
           since == request.since
<1>1. request.at = "summary" /\ CC!WriteBack(covers, <<>>)
  BY DEF CC!SummaryByModel
<1>2. view \in Seq(SessionMessage) /\ appended \in Nat
  BY <1>1 DEF CompactionInv
<1>3. covers \in SUBSET (1..appended) /\ \A m : m \in covers <=> \E k \in DOMAIN view : m \in Told(view[k])
  <2> HIDE DEF view
  <2> QED  BY <1>2, ViewTellsNumbers
<1>4. SnipTokens = 0 => KeptInOrder(covers, <<>>, since)
  <2> SUFFICES ASSUME SnipTokens = 0 PROVE KeptInOrder(covers, <<>>, since)
    OBVIOUS
  <2>1. InOrderUpTo(view, since) /\ TellsUpTo(view, since)
    BY <1>1 DEF CompactionInv
  <2> HIDE DEF covers, view, since
  <2>2. covers \subseteq 1..since
    BY <1>3, <2>1 DEF InOrderUpTo
  <2>3. \A m \in 1..since : m \in overtaken \/ m \in covers
    BY <1>3, <2>1 DEF TellsUpTo
  <2> QED  BY <2>2, <2>3 DEF KeptInOrder
<1>5. <<>> \in Seq(SessionMessage)
  OBVIOUS
<1> HIDE DEF covers
<1> QED  BY <1>1, <1>3, <1>4, <1>5, WriteBackKeepsTold

LEMMA SessionMemoryKeepsTold ==
  ASSUME CompactionInv, CC!SummaryFromSessionMemory
  PROVE  CompactionInv'
<1> DEFINE view == request.view
           since == request.since
           n == Len(view)
<1>1. request.at = "summary"
  BY DEF CC!SummaryFromSessionMemory
<1>2. PICK i \in DOMAIN view : view[i].number # 0 /\ CC!WriteBack(1..view[i].number, SubSeq(view, i + 1, n))
  BY DEF CC!SummaryFromSessionMemory
<1> DEFINE last == view[i].number
           keep == SubSeq(view, i + 1, n)
<1>3. view \in Seq(SessionMessage) /\ since \in Nat
  BY <1>1 DEF CompactionInv
<1>4. CC!WriteBack(1..last, keep) /\ last # 0
  BY <1>2
<1>5. SnipTokens = 0 => InOrderUpTo(view, since) /\ TellsUpTo(view, since)
  BY <1>1 DEF CompactionInv
<1> HIDE DEF view, since
<1>6. n \in Nat /\ DOMAIN view = 1..n /\ i \in 1..n
  BY <1>3
<1>7. /\ keep \in Seq(SessionMessage) /\ DOMAIN keep = 1..(n - i)
      /\ \A k \in DOMAIN keep : i + k \in DOMAIN view /\ keep[k] = view[i + k]
      /\ \A j \in DOMAIN view : j > i => j - i \in DOMAIN keep /\ keep[j - i] = view[j]
  <2> DEFINE first == i + 1
             r == SubSeq(view, first, n)
  <2>1. first \in 1..(n + 1)
    BY <1>6
  <2> HIDE DEF first
  <2>2. /\ r \in Seq(SessionMessage) /\ Len(r) = n - first + 1
        /\ \A k \in DOMAIN r : first + k - 1 \in DOMAIN view /\ r[k] = view[first + k - 1]
        /\ \A j \in DOMAIN view : j >= first => j - first + 1 \in DOMAIN r /\ r[j - first + 1] = view[j]
    BY <1>3, <2>1, FromPosition
  <2>3. keep = r
    BY DEF first
  <2> HIDE DEF keep, r, n
  <2>4. n - first + 1 = n - i /\ \A j \in 1..n : j - first + 1 = j - i /\ (j > i => j >= first)
    BY <1>6 DEF first
  <2>5. DOMAIN keep = 1..(n - i)
    BY <2>2, <2>3, <2>4
  <2>6. \A k \in DOMAIN keep : first + k - 1 = i + k
    BY <1>6, <2>5 DEF first
  <2> QED  BY <1>6, <2>2, <2>3, <2>4, <2>5, <2>6
<1>8. last \in Nat /\ last \in 0..appended /\ appended \in Nat
  <2>1. view[i] \in SessionMessage
    BY <1>3
  <2>2. appended \in Nat
    BY DEF CompactionInv
  <2> QED  BY <2>1, <2>2 DEF SessionMessage
<1> HIDE DEF keep, n
<1>9. SnipTokens = 0 => KeptInOrder(1..last, keep, since)
  <2> SUFFICES ASSUME SnipTokens = 0 PROVE KeptInOrder(1..last, keep, since)
    OBVIOUS
  <2>1. InOrderUpTo(view, since) /\ TellsUpTo(view, since)
    BY <1>5
  <2>2. last \in Told(view[i]) /\ Told(view[i]) \subseteq {last}
    BY <1>4, <1>6, <2>1 DEF Told, InOrderUpTo
  <2>3. last \in 1..since
    BY <1>6, <2>1, <2>2 DEF InOrderUpTo
  <2>4. \A k \in DOMAIN keep : i < i + k /\ i + k > 1
    BY <1>6, <1>7
  <2>5. \A k \in DOMAIN keep :
          /\ keep[k].kind \notin CC!Boundary /\ (keep[k].number # 0 => keep[k].covers = {})
          /\ Told(keep[k]) \subseteq 1..since
    BY <1>7, <2>1, <2>4 DEF InOrderUpTo
  <2>6. \A k \in DOMAIN keep : keep[k].number # 0 => last < keep[k].number
    BY <1>6, <1>7, <2>1, <2>2, <2>4 DEF InOrderUpTo
  <2>7. \A k \in DOMAIN keep : keep[k].number \in Nat
    <3>1. keep \in Seq(SessionMessage)
      BY <1>7
    <3>2. \A k \in DOMAIN keep : keep[k] \in SessionMessage
      BY <3>1
    <3> QED  BY <1>8, <3>2 DEF SessionMessage
  <2>8. \A k \in DOMAIN keep : keep[k].number # 0 => \A m \in 1..last : m < keep[k].number
    BY <1>8, <2>6, <2>7
  <2>9. \A j, k \in DOMAIN keep : j < k => i + j < i + k
    BY <1>6, <1>7
  <2>10. \A j, k \in DOMAIN keep : j < k /\ keep[k].number # 0 => \A m \in Told(keep[j]) : m < keep[k].number
    BY <1>7, <2>1, <2>9 DEF InOrderUpTo
  <2>11. \A m \in 1..since : m \in overtaken \/ m \in 1..last \/ \E k \in DOMAIN keep : m \in Told(keep[k])
    <3> SUFFICES ASSUME NEW m \in 1..since, m \notin overtaken, m \notin 1..last
                 PROVE  \E k \in DOMAIN keep : m \in Told(keep[k])
      OBVIOUS
    <3>1. PICK j \in DOMAIN view : m \in Told(view[j])
      BY <2>1 DEF TellsUpTo
    <3>2. j # i
      BY <1>3, <2>2, <2>3, <3>1
    <3>3. ~(j < i)
      <4>1. j < i => m < last
        BY <1>4, <1>6, <2>1, <3>1 DEF InOrderUpTo
      <4> QED  BY <1>3, <1>8, <4>1
    <3>4. j > i
      BY <1>6, <3>2, <3>3
    <3> QED  BY <1>7, <3>1, <3>4
  <2>12. 1..last \subseteq 1..since
    BY <1>3, <2>3
  <2> QED  BY <2>5, <2>8, <2>10, <2>11, <2>12 DEF KeptInOrder
<1>10. 1..last \in SUBSET (1..appended)
  BY <1>8
<1>11. SnipTokens = 0 => KeptInOrder(1..last, keep, request.since)
  BY <1>9 DEF since
<1> DEFINE covers == 1..last
<1>12. covers \in SUBSET (1..appended) /\ CC!WriteBack(covers, keep) /\ (SnipTokens = 0 => KeptInOrder(covers, keep, request.since))
  BY <1>4, <1>10, <1>11
<1> HIDE DEF covers
<1> QED  BY <1>1, <1>7, <1>12, WriteBackKeepsTold

LEMMA FailureKeepsTold ==
  ASSUME CompactionInv, CC!SummaryFails
  PROVE  CompactionInv'
<1>1. UNCHANGED <<messages, appended, invokedSkills, overtaken>> /\ request' = CC!NoRequest
  BY DEF CC!SummaryFails
<1>2. request'.at # "summary"
  BY <1>1 DEF CC!NoRequest
<1>3. View(messages)' = View(messages)
  BY <1>1 DEF View
<1>4. SnipTokens = 0 => InOrderUpTo(View(messages), appended)' /\ TellsUpTo(View(messages), appended)'
  <2> SUFFICES ASSUME SnipTokens = 0
               PROVE  InOrderUpTo(View(messages), appended)' /\ TellsUpTo(View(messages), appended)'
    OBVIOUS
  <2>1. InOrderUpTo(View(messages), appended) /\ TellsUpTo(View(messages), appended)
    BY DEF CompactionInv
  <2> QED  BY <1>1, <1>3, <2>1 DEF InOrderUpTo, TellsUpTo
<1> QED  BY SameMessages, <1>1, <1>2, <1>4 DEF CompactionInv, Attached

LEMMA ResumeKeepsTold ==
  ASSUME CompactionInv, CC!Resume
  PROVE  CompactionInv'
<1>1. /\ UNCHANGED <<messages, appended, overtaken>> /\ request' = CC!NoRequest
      /\ invokedSkills' = CC!Restored(<<>>, messages)
  BY DEF CC!Resume
<1>2. request'.at # "summary"
  BY <1>1 DEF CC!NoRequest
<1>3. View(messages)' = View(messages)
  BY <1>1 DEF View
<1>4. SnipTokens = 0 => InOrderUpTo(View(messages), appended)' /\ TellsUpTo(View(messages), appended)'
  <2> SUFFICES ASSUME SnipTokens = 0
               PROVE  InOrderUpTo(View(messages), appended)' /\ TellsUpTo(View(messages), appended)'
    OBVIOUS
  <2>1. InOrderUpTo(View(messages), appended) /\ TellsUpTo(View(messages), appended)
    BY DEF CompactionInv
  <2> QED  BY <1>1, <1>3, <2>1 DEF InOrderUpTo, TellsUpTo
<1>5. messages \in Seq(SessionMessage) /\ appended \in Nat /\ <<>> \in SkillLists
  BY DEF CompactionInv, SkillLists
<1> DEFINE none == <<>>
<1>6. none \in SkillLists /\ invokedSkills' = CC!Restored(none, messages)
  BY <1>1, <1>5
<1> HIDE DEF none
<1>7. CC!Restored(none, messages) \in SkillLists /\ Attached(CC!Restored(none, messages), messages)
  BY <1>5, <1>6, RestoreKeepsSkills
<1>8. invokedSkills' \in SkillLists /\ Attached(invokedSkills', messages')
  BY <1>1, <1>6, <1>7
<1> QED  BY SameMessages, <1>1, <1>2, <1>4, <1>5, <1>8 DEF CompactionInv, Attached

LEMMA CompactionSteps == CompactionInv /\ [CC!Next]_compaction => CompactionInv'
<1> SUFFICES ASSUME CompactionInv, [CC!Next]_compaction PROVE CompactionInv'
  OBVIOUS
<1>1. CASE CC!Next
  BY <1>1, AppendKeepsTold, InvokeKeepsTold, PrepareKeepsTold, ModelKeepsTold, SessionMemoryKeepsTold,
     FailureKeepsTold, ResumeKeepsTold DEF CC!Next
<1>2. CASE UNCHANGED compaction
  <2>1. UNCHANGED <<messages, appended, invokedSkills, request, overtaken>>
    BY <1>2 DEF compaction
  <2> QED  BY SameMessages, <2>1 DEF CompactionInv, Attached, InOrderUpTo, TellsUpTo, View
<1> QED  BY <1>1, <1>2

LEMMA CompactionShows == CompactionInv => CC!ResumeFindsEverything
<1> SUFFICES ASSUME CompactionInv PROVE CC!ResumeFindsEverything
  OBVIOUS
<1>1. messages \in Seq(SessionMessage) /\ appended \in Nat /\ Attached(invokedSkills, messages)
  BY DEF CompactionInv
<1>2. CC!AttachedSkillsStay
  BY <1>1 DEF CC!AttachedSkillsStay, Attached
<1>3. SnipTokens = 0 => CC!MessagesStayTold
  <2> SUFFICES ASSUME SnipTokens = 0 PROVE CC!MessagesStayTold
    OBVIOUS
  <2> DEFINE v == View(messages)
  <2>1. TellsUpTo(v, appended)
    BY DEF CompactionInv
  <2>2. v \in Seq(SessionMessage)
    BY <1>1, ViewIsTheEnd
  <2> HIDE DEF v
  <2>3. 1..appended \subseteq CC!Covered(v) \cup overtaken
    BY <1>1, <2>1, <2>2, ViewTellsNumbers DEF TellsUpTo
  <2> QED  BY <2>3 DEF CC!MessagesStayTold, v, View
<1> QED  BY <1>2, <1>3 DEF CC!ResumeFindsEverything

LEMMA CompactionTypesShow == CompactionInv => CC!TypeOK
<1> SUFFICES ASSUME CompactionInv PROVE CC!TypeOK
  OBVIOUS
<1>1. messages \in Seq(SessionMessage) /\ invokedSkills \in SkillLists
  BY DEF CompactionInv
<1>2. \A i \in DOMAIN messages : messages[i].tokens \in 0..3 /\ messages[i].covers \subseteq 1..appended
  <2>1. \A i \in DOMAIN messages : messages[i] \in SessionMessage
    BY <1>1
  <2> QED  BY <2>1 DEF SessionMessage
<1>3. Len(invokedSkills) <= Cardinality(Skills)
  <2> DEFINE n == Len(invokedSkills)
  <2>1. n \in Nat /\ invokedSkills \in [1..n -> Skills]
    BY <1>1 DEF SkillLists
  <2>2. invokedSkills \in Injection(1..n, Skills)
    BY <1>1, <2>1 DEF SkillLists, Injection, IsInjective
  <2>3. IsFiniteSet(Skills)
    BY CompactionAssumption
  <2>4. IsFiniteSet(1..n) /\ Cardinality(1..n) = n
    BY <2>1, FS_Interval
  <2> HIDE DEF n
  <2>5. Cardinality(1..n) <= Cardinality(Skills)
    BY <2>2, <2>3, FS_Injection
  <2> QED  BY <2>4, <2>5 DEF n
<1>4. CC!Cardinality(Skills) = Cardinality(Skills)
  BY DEF CC!Cardinality, Cardinality
<1>5. \A i \in DOMAIN invokedSkills : invokedSkills[i] \in Skills
  BY <1>1 DEF SkillLists
<1> QED  BY <1>2, <1>3, <1>4, <1>5 DEF CC!TypeOK

---------------------------------------------------------------------------
(* memory/mem0.                                                            *)

VARIABLES memories, history, saved, caller, addCalls, together
mem0 == <<memories, history, saved, caller, addCalls, together>>
M0 == INSTANCE Mem0Memory

CallFields == {"at", "add", "scope", "todo", "known", "row"}

\* A row that infer=true stored is known to the call, or was stored by a call it ran
\* together with, or is the one the call has just inserted.
Accounts(call, r) ==
  \/ r.fact \in call.known
  \/ {r.add, call.add} \in together
  \/ call.row # 0 /\ r.fact = Head(call.todo)
RowsAreAccountedFor ==
  \A c \in Callers : caller[c].at = "insert" =>
    \A r \in memories : ~r.raw /\ r.scope = caller[c].scope => Accounts(caller[c], r)
PairsAreTogether ==
  \A c, d \in Callers : c # d /\ caller[c].at # "idle" /\ caller[d].at # "idle" =>
    {caller[c].add, caller[d].add} \in together
Mem0Inv ==
  /\ DOMAIN caller = Callers /\ \A c \in Callers : DOMAIN caller[c] = CallFields
  /\ IsFiniteSet(memories)
  /\ PairsAreTogether /\ RowsAreAccountedFor /\ M0!OneRowPerFact

LEMMA Mem0Starts == M0!Init => Mem0Inv
<1> SUFFICES ASSUME M0!Init PROVE Mem0Inv
  OBVIOUS
<1>1. memories = {} /\ caller = [c \in Callers |-> M0!NoCall]
  BY DEF M0!Init
<1>2. DOMAIN M0!NoCall = CallFields /\ M0!NoCall.at = "idle"
  BY DEF M0!NoCall, CallFields
<1>3. IsFiniteSet(memories)
  BY <1>1, FS_EmptySet
<1> QED  BY <1>1, <1>2, <1>3
         DEF Mem0Inv, PairsAreTogether, RowsAreAccountedFor, M0!OneRowPerFact

\* Only caller c goes on; it stays in the Add call it was in, or leaves it.
LEMMA OnlyTheCaller ==
  ASSUME Mem0Inv, NEW c \in Callers, NEW call, caller' = [caller EXCEPT ![c] = call],
         memories' = memories, together' = together, DOMAIN call = CallFields,
         call.at # "idle" => caller[c].at # "idle" /\ call.add = caller[c].add,
         call.at = "insert" =>
           \A r \in memories : ~r.raw /\ r.scope = call.scope => Accounts(call, r)
  PROVE  Mem0Inv'
<1>1. /\ DOMAIN caller' = Callers /\ caller'[c] = call
      /\ \A d \in Callers : d # c => caller'[d] = caller[d]
  BY DEF Mem0Inv
<1>2. \A d \in Callers : DOMAIN caller'[d] = CallFields
  BY <1>1 DEF Mem0Inv
<1>3. PairsAreTogether'
  BY <1>1 DEF Mem0Inv, PairsAreTogether
<1>4. RowsAreAccountedFor'
  BY <1>1 DEF Mem0Inv, RowsAreAccountedFor, Accounts
<1> QED  BY <1>1, <1>2, <1>3, <1>4 DEF Mem0Inv, M0!OneRowPerFact

LEMMA BeginAddKeeps ==
  ASSUME Mem0Inv, NEW c \in Callers, NEW at \in {"raw", "extract"}, NEW scope, NEW todo,
         M0!BeginAdd(c, at, scope, todo)
  PROVE  Mem0Inv'
<1> DEFINE call == [M0!NoCall EXCEPT !.at = at, !.add = addCalls + 1, !.scope = scope, !.todo = todo]
<1>1. /\ caller[c].at = "idle" /\ caller' = [caller EXCEPT ![c] = call] /\ memories' = memories
      /\ together' = together \cup {{caller[d].add, addCalls + 1} : d \in
                                     {d \in Callers : caller[d].at # "idle"}}
  BY DEF M0!BeginAdd
<1>2. DOMAIN call = CallFields /\ call.at = at /\ call.add = addCalls + 1
  BY DEF M0!NoCall, CallFields
<1> HIDE DEF call
<1>3. /\ DOMAIN caller' = Callers /\ caller'[c] = call
      /\ \A d \in Callers : d # c => caller'[d] = caller[d]
  BY <1>1 DEF Mem0Inv
<1>4. together \subseteq together'
  BY <1>1
<1>5. \A d \in Callers : DOMAIN caller'[d] = CallFields
  BY <1>2, <1>3 DEF Mem0Inv
<1>6. ASSUME NEW d \in Callers, d # c, caller[d].at # "idle"
      PROVE  {caller[d].add, call.add} \in together'
  BY <1>1, <1>2, <1>6
<1>7. ASSUME NEW d \in Callers, NEW e \in Callers, d # e, caller'[d].at # "idle",
             caller'[e].at # "idle"
      PROVE  {caller'[d].add, caller'[e].add} \in together'
  <2>1. CASE e = c
    BY <1>3, <1>6, <1>7, <2>1
  <2>2. CASE d = c
    <3>1. {caller[e].add, call.add} = {call.add, caller[e].add}
      OBVIOUS
    <3> QED  BY <1>3, <1>6, <1>7, <2>2, <3>1
  <2>3. CASE d # c /\ e # c
    BY <1>3, <1>4, <1>7, <2>3 DEF Mem0Inv, PairsAreTogether
  <2> QED  BY <2>1, <2>2, <2>3
<1>8. ASSUME NEW d \in Callers, caller'[d].at = "insert", NEW r \in memories', ~r.raw,
             r.scope = caller'[d].scope
      PROVE  Accounts(caller[d], r)'
  <2>1. d # c
    BY <1>2, <1>3, <1>8
  <2>2. caller'[d] = caller[d] /\ Accounts(caller[d], r)
    BY <1>1, <1>3, <1>8, <2>1 DEF Mem0Inv, RowsAreAccountedFor
  <2> QED  BY <1>4, <2>2 DEF Accounts
<1>9. M0!OneRowPerFact'
  BY <1>1, <1>4 DEF Mem0Inv, M0!OneRowPerFact
<1> QED  BY <1>1, <1>3, <1>5, <1>7, <1>8, <1>9 DEF Mem0Inv, PairsAreTogether, RowsAreAccountedFor

LEMMA SameCardinalityOfRows == \A S : M0!Cardinality(S) = Cardinality(S)
BY DEF M0!Cardinality, Cardinality

\* A row is new to the scope but for the calls this one runs together with.
LEMMA NewRowKeeps ==
  ASSUME Mem0Inv, NEW c \in Callers, NEW id, id # 0, caller[c].at \in {"insert", "raw"},
         caller[c].row = 0, ~M0!Duplicate(caller[c]), together' = together,
         memories' = memories \cup
           {[id |-> id, fact |-> Head(caller[c].todo), scope |-> caller[c].scope,
             raw |-> caller[c].at = "raw", add |-> caller[c].add]},
         caller' = [caller EXCEPT ![c].row = id]
  PROVE  Mem0Inv'
<1> DEFINE new == [id |-> id, fact |-> Head(caller[c].todo), scope |-> caller[c].scope,
                   raw |-> caller[c].at = "raw", add |-> caller[c].add]
<1>1. /\ memories' = memories \cup {new} /\ caller' = [caller EXCEPT ![c].row = new.id]
      /\ new.fact = Head(caller[c].todo) /\ new.scope = caller[c].scope
      /\ new.add = caller[c].add /\ new.id # 0 /\ (~new.raw => caller[c].at # "raw")
  OBVIOUS
<1> HIDE DEF new
<1>2. ~new.raw => caller[c].at = "insert" /\ new.fact \notin caller[c].known
  BY <1>1 DEF M0!Duplicate
<1> DEFINE call == [caller[c] EXCEPT !.row = new.id]
<1>3. /\ DOMAIN call = CallFields /\ call.row = new.id /\ call.at = caller[c].at
      /\ call.add = caller[c].add /\ call.scope = caller[c].scope
      /\ call.todo = caller[c].todo /\ call.known = caller[c].known
  BY DEF Mem0Inv, CallFields
<1>4. caller' = [caller EXCEPT ![c] = call]
  BY <1>1
<1> HIDE DEF call
<1>5. /\ DOMAIN caller' = Callers /\ caller'[c] = call
      /\ \A d \in Callers : d # c => caller'[d] = caller[d]
  BY <1>4 DEF Mem0Inv
<1>6. (\A d \in Callers : DOMAIN caller'[d] = CallFields) /\ PairsAreTogether'
  BY <1>3, <1>5 DEF Mem0Inv, PairsAreTogether
<1>7. IsFiniteSet(memories')
  BY <1>1, FS_AddElement DEF Mem0Inv
<1>8. ASSUME NEW r \in memories, ~r.raw, ~new.raw, r.fact = new.fact, r.scope = new.scope
      PROVE  {r.add, new.add} \in together
  BY <1>8, <1>1, <1>2 DEF Mem0Inv, RowsAreAccountedFor, Accounts
<1>9. ASSUME NEW r \in memories', NEW s \in memories', r # s, r.fact = s.fact, r.scope = s.scope,
             ~r.raw, ~s.raw
      PROVE  {r.add, s.add} \in together
  <2>1. CASE r = new
    <3>1. {s.add, r.add} = {r.add, s.add}
      OBVIOUS
    <3> QED  BY <1>8, <1>9, <1>1, <2>1, <3>1
  <2>2. CASE s = new
    BY <1>8, <1>9, <1>1, <2>2
  <2>3. CASE r # new /\ s # new
    BY <1>9, <1>1, <2>3 DEF Mem0Inv, M0!OneRowPerFact
  <2> QED  BY <2>1, <2>2, <2>3
<1>10. ASSUME NEW d \in Callers, caller'[d].at = "insert", NEW r \in memories', ~r.raw,
             r.scope = caller'[d].scope
      PROVE  Accounts(caller[d], r)'
  <2>1. CASE r = new /\ d = c
    BY <1>3, <1>5, <1>1, <2>1 DEF Accounts
  <2>2. CASE r = new /\ d # c
    <3>1. {caller[c].add, caller[d].add} \in together
      BY <1>5, <1>10, <1>1, <2>2 DEF Mem0Inv, PairsAreTogether
    <3> QED  BY <1>5, <1>1, <2>2, <3>1 DEF Accounts
  <2>3. CASE r # new /\ d = c
    <3>1. Accounts(caller[c], r) /\ caller[c].row = 0
      BY <1>3, <1>5, <1>10, <1>1, <2>3 DEF Mem0Inv, RowsAreAccountedFor
    <3> QED  BY <1>3, <1>5, <2>3, <3>1 DEF Accounts
  <2>4. CASE r # new /\ d # c
    <3>1. Accounts(caller[d], r)
      BY <1>5, <1>10, <1>1, <2>4 DEF Mem0Inv, RowsAreAccountedFor
    <3> QED  BY <1>5, <2>4, <3>1 DEF Accounts
  <2> QED  BY <2>1, <2>2, <2>3, <2>4
<1> QED  BY <1>1, <1>5, <1>6, <1>7, <1>9, <1>10 DEF Mem0Inv, RowsAreAccountedFor, M0!OneRowPerFact

LEMMA Mem0Steps == ASSUME Mem0Inv, [M0!Next]_mem0 PROVE Mem0Inv'
<1>1. /\ DOMAIN M0!NoCall = CallFields /\ M0!NoCall.at = "idle"
      /\ \A c \in Callers : DOMAIN caller[c] = CallFields
  BY DEF M0!NoCall, CallFields, Mem0Inv
<1>2. ASSUME NEW c \in Callers, M0!AddRawMessages(c) PROVE Mem0Inv'
  BY <1>2, BeginAddKeeps DEF M0!AddRawMessages
<1>3. ASSUME NEW c \in Callers, M0!AddInferred(c) PROVE Mem0Inv'
  BY <1>3, BeginAddKeeps DEF M0!AddInferred
<1>4. ASSUME NEW c \in Callers, M0!Extract(c) PROVE Mem0Inv'
  <2>1. PICK facts \in M0!SeqOf(Facts, 2) :
          caller' = [caller EXCEPT ![c].at = IF facts = <<>> THEN "save" ELSE "hashes",
                                   ![c].todo = facts]
    BY <1>4 DEF M0!Extract
  <2>2. PICK at \in {"save", "hashes"} : caller' = [caller EXCEPT ![c].at = at, ![c].todo = facts]
    BY <2>1
  <2> DEFINE call == [caller[c] EXCEPT !.at = at, !.todo = facts]
  <2>3. DOMAIN call = CallFields /\ call.at = at /\ call.add = caller[c].add
    BY <1>1 DEF CallFields
  <2>4. /\ caller' = [caller EXCEPT ![c] = call] /\ caller[c].at = "extract"
        /\ memories' = memories /\ together' = together
    BY <1>4, <2>2 DEF M0!Extract
  <2> HIDE DEF call
  <2> QED  BY <2>3, <2>4, OnlyTheCaller
<1>5. ASSUME NEW c \in Callers, M0!ReadHashes(c) PROVE Mem0Inv'
  <2> DEFINE facts == {r.fact : r \in M0!Listed(caller[c].scope)}
             call == [caller[c] EXCEPT !.at = "insert", !.known = facts]
  <2>1. /\ caller' = [caller EXCEPT ![c] = call] /\ caller[c].at = "hashes"
        /\ memories' = memories /\ together' = together
    BY <1>5 DEF M0!ReadHashes
  <2>2. \A r \in memories : r.scope = caller[c].scope => r.fact \in facts
    BY DEF M0!Listed
  <2> HIDE DEF facts
  <2>3. /\ DOMAIN call = CallFields /\ call.at = "insert" /\ call.add = caller[c].add
        /\ call.known = facts /\ call.scope = caller[c].scope
    BY <1>1 DEF CallFields
  <2> HIDE DEF call
  <2>4. \A r \in memories : ~r.raw /\ r.scope = call.scope => Accounts(call, r)
    BY <2>2, <2>3 DEF Accounts
  <2> QED  BY <2>1, <2>3, <2>4, OnlyTheCaller
<1>6. ASSUME NEW c \in Callers, M0!Insert(c) PROVE Mem0Inv'
  <2>1. /\ caller[c].at \in {"insert", "raw"} /\ caller[c].row = 0 /\ together' = together
    BY <1>6 DEF M0!Insert
  <2>2. CASE M0!Duplicate(caller[c])
    <3> DEFINE call == [caller[c] EXCEPT !.todo = Tail(@)]
    <3>1. caller' = [caller EXCEPT ![c] = call] /\ memories' = memories
      BY <1>6, <2>2 DEF M0!Insert
    <3>2. /\ DOMAIN call = CallFields /\ call.at = caller[c].at /\ call.add = caller[c].add
          /\ call.known = caller[c].known /\ call.scope = caller[c].scope /\ call.row = caller[c].row
      BY <1>1 DEF CallFields
    <3> HIDE DEF call
    <3>3. call.at = "insert" => \A r \in memories : ~r.raw /\ r.scope = call.scope => Accounts(call, r)
      BY <2>1, <3>2 DEF Mem0Inv, RowsAreAccountedFor, Accounts
    <3> QED  BY <2>1, <3>1, <3>2, <3>3, OnlyTheCaller
  <2>3. CASE ~M0!Duplicate(caller[c])
    <3> DEFINE id == M0!Cardinality(memories) + 1
    <3>1. M0!Cardinality(memories) \in Nat
      BY SameCardinalityOfRows, FS_CardinalityType DEF Mem0Inv
    <3>2. id # 0
      <4>1. \A n \in Nat : n + 1 # 0
        OBVIOUS
      <4> QED  BY <3>1, <4>1, Zenon
    <3>3. /\ memories' = memories \cup
               {[id |-> id, fact |-> Head(caller[c].todo), scope |-> caller[c].scope,
                 raw |-> caller[c].at = "raw", add |-> caller[c].add]}
          /\ caller' = [caller EXCEPT ![c].row = id]
      BY <1>6, <2>3 DEF M0!Insert
    <3> HIDE DEF id
    <3> QED  BY <2>1, <2>3, <3>2, <3>3, NewRowKeeps
  <2> QED  BY <2>2, <2>3
<1>7. ASSUME NEW c \in Callers, M0!AddHistory(c) PROVE Mem0Inv'
  <2> DEFINE facts == caller[c].known \cup {Head(caller[c].todo)}
             call == [caller[c] EXCEPT !.row = 0, !.todo = Tail(@), !.known = facts]
  <2>1. caller' = [caller EXCEPT ![c] = call] /\ memories' = memories /\ together' = together
    BY <1>7 DEF M0!AddHistory, M0!Seen
  <2> HIDE DEF facts
  <2>2. /\ DOMAIN call = CallFields /\ call.at = caller[c].at /\ call.add = caller[c].add
        /\ call.known = facts /\ call.scope = caller[c].scope
    BY <1>1 DEF CallFields
  <2> HIDE DEF call
  <2>3. call.at = "insert" => \A r \in memories : ~r.raw /\ r.scope = call.scope => Accounts(call, r)
    BY <2>2 DEF Mem0Inv, RowsAreAccountedFor, Accounts, facts
  <2> QED  BY <2>1, <2>2, <2>3, OnlyTheCaller
<1>8. ASSUME NEW c \in Callers, M0!Finish(c) \/ M0!AddFails(c) PROVE Mem0Inv'
  <2>1. caller' = [caller EXCEPT ![c] = M0!NoCall] /\ memories' = memories /\ together' = together
    BY <1>8 DEF M0!Finish, M0!AddFails
  <2> QED  BY <1>1, <2>1, OnlyTheCaller
<1>9. CASE UNCHANGED mem0
  BY <1>9 DEF mem0, Mem0Inv, PairsAreTogether, RowsAreAccountedFor, Accounts, M0!OneRowPerFact
<1> QED  BY <1>2, <1>3, <1>4, <1>5, <1>6, <1>7, <1>8, <1>9 DEF M0!Next

LEMMA Mem0Shows == Mem0Inv => M0!OneRowPerFact
BY DEF Mem0Inv

\* Rows are numbered from 1 on, in the order they are inserted; what a caller works on was
\* begun, and a row it still has to write history for is one of the table.
RowFields == {"id", "fact", "scope", "raw", "add"}
CallTypes(call, begunCalls, size) ==
  /\ call.add \in Nat /\ call.add <= begunCalls
  /\ call.todo \in Seq(Facts)
  /\ call.at # "idle" => call.add >= 1 /\ call.scope \in Scopes
  /\ call.row # 0 => /\ call.row \in 1..size
                     /\ call.todo # <<>> /\ call.at \in {"insert", "raw"}
Mem0Types ==
  /\ addCalls \in Nat /\ addCalls <= MaxAdds
  /\ \A r \in memories : /\ r.fact \in Facts /\ r.scope \in Scopes
                         /\ r.add \in 1..addCalls /\ r.id \in 1..Cardinality(memories)
  /\ history \subseteq 1..Cardinality(memories) /\ saved \subseteq 1..addCalls
  /\ \A c \in Callers : CallTypes(caller[c], addCalls, Cardinality(memories))

LEMMA NoCallTypes ==
  /\ M0!NoCall.add = 0 /\ M0!NoCall.todo = <<>> /\ M0!NoCall.at = "idle" /\ M0!NoCall.row = 0
  /\ DOMAIN M0!NoCall = CallFields
BY DEF M0!NoCall, CallFields

LEMMA RowsAreCounted == Mem0Inv => Cardinality(memories) \in Nat
BY FS_CardinalityType DEF Mem0Inv

LEMMA Mem0TypesStart == M0!Init => Mem0Types
<1> SUFFICES ASSUME M0!Init PROVE Mem0Types
  OBVIOUS
<1>1. /\ memories = {} /\ history = {} /\ saved = {} /\ addCalls = 0
      /\ caller = [c \in Callers |-> M0!NoCall]
  BY DEF M0!Init
<1>2. <<>> \in Seq(Facts)
  OBVIOUS
<1>3. CallTypes(M0!NoCall, 0, Cardinality(memories))
  BY <1>2, NoCallTypes DEF CallTypes
<1> QED  BY <1>1, <1>3, Mem0Assumption DEF Mem0Types

\* The table stays; caller c goes on.
LEMMA OnlyTheCallerTypes ==
  ASSUME Mem0Inv, Mem0Types, NEW c \in Callers, NEW call, caller' = [caller EXCEPT ![c] = call],
         memories' = memories, addCalls' \in Nat, addCalls <= addCalls', addCalls' <= MaxAdds,
         history' \subseteq 1..Cardinality(memories), saved' \subseteq 1..addCalls',
         CallTypes(call, addCalls', Cardinality(memories'))
  PROVE  Mem0Types'
<1>1. /\ caller'[c] = call
      /\ \A d \in Callers : d # c => caller'[d] = caller[d]
  BY DEF Mem0Inv
<1>2. \A d \in Callers : d # c => CallTypes(caller'[d], addCalls', Cardinality(memories'))
  BY <1>1 DEF Mem0Types, CallTypes
<1> QED  BY <1>1, <1>2 DEF Mem0Types, CallTypes

LEMMA BeginAddTypes ==
  ASSUME Mem0Inv, Mem0Types, NEW c \in Callers, NEW at \in {"raw", "extract"}, NEW scope \in Scopes,
         NEW todo \in Seq(Facts), M0!BeginAdd(c, at, scope, todo)
  PROVE  Mem0Types'
<1> DEFINE call == [M0!NoCall EXCEPT !.at = at, !.add = addCalls + 1, !.scope = scope, !.todo = todo]
<1>1. /\ caller' = [caller EXCEPT ![c] = call] /\ memories' = memories /\ addCalls < MaxAdds
      /\ addCalls' = addCalls + 1 /\ history' = history /\ saved' = saved
  BY DEF M0!BeginAdd
<1>2. call.add = addCalls + 1 /\ call.todo = todo /\ call.row = 0 /\ call.scope = scope
  BY NoCallTypes DEF CallFields
<1> HIDE DEF call
<1>3. addCalls' \in Nat /\ addCalls <= addCalls' /\ addCalls' <= MaxAdds
  BY <1>1, Mem0Assumption DEF Mem0Types
<1>4. saved' \subseteq 1..addCalls' /\ history' \subseteq 1..Cardinality(memories)
  BY <1>1 DEF Mem0Types
<1>5. CallTypes(call, addCalls', Cardinality(memories'))
  BY <1>1, <1>2, <1>3 DEF CallTypes, Mem0Types
<1> QED  BY <1>1, <1>3, <1>4, <1>5, OnlyTheCallerTypes

LEMMA NewRowTypes ==
  ASSUME Mem0Inv, Mem0Types, NEW c \in Callers, NEW newRow, NEW id, id = Cardinality(memories) + 1,
         DOMAIN newRow = RowFields, newRow.id = id, newRow.fact = Head(caller[c].todo), newRow.scope = caller[c].scope,
         newRow.add = caller[c].add, caller[c].todo # <<>>, caller[c].at \in {"insert", "raw"},
         memories' = memories \cup {newRow}, caller' = [caller EXCEPT ![c].row = id],
         UNCHANGED <<history, saved, addCalls>>
  PROVE  Mem0Types'
<1> DEFINE call == [caller[c] EXCEPT !.row = id]
<1>1. /\ call.row = id /\ call.at = caller[c].at /\ call.add = caller[c].add
      /\ call.scope = caller[c].scope /\ call.todo = caller[c].todo
      /\ caller' = [caller EXCEPT ![c] = call]
  BY DEF Mem0Inv, CallFields
<1> HIDE DEF call
<1>2. caller'[c] = call /\ \A d \in Callers : d # c => caller'[d] = caller[d]
  BY <1>1 DEF Mem0Inv
<1>3. Cardinality(memories) \in Nat /\ newRow \notin memories
  BY RowsAreCounted DEF Mem0Types
<1>4. Cardinality(memories') = id
  BY <1>3, FS_AddElement DEF Mem0Inv
<1>5. 1..Cardinality(memories) \subseteq 1..Cardinality(memories') /\ id \in 1..Cardinality(memories')
  BY <1>3, <1>4
<1>6. Head(caller[c].todo) \in Facts
  BY HeadTailProperties DEF Mem0Types, CallTypes
<1>7. \A r \in memories' : /\ r.fact \in Facts /\ r.scope \in Scopes
                           /\ r.add \in 1..addCalls /\ r.id \in 1..Cardinality(memories')
  <2>1. caller[c].add \in 1..addCalls /\ caller[c].scope \in Scopes
    BY DEF Mem0Types, CallTypes
  <2> QED  BY <1>5, <1>6, <2>1 DEF Mem0Types
<1>8. CallTypes(call, addCalls', Cardinality(memories'))
  BY <1>1, <1>5 DEF Mem0Types, CallTypes
<1>9. \A d \in Callers : d # c => CallTypes(caller[d], addCalls', Cardinality(memories'))
  BY <1>5, <1>2 DEF Mem0Types, CallTypes
<1> QED  BY <1>2, <1>5, <1>7, <1>8, <1>9 DEF Mem0Types

LEMMA Mem0TypesStep == ASSUME Mem0Inv, Mem0Types, [M0!Next]_mem0 PROVE Mem0Types'
<1>0. ASSUME NEW n \in Nat, NEW s \in M0!SeqOf(Facts, n) PROVE s \in Seq(Facts)
  BY <1>0 DEF M0!SeqOf
<1>1. \A c \in Callers : DOMAIN caller[c] = CallFields /\ CallTypes(caller[c], addCalls, Cardinality(memories))
  BY DEF Mem0Inv, Mem0Types
<1>2. ASSUME NEW c \in Callers, M0!AddRawMessages(c) PROVE Mem0Types'
  <2>1. PICK scope \in Scopes, texts \in M0!SeqOf(Facts, 1) : M0!BeginAdd(c, "raw", scope, texts)
    BY <1>2 DEF M0!AddRawMessages
  <2>2. texts \in Seq(Facts)
    BY <1>0
  <2> QED  BY <2>1, <2>2, BeginAddTypes
<1>3. ASSUME NEW c \in Callers, M0!AddInferred(c) PROVE Mem0Types'
  <2>1. PICK scope \in Scopes : M0!BeginAdd(c, "extract", scope, <<>>)
    BY <1>3 DEF M0!AddInferred
  <2>2. <<>> \in Seq(Facts)
    OBVIOUS
  <2> QED  BY <2>1, <2>2, BeginAddTypes
<1>4. ASSUME NEW c \in Callers, NEW call, caller' = [caller EXCEPT ![c] = call],
             memories' = memories, addCalls' = addCalls,
             history' \subseteq 1..Cardinality(memories), saved' \subseteq 1..addCalls,
             CallTypes(call, addCalls, Cardinality(memories))
      PROVE  Mem0Types'
  <2>1. CallTypes(call, addCalls', Cardinality(memories')) /\ addCalls' \in Nat /\ addCalls <= addCalls' /\ addCalls' <= MaxAdds
    BY <1>4, Mem0Assumption DEF Mem0Types, CallTypes
  <2> QED  BY <1>4, <2>1, OnlyTheCallerTypes
<1>5. history \subseteq 1..Cardinality(memories) /\ saved \subseteq 1..addCalls
  BY DEF Mem0Types
<1>6. ASSUME NEW c \in Callers, M0!Extract(c) PROVE Mem0Types'
  <2>1. PICK facts \in M0!SeqOf(Facts, 2) :
          caller' = [caller EXCEPT ![c].at = IF facts = <<>> THEN "save" ELSE "hashes",
                                   ![c].todo = facts]
    BY <1>6 DEF M0!Extract
  <2>2. PICK at \in {"save", "hashes"} : caller' = [caller EXCEPT ![c].at = at, ![c].todo = facts]
    BY <2>1
  <2> DEFINE call == [caller[c] EXCEPT !.at = at, !.todo = facts]
  <2>3. /\ call.at = at /\ call.add = caller[c].add /\ call.scope = caller[c].scope
        /\ call.todo = facts /\ call.row = caller[c].row
    BY <1>1 DEF CallFields
  <2>4. /\ caller' = [caller EXCEPT ![c] = call] /\ caller[c].at = "extract"
        /\ memories' = memories /\ UNCHANGED <<history, saved, addCalls>>
    BY <1>6, <2>2 DEF M0!Extract
  <2> HIDE DEF call
  <2>5. facts \in Seq(Facts)
    BY <1>0
  <2>6. CallTypes(call, addCalls, Cardinality(memories))
    BY <1>1, <2>3, <2>4, <2>5 DEF CallTypes
  <2> QED  BY <1>4, <1>5, <2>4, <2>6
<1>7. ASSUME NEW c \in Callers, M0!ReadHashes(c) PROVE Mem0Types'
  <2> DEFINE facts == {r.fact : r \in M0!Listed(caller[c].scope)}
             call == [caller[c] EXCEPT !.at = "insert", !.known = facts]
  <2>1. /\ caller' = [caller EXCEPT ![c] = call] /\ caller[c].at = "hashes"
        /\ memories' = memories /\ UNCHANGED <<history, saved, addCalls>>
    BY <1>7 DEF M0!ReadHashes
  <2> HIDE DEF facts
  <2>2. /\ call.at = "insert" /\ call.add = caller[c].add /\ call.scope = caller[c].scope
        /\ call.todo = caller[c].todo /\ call.row = caller[c].row
    BY <1>1 DEF CallFields
  <2> HIDE DEF call
  <2>3. CallTypes(call, addCalls, Cardinality(memories))
    BY <1>1, <2>1, <2>2 DEF CallTypes
  <2> QED  BY <1>4, <1>5, <2>1, <2>3
<1>8. ASSUME NEW c \in Callers, M0!Insert(c) PROVE Mem0Types'
  <2>1. /\ caller[c].at \in {"insert", "raw"} /\ caller[c].row = 0 /\ caller[c].todo # <<>>
        /\ UNCHANGED <<history, saved, addCalls>>
    BY <1>8 DEF M0!Insert
  <2>2. CASE M0!Duplicate(caller[c])
    <3> DEFINE call == [caller[c] EXCEPT !.todo = Tail(@)]
    <3>1. caller' = [caller EXCEPT ![c] = call] /\ memories' = memories
      BY <1>8, <2>2 DEF M0!Insert
    <3>2. /\ call.at = caller[c].at /\ call.add = caller[c].add /\ call.row = caller[c].row
          /\ call.scope = caller[c].scope /\ call.todo = Tail(caller[c].todo)
      BY <1>1 DEF CallFields
    <3> HIDE DEF call
    <3>3. Tail(caller[c].todo) \in Seq(Facts)
      BY <1>1, <2>1, HeadTailProperties DEF CallTypes
    <3>4. CallTypes(call, addCalls, Cardinality(memories))
      BY <1>1, <2>1, <3>2, <3>3 DEF CallTypes
    <3> QED  BY <1>4, <1>5, <2>1, <3>1, <3>4
  <2>3. CASE ~M0!Duplicate(caller[c])
    <3> DEFINE id == M0!Cardinality(memories) + 1
               newRow == [id |-> id, fact |-> Head(caller[c].todo), scope |-> caller[c].scope,
                       raw |-> caller[c].at = "raw", add |-> caller[c].add]
    <3>1. memories' = memories \cup {newRow} /\ caller' = [caller EXCEPT ![c].row = id]
      BY <1>8, <2>3 DEF M0!Insert
    <3>2. id = Cardinality(memories) + 1
      BY SameCardinalityOfRows
    <3> HIDE DEF id
    <3>3. /\ DOMAIN newRow = RowFields /\ newRow.id = id /\ newRow.fact = Head(caller[c].todo)
          /\ newRow.scope = caller[c].scope /\ newRow.add = caller[c].add
      BY DEF RowFields
    <3> HIDE DEF newRow
    <3> QED  BY <2>1, <3>1, <3>2, <3>3, NewRowTypes
  <2> QED  BY <2>2, <2>3
<1>9. ASSUME NEW c \in Callers, M0!AddHistory(c) PROVE Mem0Types'
  <2> DEFINE facts == caller[c].known \cup {Head(caller[c].todo)}
             call == [caller[c] EXCEPT !.row = 0, !.todo = Tail(@), !.known = facts]
  <2>1. /\ caller' = [caller EXCEPT ![c] = call] /\ memories' = memories /\ caller[c].row # 0
        /\ saved' = saved /\ addCalls' = addCalls /\ history' = history \cup {caller[c].row}
    BY <1>9 DEF M0!AddHistory, M0!Seen
  <2> HIDE DEF facts
  <2>2. /\ call.at = caller[c].at /\ call.add = caller[c].add /\ call.row = 0
        /\ call.scope = caller[c].scope /\ call.todo = Tail(caller[c].todo)
    BY <1>1 DEF CallFields
  <2> HIDE DEF call
  <2>3. caller[c].todo # <<>> /\ caller[c].row \in 1..Cardinality(memories)
    BY <1>1, <2>1 DEF CallTypes
  <2>4. Tail(caller[c].todo) \in Seq(Facts)
    BY <1>1, <2>3, HeadTailProperties DEF CallTypes
  <2>5. CallTypes(call, addCalls, Cardinality(memories))
    BY <1>1, <2>2, <2>4 DEF CallTypes
  <2>6. history' \subseteq 1..Cardinality(memories)
    BY <1>5, <2>1, <2>3
  <2> QED  BY <1>4, <1>5, <2>1, <2>5, <2>6
<1>10. CallTypes(M0!NoCall, addCalls, Cardinality(memories))
  <2>1. <<>> \in Seq(Facts)
    OBVIOUS
  <2> QED  BY <2>1, NoCallTypes DEF CallTypes, Mem0Types
<1>11. ASSUME NEW c \in Callers, M0!Finish(c) PROVE Mem0Types'
  <2>1. /\ caller[c].at \in {"insert", "raw", "save"} /\ UNCHANGED <<memories, history, addCalls>>
        /\ caller' = [caller EXCEPT ![c] = M0!NoCall]
        /\ saved' = saved \/ saved' = saved \cup {caller[c].add}
    BY <1>11 DEF M0!Finish
  <2>2. caller[c].add \in 1..addCalls
    BY <1>1, <2>1 DEF CallTypes, Mem0Types
  <2>3. saved' \subseteq 1..addCalls /\ history' \subseteq 1..Cardinality(memories)
    BY <1>5, <2>1, <2>2
  <2> QED  BY <1>4, <1>10, <2>1, <2>3
<1>12. ASSUME NEW c \in Callers, M0!AddFails(c) PROVE Mem0Types'
  BY <1>12, <1>4, <1>5, <1>10 DEF M0!AddFails
<1>13. CASE UNCHANGED mem0
  BY <1>13 DEF mem0, Mem0Types, CallTypes
<1> QED  BY <1>2, <1>3, <1>6, <1>7, <1>8, <1>9, <1>11, <1>12, <1>13 DEF M0!Next

LEMMA Mem0TypesShow == Mem0Inv /\ Mem0Types => M0!TypeOK
<1> SUFFICES ASSUME Mem0Inv, Mem0Types PROVE M0!TypeOK
  OBVIOUS
<1>1. M0!Cardinality(memories) = Cardinality(memories)
  BY SameCardinalityOfRows
<1>2. \A c \in Callers : caller[c].add \in 0..MaxAdds
  BY Mem0Assumption DEF Mem0Types, CallTypes
<1> QED  BY <1>1, <1>2 DEF Mem0Types, M0!TypeOK

---------------------------------------------------------------------------
(* memory/claude_auto_memory/transcript_store.go.                          *)

VARIABLES lines, accepted
transcriptVars == <<lines, accepted>>
TR == INSTANCE TranscriptLog

FileLine == [ids : Seq(Messages), form : {"whole", "half", "open"}]
\* What is loaded has the accepted messages in their order, and nothing twice.
Kept(loaded, ids) ==
  /\ \A k \in DOMAIN ids : TR!Contains(loaded, ids[k])
  /\ \A j, k \in DOMAIN ids : j < k => TR!Before(loaded, ids[j], ids[k])
  /\ TR!IsInjective(loaded)
OnlyLastUnreadable(ls) == \A k \in DOMAIN ls : k < Len(ls) => TR!Readable(ls[k])

TranscriptInv ==
  /\ lines \in Seq(FileLine) /\ accepted \in Seq(Messages)
  /\ TR!LoadUnlocked(lines) # TR!Unreadable => Kept(TR!LoadUnlocked(lines), accepted)
  /\ OnlyLastUnreadable(lines)

LEMMA TranscriptStarts == TR!Init => TranscriptInv
<1> SUFFICES ASSUME TR!Init PROVE TranscriptInv
  OBVIOUS
<1>1. lines = <<>> /\ accepted = <<>>
  BY DEF TR!Init
<1>2. DOMAIN TR!LoadUnlocked(lines) = {}
  BY <1>1 DEF TR!LoadUnlocked
<1>3. Kept(TR!LoadUnlocked(lines), accepted)
  BY <1>1, <1>2 DEF Kept, TR!IsInjective
<1> QED  BY <1>1, <1>3 DEF TranscriptInv, OnlyLastUnreadable

\* longer has what was loaded before, and id behind it.
Longer(longer, loaded, id) ==
  /\ DOMAIN loaded = 1..Len(loaded) /\ Len(loaded) \in Nat
  /\ DOMAIN longer = 1..Len(loaded) + 1 /\ Len(longer) = Len(loaded) + 1
  /\ longer[Len(loaded) + 1] = id
  /\ \A k \in 1..Len(loaded) : longer[k] = loaded[k]

\* A write adds its message at the end, or leaves what cannot be loaded.
LEMMA WriteAddsOne ==
  ASSUME TranscriptInv, NEW id \in Messages, NEW form \in {"whole", "half", "open"},
         TR!AppendTo(id), lines' = TR!Write(lines, id, form)
  PROVE  /\ lines' \in Seq(FileLine) /\ OnlyLastUnreadable(lines')
         /\ \/ TR!LoadUnlocked(lines') = TR!Unreadable
            \/ Longer(TR!LoadUnlocked(lines'), TR!LoadUnlocked(lines), id)
<1>1. lines \in Seq(FileLine) /\ Len(lines) \in Nat /\ DOMAIN lines = 1..Len(lines)
  BY DEF TranscriptInv
<1>2. \A k \in DOMAIN lines : TR!Readable(lines[k])
  BY DEF TR!AppendTo, TR!LoadUnlocked
<1>3. CASE lines # <<>> /\ TR!Last(lines).form # "whole"
  <2> DEFINE form2 == IF form = "half" \/ lines[Len(lines)].form = "half" THEN "half" ELSE form
             new == TR!Line(Append(lines[Len(lines)].ids, id), form2)
  <2>1. Len(lines) \in 1..Len(lines) /\ lines[Len(lines)] \in FileLine
    BY <1>1, <1>3
  <2>2. lines' = [lines EXCEPT ![Len(lines)] = new]
    BY <1>3, <2>1 DEF TR!Write
  <2>3. Append(lines[Len(lines)].ids, id) \in Seq(Messages)
        /\ Len(Append(lines[Len(lines)].ids, id)) = Len(lines[Len(lines)].ids) + 1
    BY <2>1 DEF FileLine
  <2>4. Len(lines[Len(lines)].ids) = 1
    BY <1>2, <2>1 DEF TR!Readable
  <2>5. new \in FileLine /\ Len(new.ids) = 2
    BY <2>3, <2>4 DEF TR!Line, FileLine
  <2>6. ~TR!Readable(new)
    BY <2>5 DEF TR!Readable
  <2> HIDE DEF new, form2
  <2>7. /\ lines' \in Seq(FileLine) /\ Len(lines') = Len(lines) /\ lines'[Len(lines)] = new
        /\ \A k \in 1..Len(lines) : k # Len(lines) => lines'[k] = lines[k]
    BY <1>1, <2>1, <2>2, <2>5
  <2>8. TR!LoadUnlocked(lines') = TR!Unreadable
    BY <2>1, <2>6, <2>7 DEF TR!LoadUnlocked
  <2>9. OnlyLastUnreadable(lines')
    <3>1. DOMAIN lines' = 1..Len(lines)
      BY <2>7
    <3>2. \A n \in Nat : \A k \in 1..n : k < n => k # n
      OBVIOUS
    <3> QED  BY Zenon, <1>1, <1>2, <2>7, <3>1, <3>2 DEF OnlyLastUnreadable
  <2> QED  BY <2>7, <2>8, <2>9
<1>4. CASE ~(lines # <<>> /\ TR!Last(lines).form # "whole")
  <2> DEFINE new == TR!Line(<<id>>, form)
  <2>1. lines' = Append(lines, new)
    BY <1>4 DEF TR!Write
  <2>2. new \in FileLine /\ new.ids[1] = id
    BY DEF TR!Line, FileLine
  <2> HIDE DEF new
  <2>3. /\ lines' \in Seq(FileLine) /\ Len(lines') = Len(lines) + 1
        /\ lines'[Len(lines) + 1] = new /\ DOMAIN lines' = 1..Len(lines) + 1
        /\ \A k \in 1..Len(lines) : lines'[k] = lines[k]
    BY <1>1, <2>1, <2>2
  <2>4. OnlyLastUnreadable(lines')
    BY <1>1, <1>2, <2>3 DEF OnlyLastUnreadable
  <2>5. CASE ~TR!Readable(new)
    <3>1. TR!LoadUnlocked(lines') = TR!Unreadable
      BY <1>1, <2>3, <2>5 DEF TR!LoadUnlocked
    <3> QED  BY <2>3, <2>4, <3>1
  <2>6. CASE TR!Readable(new)
    <3> DEFINE loaded == [k \in 1..Len(lines) |-> lines[k].ids[1]]
               longer == [k \in 1..Len(lines) + 1 |-> lines'[k].ids[1]]
    <3>1. TR!LoadUnlocked(lines) = loaded
      BY <1>1, <1>2 DEF TR!LoadUnlocked
    <3>2. \A k \in DOMAIN lines' : TR!Readable(lines'[k])
      BY <1>1, <1>2, <2>3, <2>6
    <3>3. TR!LoadUnlocked(lines') = longer
      BY <2>3, <3>2 DEF TR!LoadUnlocked
    <3>4. /\ DOMAIN loaded = 1..Len(lines) /\ Len(loaded) = Len(lines)
          /\ DOMAIN longer = 1..Len(lines) + 1 /\ Len(longer) = Len(lines) + 1
      BY <1>1
    <3>5. longer[Len(lines) + 1] = id /\ \A k \in 1..Len(lines) : longer[k] = loaded[k]
      BY <1>1, <2>2, <2>3
    <3> HIDE DEF loaded, longer
    <3>6. Longer(longer, loaded, id)
      BY <1>1, <3>4, <3>5 DEF Longer
    <3> QED  BY <2>3, <2>4, <3>1, <3>3, <3>6
  <2> QED  BY <2>5, <2>6
<1> QED  BY <1>3, <1>4

\* The accepted messages stay in what is read, and the new one comes last.
LEMMA LongerKeepsAll ==
  ASSUME NEW longer, NEW loaded, NEW id, NEW ids \in Seq(Messages), id \in Messages,
         Longer(longer, loaded, id), Kept(loaded, ids), ~TR!Contains(loaded, id)
  PROVE  Kept(longer, ids) /\ Kept(longer, Append(ids, id))
<1> DEFINE n == Len(loaded)  more == Append(ids, id)
<1>1. n \in Nat /\ DOMAIN loaded = 1..n /\ DOMAIN longer = 1..n + 1 /\ Len(longer) = n + 1
      /\ longer[n + 1] = id /\ \A k \in 1..n : longer[k] = loaded[k]
  BY DEF Longer
<1>2. \A x : TR!Contains(loaded, x) <=> \E k \in 1..n : loaded[k] = x
  BY DEF TR!Contains
<1>3. \A x : TR!Contains(longer, x) <=> \E k \in 1..n + 1 : longer[k] = x
  BY <1>1 DEF TR!Contains
<1>4. \A x : TR!Contains(loaded, x) => TR!Contains(longer, x)
  BY <1>1, <1>2, <1>3
<1>5. \A x, y : TR!Before(loaded, x, y) => TR!Before(longer, x, y)
  BY <1>1 DEF TR!Before
<1>6. \A x : TR!Contains(loaded, x) => TR!Before(longer, x, id)
  <2> SUFFICES ASSUME NEW x, TR!Contains(loaded, x) PROVE TR!Before(longer, x, id)
    OBVIOUS
  <2>1. PICK k \in 1..n : loaded[k] = x
    BY <1>2
  <2>2. k \in DOMAIN longer /\ n + 1 \in DOMAIN longer /\ k < n + 1 /\ longer[k] = x
    BY <1>1, <2>1
  <2> QED  BY <1>1, <2>2 DEF TR!Before
<1>7. TR!IsInjective(longer)
  <2> SUFFICES ASSUME NEW i \in 1..n + 1, NEW j \in 1..n + 1, longer[i] = longer[j]
               PROVE  i = j
    BY <1>1 DEF TR!IsInjective
  <2>1. CASE i \in 1..n /\ j \in 1..n
    BY <1>1, <2>1 DEF Kept, TR!IsInjective
  <2>2. CASE i = n + 1 /\ j \in 1..n
    BY <1>1, <1>2, <2>2
  <2>3. CASE i \in 1..n /\ j = n + 1
    BY <1>1, <1>2, <2>3
  <2> QED  BY <1>1, <2>1, <2>2, <2>3
<1>8. Kept(longer, ids)
  BY <1>4, <1>5, <1>7 DEF Kept
<1>9. /\ DOMAIN ids = 1..Len(ids) /\ Len(ids) \in Nat /\ DOMAIN more = 1..Len(ids) + 1
      /\ more[Len(ids) + 1] = id /\ \A k \in 1..Len(ids) : more[k] = ids[k]
  OBVIOUS
<1> HIDE DEF more, n
<1>10. TR!Contains(longer, id)
  BY <1>1, <1>3
<1>11. \A k \in DOMAIN more : TR!Contains(longer, more[k])
  BY <1>8, <1>9, <1>10 DEF Kept
<1>12. ASSUME NEW j \in DOMAIN more, NEW k \in DOMAIN more, j < k
       PROVE  TR!Before(longer, more[j], more[k])
  <2>1. j \in 1..Len(ids)
    BY <1>9, <1>12
  <2>2. CASE k \in 1..Len(ids)
    BY <1>8, <1>9, <1>12, <2>1, <2>2 DEF Kept
  <2>3. CASE k = Len(ids) + 1
    <3>1. TR!Contains(loaded, ids[j])
      BY <1>9, <2>1 DEF Kept
    <3> QED  BY <1>6, <1>9, <2>1, <2>3, <3>1
  <2> QED  BY <1>9, <2>2, <2>3
<1> QED  BY <1>7, <1>8, <1>11, <1>12 DEF Kept, more

LEMMA TranscriptSteps == ASSUME TranscriptInv, [TR!Next]_transcriptVars PROVE TranscriptInv'
<1>1. ASSUME NEW id \in Messages, NEW form \in {"whole", "half", "open"},
             TR!AppendTo(id), lines' = TR!Write(lines, id, form),
             accepted' \in {accepted, Append(accepted, id)}
      PROVE  TranscriptInv'
  <2>1. /\ lines' \in Seq(FileLine) /\ OnlyLastUnreadable(lines')
        /\ \/ TR!LoadUnlocked(lines') = TR!Unreadable
           \/ Longer(TR!LoadUnlocked(lines'), TR!LoadUnlocked(lines), id)
    BY <1>1, WriteAddsOne
  <2>2. Kept(TR!LoadUnlocked(lines), accepted) /\ ~TR!Contains(TR!LoadUnlocked(lines), id)
    BY <1>1 DEF TranscriptInv, TR!AppendTo
  <2>3. accepted \in Seq(Messages) /\ accepted' \in Seq(Messages)
    BY <1>1 DEF TranscriptInv
  <2>4. CASE TR!LoadUnlocked(lines') = TR!Unreadable
    BY <2>1, <2>3, <2>4 DEF TranscriptInv, OnlyLastUnreadable
  <2>5. CASE Longer(TR!LoadUnlocked(lines'), TR!LoadUnlocked(lines), id)
    <3>1. Kept(TR!LoadUnlocked(lines'), accepted')
      BY <1>1, <2>2, <2>3, <2>5, LongerKeepsAll
    <3> QED  BY <2>1, <2>3, <3>1 DEF TranscriptInv, OnlyLastUnreadable
  <2> QED  BY <2>1, <2>4, <2>5
<1>2. CASE TR!AppendMessage
  BY <1>1, <1>2 DEF TR!AppendMessage
<1>3. CASE TR!AppendFails
  BY <1>1, <1>3 DEF TR!AppendFails
<1>4. CASE UNCHANGED transcriptVars
  BY <1>4 DEF transcriptVars, TranscriptInv, OnlyLastUnreadable
<1> QED  BY <1>2, <1>3, <1>4 DEF TR!Next

LEMMA TranscriptShows == TranscriptInv => TR!LoadHasAllAccepted
BY DEF TranscriptInv, Kept, OnlyLastUnreadable, TR!LoadHasAllAccepted

\* No derived message is written, and only the last line can lack its newline.
TranscriptTypes ==
  /\ accepted \in Seq(Messages \ Derived)
  /\ \A k \in 1..Len(lines) : /\ lines[k].ids \in Seq(Messages \ Derived) /\ lines[k].ids # <<>>
                              /\ k < Len(lines) => lines[k].form = "whole"

LEMMA TranscriptTypesStart == TR!Init => TranscriptTypes
BY DEF TR!Init, TranscriptTypes

LEMMA TranscriptTypesStep ==
  ASSUME TranscriptInv, TranscriptTypes, [TR!Next]_transcriptVars PROVE TranscriptTypes'
<1>1. ASSUME NEW id \in Messages, NEW form \in {"whole", "half", "open"},
             TR!AppendTo(id), lines' = TR!Write(lines, id, form),
             accepted' \in {accepted, Append(accepted, id)}
      PROVE  TranscriptTypes'
  <2>1. id \in Messages \ Derived
    BY <1>1 DEF TR!AppendTo, TR!Normal
  <2>2. accepted' \in Seq(Messages \ Derived)
    <3>1. accepted \in Seq(Messages \ Derived)
      BY DEF TranscriptTypes
    <3>2. Append(accepted, id) \in Seq(Messages \ Derived)
      BY <2>1, <3>1, AppendProperties
    <3> QED  BY <1>1, <3>1, <3>2
  <2>3. lines \in Seq(FileLine) /\ Len(lines) \in Nat /\ DOMAIN lines = 1..Len(lines)
    BY LenProperties DEF TranscriptInv
  <2> DEFINE Typed(l) == l.ids \in Seq(Messages \ Derived) /\ l.ids # <<>>
  <2>4. \A k \in 1..Len(lines) : Typed(lines[k]) /\ (k < Len(lines) => lines[k].form = "whole")
    BY DEF TranscriptTypes
  <2>5. CASE lines # <<>> /\ TR!Last(lines).form # "whole"
    <3> DEFINE form2 == IF form = "half" \/ lines[Len(lines)].form = "half" THEN "half" ELSE form
               new == TR!Line(Append(lines[Len(lines)].ids, id), form2)
    <3>1. Len(lines) \in 1..Len(lines)
      BY <2>3, <2>5
    <3>2. lines' = [lines EXCEPT ![Len(lines)] = new]
      BY <1>1, <2>5, <3>1 DEF TR!Write
    <3>3. Append(lines[Len(lines)].ids, id) \in Seq(Messages \ Derived)
          /\ Append(lines[Len(lines)].ids, id) # <<>>
      <4> DEFINE ids == lines[Len(lines)].ids
      <4>1. ids \in Seq(Messages \ Derived)
        BY <2>4, <3>1
      <4> HIDE DEF ids
      <4>2. Append(ids, id) \in Seq(Messages \ Derived) /\ Append(ids, id) # <<>>
        BY <2>1, <4>1, AppendProperties
      <4> QED  BY <4>2 DEF ids
    <3>4. Typed(new)
      BY <3>3 DEF TR!Line
    <3>7. new \in FileLine
      <4> DEFINE ids == Append(lines[Len(lines)].ids, id)
      <4>1. ids \in Seq(Messages) /\ form2 \in {"whole", "half", "open"}
        BY <3>3
      <4>2. new = TR!Line(ids, form2)
        OBVIOUS
      <4> HIDE DEF form2, new
      <4> QED  BY <4>1, <4>2 DEF TR!Line, FileLine
    <3> HIDE DEF new, form2, Typed
    <3>5. /\ Len(lines') = Len(lines) /\ lines'[Len(lines)] = new
          /\ \A k \in 1..Len(lines) : k # Len(lines) => lines'[k] = lines[k]
      <4> DEFINE n == Len(lines)
      <4>1. lines \in Seq(FileLine) /\ n \in 1..Len(lines) /\ new \in FileLine
        BY <2>3, <3>1, <3>7
      <4>2. lines' = [lines EXCEPT ![n] = new]
        BY <3>2
      <4> HIDE DEF n
      <4>3. /\ Len(lines') = Len(lines)
            /\ \A k \in 1..Len(lines) : lines'[k] = IF k = n THEN new ELSE lines[k]
        BY <4>1, <4>2, ExceptSeq
      <4>4. lines'[n] = new /\ \A k \in 1..Len(lines) : k # n => lines'[k] = lines[k]
        BY <4>1, <4>3
      <4> QED  BY <4>3, <4>4 DEF n
    <3>6. ASSUME NEW k \in 1..Len(lines)
          PROVE  Typed(lines'[k]) /\ (k < Len(lines) => lines'[k].form = "whole")
      <4>1. CASE k = Len(lines)
        <5>1. Typed(lines'[k])
          BY <3>4, <3>5, <4>1
        <5> QED  BY <2>3, <4>1, <5>1
      <4>2. CASE k # Len(lines)
        <5>1. lines'[k] = lines[k]
          BY <3>5, <4>2
        <5> QED  BY <2>4, <5>1
      <4> QED  BY <4>1, <4>2
    <3> QED  BY <2>2, <3>5, <3>6 DEF TranscriptTypes, Typed
  <2>6. CASE ~(lines # <<>> /\ TR!Last(lines).form # "whole")
    <3> DEFINE new == TR!Line(<<id>>, form)
    <3>1. lines' = Append(lines, new)
      BY <1>1, <2>6 DEF TR!Write
    <3>2. Typed(new) /\ new \in FileLine
      BY <2>1 DEF TR!Line, FileLine
    <3> HIDE DEF new, Typed
    <3>3. \A k \in 1..Len(lines) : lines[k].form = "whole"
      <4> SUFFICES ASSUME NEW k \in 1..Len(lines) PROVE lines[k].form = "whole"
        OBVIOUS
      <4>1. CASE k < Len(lines)
        BY <2>4, <4>1
      <4>2. CASE k = Len(lines)
        <5>1. lines # <<>>
          BY <4>2
        <5>2. TR!Last(lines) = lines[k]
          BY <4>2, Zenon DEF TR!Last
        <5> QED  BY <2>6, <5>1, <5>2
      <4>3. Len(lines) \in Nat
        BY <2>3
      <4>4. k < Len(lines) \/ k = Len(lines)
        BY <4>3
      <4> QED  BY <4>1, <4>2, <4>4
    <3>4. /\ Len(lines') = Len(lines) + 1 /\ lines'[Len(lines) + 1] = new
          /\ \A k \in 1..Len(lines) : lines'[k] = lines[k]
      BY <2>3, <3>1, <3>2, AppendProperties
    <3>5. \A k \in 1..Len(lines') : Typed(lines'[k]) /\ (k < Len(lines') => lines'[k].form = "whole")
      BY <2>3, <2>4, <3>2, <3>3, <3>4
    <3> QED  BY <2>2, <3>5 DEF TranscriptTypes, Typed
  <2> QED  BY <2>5, <2>6
<1>2. CASE TR!AppendMessage
  BY <1>1, <1>2 DEF TR!AppendMessage
<1>3. CASE TR!AppendFails
  BY <1>1, <1>3 DEF TR!AppendFails
<1>4. CASE UNCHANGED transcriptVars
  BY <1>4 DEF transcriptVars, TranscriptTypes
<1> QED  BY <1>2, <1>3, <1>4 DEF TR!Next

LEMMA TranscriptTypesShow == TranscriptInv /\ TranscriptTypes => TR!TypeOK
<1> SUFFICES ASSUME TranscriptInv, TranscriptTypes PROVE TR!TypeOK
  OBVIOUS
<1>1. DOMAIN lines = 1..Len(lines)
  BY LenProperties DEF TranscriptInv
<1> QED  BY <1>1 DEF TranscriptTypes, TR!TypeOK

---------------------------------------------------------------------------
(* perception/compaction.                                                  *)

VARIABLES turns, anchor, events, support
supporting == <<turns, anchor, events, support>>
SC == INSTANCE SupportCompaction

PromptView == [level : 0..3, shown : SUBSET Nat, listed : SUBSET Nat, anchored : SUBSET Nat,
               from : Nat]
SupportQuery == [at : {"idle", "agent", "append"}, view : PromptView, todo : Seq(SC!Turn)]

\* A view is as old as the turns were many when it was made, and turns are only appended.
ErrorsInv ==
  /\ turns \in Seq(SC!Turn) /\ anchor \subseteq Nat
  /\ support \in [SupportQueries -> SupportQuery]
  /\ \A q \in SupportQueries :
       /\ support[q].at = "append" => support[q].todo # <<>>
       /\ support[q].at = "agent" => support[q].view.from <= Len(turns)
  /\ SC!ErrorsStayVisible

LEMMA ErrorsStart == SC!Init => ErrorsInv
BY DEF SC!Init, ErrorsInv, SC!NoSupportQuery, SC!NoView, SupportQuery, PromptView,
       SC!ErrorsStayVisible

LEMMA SameCardinalityOfErrors == \A S : SC!Cardinality(S) = Cardinality(S)
BY DEF SC!Cardinality, Cardinality

LEMMA LevelIsKnown == SC!Level \in 0..3
BY DEF SC!Level

\* What each level leaves in sight or in the list.
LEMMA ErrorsHaveAPlace ==
  /\ SC!Level < 3 => SC!Errors(SC!Shown) = SC!Errors(SC!All)
  /\ \A i \in SC!Errors(SC!All) :
       i \in SC!Shown \cup (IF SC!Level = 3 THEN SC!Errors(SC!Old) \ SC!RecentErrors ELSE {})
  /\ SC!Shown \subseteq SC!All
<1> DEFINE E == SC!Errors(SC!Old)  R == SC!RecentErrors
<1>1. SC!All = SC!Old \cup SC!Recent /\ E \subseteq SC!Old /\ R \subseteq E
      /\ SC!Errors(SC!All) = E \cup SC!Errors(SC!Recent) /\ SC!Errors(SC!Recent) \subseteq SC!Recent
      /\ SC!Errors(E) = E
  BY DEF SC!Old, SC!Recent, SC!Errors, SC!RecentErrors
<1>2. \A S, T : SC!Errors(S \cup T) = SC!Errors(S) \cup SC!Errors(T)
  BY DEF SC!Errors
<1>3. CASE SC!Level \in {0, 1}
  <2>1. SC!Shown = SC!All
    BY <1>3 DEF SC!Shown
  <2> QED  BY <1>1, <1>3, <2>1 DEF SC!Errors
<1>4. CASE SC!Level = 2
  <2>1. SC!Shown = E \cup SC!Recent
    BY <1>4 DEF SC!Shown
  <2> QED  BY <1>1, <1>2, <1>4, <2>1
<1>5. CASE SC!Level = 3
  <2>1. SC!Shown = R \cup SC!Recent
    BY <1>5 DEF SC!Shown
  <2> QED  BY <1>1, <1>5, <2>1
<1> QED  BY <1>3, <1>4, <1>5, LevelIsKnown

\* The count of the third level is of disjoint sets, and theirs is the sum.
LEMMA ErrorsAreCounted ==
  ASSUME turns \in Seq(SC!Turn)
  PROVE  SC!Event.represented >= SC!Event.in
<1> DEFINE E == SC!Errors(SC!Old)  R == SC!RecentErrors  T == SC!Errors(SC!Recent)
           A == SC!Errors(SC!All)
<1>1. IsFiniteSet(A)
  <2>1. A \subseteq 1..Len(turns)
    BY DEF SC!Errors, SC!All
  <2>2. IsFiniteSet(1..Len(turns))
    BY FS_Interval
  <2> HIDE DEF A
  <2> QED  BY <2>1, <2>2, FS_Subset
<1>2. A = E \cup T /\ E \cap T = {} /\ R \subseteq E
  BY DEF SC!Old, SC!Recent, SC!Errors, SC!RecentErrors
<1> HIDE DEF E, T, R, A
<1>3. IsFiniteSet(E) /\ IsFiniteSet(T) /\ IsFiniteSet(R) /\ IsFiniteSet(E \ R)
  <2>1. E \subseteq A /\ T \subseteq A /\ R \subseteq A /\ E \ R \subseteq A
    BY <1>2
  <2> QED  BY <1>1, <2>1, FS_Subset
<1>4. /\ Cardinality(A) \in Nat /\ Cardinality(E) \in Nat /\ Cardinality(T) \in Nat
      /\ Cardinality(R) \in Nat /\ Cardinality(E \ R) \in Nat
  BY <1>1, <1>3, FS_CardinalityType
<1>5. Cardinality(A) = Cardinality(E) + Cardinality(T)
  <2>1. Cardinality(E \cup T) = Cardinality(E) + Cardinality(T) - Cardinality(E \cap T)
    BY <1>3, FS_Union
  <2>2. Cardinality(E \cap T) = 0
    BY <1>2, FS_EmptySet
  <2> QED  BY <1>2, <1>4, <2>1, <2>2
<1>6. Cardinality(E) = Cardinality(R) + Cardinality(E \ R)
  <2>1. E = R \cup (E \ R) /\ R \cap (E \ R) = {}
    BY <1>2
  <2>2. Cardinality(R \cup (E \ R)) = Cardinality(R) + Cardinality(E \ R) - Cardinality(R \cap (E \ R))
    BY <1>3, FS_Union
  <2>3. Cardinality(R \cap (E \ R)) = 0
    <3>1. R \cap (E \ R) = {}
      OBVIOUS
    <3> QED  BY <3>1, FS_EmptySet
  <2>4. Cardinality(R \cup (E \ R)) = Cardinality(E)
    BY <2>1, Zenon
  <2> QED  BY <1>4, <2>2, <2>3, <2>4
<1>7. SC!Event.in = Cardinality(A)
  BY SameCardinalityOfErrors DEF SC!Event, A
<1>8. CASE SC!Level < 3
  <2>1. SC!Event.represented = Cardinality(SC!Errors(SC!Shown))
    BY <1>8, SameCardinalityOfErrors DEF SC!Event
  <2> QED  BY <1>4, <1>7, <1>8, <2>1, ErrorsHaveAPlace DEF A
<1>9. CASE ~(SC!Level < 3)
  <2>1. SC!Event.represented = Cardinality(T) + Cardinality(R) + Cardinality(E \ R)
    BY <1>9, SameCardinalityOfErrors DEF SC!Event, E, R, T
  <2> QED  BY <1>4, <1>5, <1>6, <1>7, <2>1
<1> QED  BY <1>8, <1>9

LEMMA ViewKeepsErrors ==
  ASSUME ErrorsInv, NEW q \in SupportQueries, SC!BuildPromptView(q)
  PROVE  ErrorsInv'
<1> DEFINE listed == IF SC!Level = 3 THEN SC!Errors(SC!Old) \ SC!RecentErrors ELSE {}
<1>1. PICK told \in SUBSET (SC!Old \ SC!Errors(SC!Old)) :
        /\ anchor' = anchor \cup told
        /\ support' = [support EXCEPT ![q] = [at |-> "agent", todo |-> <<>>, view |->
             [level |-> SC!Level, shown |-> SC!Shown, from |-> Len(turns),
              anchored |-> anchor \cup told, listed |-> listed]]]
  BY DEF SC!BuildPromptView
<1>2. /\ turns' = turns
      /\ events' = IF SC!Level > 0 THEN events \cup {SC!Event} ELSE events
  BY DEF SC!BuildPromptView
<1>3. turns \in Seq(SC!Turn) /\ Len(turns) \in Nat /\ SC!All = 1..Len(turns)
  BY DEF ErrorsInv, SC!All
<1>4. anchor' \subseteq Nat /\ listed \subseteq Nat /\ SC!Shown \subseteq Nat
  <2>1. SC!Old \subseteq SC!All /\ SC!Shown \subseteq SC!All /\ SC!Errors(SC!Old) \subseteq SC!All
    BY ErrorsHaveAPlace DEF SC!Old, SC!Errors
  <2> QED  BY <1>1, <1>3, <2>1 DEF ErrorsInv
<1>5. \A i \in 1..Len(turns) : turns[i].error => i \in SC!Shown \cup listed
  BY <1>3, ErrorsHaveAPlace DEF SC!Errors
<1> DEFINE view == [level |-> SC!Level, shown |-> SC!Shown, from |-> Len(turns),
                    anchored |-> anchor \cup told, listed |-> listed]
           asked == [at |-> "agent", todo |-> <<>>, view |-> view]
<1> HIDE DEF listed
<1>6. view \in PromptView
  BY <1>1, <1>3, <1>4, LevelIsKnown DEF PromptView
<1>7. view.shown = SC!Shown /\ view.listed = listed /\ view.from = Len(turns)
  OBVIOUS
<1> HIDE DEF view
<1>8. asked \in SupportQuery /\ asked.at = "agent" /\ asked.view = view
  BY <1>6 DEF SupportQuery
<1>9. support' = [support EXCEPT ![q] = asked]
  BY <1>1 DEF view
<1> HIDE DEF asked
<1>10. /\ support' \in [SupportQueries -> SupportQuery] /\ support'[q] = asked
       /\ \A p \in SupportQueries \ {q} : support'[p] = support[p]
  BY <1>8, <1>9 DEF ErrorsInv
<1>11. \A p \in SupportQueries : support'[p].at = "agent" =>
         /\ support'[p].view.from <= Len(turns)
         /\ \A i \in 1..support'[p].view.from :
              turns[i].error => i \in support'[p].view.shown \cup support'[p].view.listed
  BY <1>3, <1>5, <1>7, <1>8, <1>10 DEF ErrorsInv, SC!ErrorsStayVisible
<1>12. \A e \in events' : e.represented >= e.in
  BY <1>2, <1>3, ErrorsAreCounted DEF ErrorsInv, SC!ErrorsStayVisible
<1>13. SC!ErrorsStayVisible'
  BY <1>2, <1>11, <1>12 DEF SC!ErrorsStayVisible
<1>14. \A p \in SupportQueries : support'[p].at = "append" => support'[p].todo # <<>>
  BY <1>8, <1>10 DEF ErrorsInv
<1> QED  BY <1>2, <1>3, <1>4, <1>10, <1>11, <1>13, <1>14 DEF ErrorsInv

\* A step of one query that keeps the turns or adds to them, and makes no view.
LEMMA ErrorsKept ==
  ASSUME ErrorsInv, NEW q \in SupportQueries, NEW s \in SupportQuery,
         support' = [support EXCEPT ![q] = s], s.at # "agent",
         s.at = "append" => s.todo # <<>>, anchor' = anchor, events' = events,
         turns' \in Seq(SC!Turn), Len(turns') >= Len(turns),
         \A i \in 1..Len(turns) : turns'[i] = turns[i]
  PROVE  ErrorsInv'
<1>1. /\ support' \in [SupportQueries -> SupportQuery] /\ support'[q] = s
      /\ \A p \in SupportQueries \ {q} : support'[p] = support[p]
  BY DEF ErrorsInv
<1>2. ASSUME NEW p \in SupportQueries, support'[p].at = "agent"
      PROVE  /\ support'[p].view.from <= Len(turns')
             /\ \A i \in 1..support'[p].view.from :
                  turns'[i].error => i \in support'[p].view.shown \cup support'[p].view.listed
  <2>1. p # q /\ support'[p] = support[p] /\ support[p] \in SupportQuery
    BY <1>1, <1>2 DEF ErrorsInv
  <2>2. support[p].view.from <= Len(turns) /\ support[p].view.from \in Nat
    BY <1>2, <2>1 DEF ErrorsInv, SupportQuery, PromptView
  <2>3. Len(turns) \in Nat /\ Len(turns') \in Nat
    BY DEF ErrorsInv
  <2>4. \A i \in 1..support[p].view.from : turns'[i] = turns[i]
    BY <2>2, <2>3
  <2>5. \A i \in 1..support[p].view.from :
          turns[i].error => i \in support[p].view.shown \cup support[p].view.listed
    BY <1>2, <2>1 DEF ErrorsInv, SC!ErrorsStayVisible
  <2> QED  BY <2>1, <2>2, <2>3, <2>4, <2>5
<1>3. SC!ErrorsStayVisible'
  BY <1>2 DEF ErrorsInv, SC!ErrorsStayVisible
<1>4. \A p \in SupportQueries : support'[p].at = "append" => support'[p].todo # <<>>
  BY <1>1 DEF ErrorsInv
<1> QED  BY <1>1, <1>2, <1>3, <1>4 DEF ErrorsInv

LEMMA ErrorsStep == ASSUME ErrorsInv, [SC!Next]_supporting PROVE ErrorsInv'
<1>1. ASSUME NEW q \in SupportQueries, SC!AgentAnswers(q)
      PROVE  ErrorsInv'
  <2> DEFINE message == [kind |-> "message", tokens |-> 1, error |-> FALSE]
  <2>1. PICK observed \in SC!SeqOf(SC!Turn \ {message}, 1) :
          support' = [support EXCEPT ![q].at = "append", ![q].todo = <<message>> \o observed \o <<message>>]
    BY <1>1 DEF SC!AgentAnswers
  <2>2. message \in SC!Turn /\ observed \in Seq(SC!Turn)
    <3>1. message \in SC!Turn
      BY DEF SC!Turn
    <3> HIDE DEF message
    <3>2. PICK m \in 0..1 : observed \in [1..m -> SC!Turn \ {message}]
      BY <2>1 DEF SC!SeqOf
    <3>3. m \in Nat /\ observed \in [1..m -> SC!Turn]
      BY <3>2
    <3> QED  BY <3>1, <3>3
  <2> HIDE DEF message
  <2> DEFINE todo == <<message>> \o observed \o <<message>>
             s == [support[q] EXCEPT !.at = "append", !.todo = todo]
  <2>3. todo \in Seq(SC!Turn) /\ todo # <<>>
    BY <2>2
  <2>4. s \in SupportQuery /\ s.at = "append" /\ s.todo = todo
    <3>1. support[q] \in SupportQuery
      BY DEF ErrorsInv
    <3> HIDE DEF todo
    <3> QED  BY <2>3, <3>1 DEF SupportQuery
  <2>5. support' = [support EXCEPT ![q] = s]
    BY <2>1 DEF ErrorsInv
  <2>6. turns' = turns /\ anchor' = anchor /\ events' = events
    BY <1>1 DEF SC!AgentAnswers
  <2>7. turns' \in Seq(SC!Turn) /\ Len(turns') >= Len(turns)
    BY <2>6 DEF ErrorsInv
  <2> HIDE DEF s, todo
  <2> QED  BY <2>3, <2>4, <2>5, <2>6, <2>7, ErrorsKept
<1>2. ASSUME NEW q \in SupportQueries, SC!AppendTurn(q)
      PROVE  ErrorsInv'
  <2> DEFINE todo == support[q].todo
  <2>1. /\ turns' = Append(turns, Head(todo)) /\ anchor' = anchor /\ events' = events
        /\ support[q].at = "append"
    BY <1>2 DEF SC!AppendTurn
  <2>2. todo \in Seq(SC!Turn) /\ todo # <<>> /\ support[q] \in SupportQuery
    BY <2>1 DEF ErrorsInv, SupportQuery
  <2> DEFINE s == IF Len(todo) = 1 THEN SC!NoSupportQuery ELSE [support[q] EXCEPT !.todo = Tail(todo)]
  <2>3. support' = [support EXCEPT ![q] = s]
    BY <1>2 DEF SC!AppendTurn
  <2> HIDE DEF todo
  <2>4. /\ Head(todo) \in SC!Turn /\ Tail(todo) \in Seq(SC!Turn)
        /\ Len(todo) # 1 => Tail(todo) # <<>>
    <3>1. /\ Head(todo) \in SC!Turn /\ Tail(todo) \in Seq(SC!Turn)
          /\ Len(Tail(todo)) = Len(todo) - 1 /\ Len(todo) \in Nat
      BY <2>2
    <3> QED  BY <3>1
  <2>5. turns' \in Seq(SC!Turn) /\ Len(turns') >= Len(turns)
        /\ \A i \in 1..Len(turns) : turns'[i] = turns[i]
    BY <2>1, <2>4 DEF ErrorsInv
  <2>6. s \in SupportQuery /\ s.at # "agent" /\ (s.at = "append" => s.todo # <<>>)
    <3>1. CASE Len(todo) = 1
      BY <3>1 DEF SC!NoSupportQuery, SC!NoView, SupportQuery, PromptView
    <3>2. CASE Len(todo) # 1
      <4>1. s = [support[q] EXCEPT !.todo = Tail(todo)]
        BY <2>2, <3>2 DEF todo, SupportQuery
      <4> QED  BY <2>1, <2>2, <2>4, <3>2, <4>1 DEF SupportQuery
    <3> QED  BY <3>1, <3>2
  <2> HIDE DEF s
  <2> QED  BY <2>1, <2>3, <2>5, <2>6, ErrorsKept
<1>3. ASSUME NEW q \in SupportQueries, SC!QueryFails(q)
      PROVE  ErrorsInv'
  <2>1. /\ turns' = turns /\ anchor' = anchor /\ events' = events
        /\ support' = [support EXCEPT ![q] = SC!NoSupportQuery]
    BY <1>3 DEF SC!QueryFails
  <2>2. SC!NoSupportQuery \in SupportQuery /\ SC!NoSupportQuery.at = "idle"
    BY DEF SC!NoSupportQuery, SC!NoView, SupportQuery, PromptView
  <2>3. turns' \in Seq(SC!Turn) /\ Len(turns') >= Len(turns)
    BY <2>1 DEF ErrorsInv
  <2> QED  BY <2>1, <2>2, <2>3, ErrorsKept
<1>4. CASE UNCHANGED supporting
  <2>1. turns' = turns /\ anchor' = anchor /\ events' = events /\ support' = support
    BY <1>4 DEF supporting
  <2> QED  BY <2>1 DEF ErrorsInv, SC!ErrorsStayVisible
<1> QED  BY <1>1, <1>2, <1>3, <1>4, ViewKeepsErrors DEF SC!Next

LEMMA ErrorsShow == ErrorsInv => SC!ErrorsStayVisible
BY DEF ErrorsInv

\* What is folded into the anchor are turns of the session.
AnchorOfTurns == anchor \subseteq 1..Len(turns)

LEMMA AnchorStart == SC!Init => AnchorOfTurns
BY DEF SC!Init, AnchorOfTurns

LEMMA AnchorStep ==
  ASSUME ErrorsInv, AnchorOfTurns, [SC!Next]_supporting PROVE AnchorOfTurns'
<1>1. turns \in Seq(SC!Turn) /\ Len(turns) \in Nat /\ DOMAIN turns = 1..Len(turns)
  BY LenProperties DEF ErrorsInv
<1>2. CASE UNCHANGED supporting
  BY <1>2 DEF supporting, AnchorOfTurns
<1>3. ASSUME NEW q \in SupportQueries, SC!BuildPromptView(q) PROVE AnchorOfTurns'
  <2>1. PICK told \in SUBSET (SC!Old \ SC!Errors(SC!Old)) : anchor' = anchor \cup told
    BY <1>3 DEF SC!BuildPromptView
  <2>2. turns' = turns
    BY <1>3 DEF SC!BuildPromptView
  <2>3. told \subseteq 1..Len(turns)
    BY <1>1, <2>1 DEF SC!Old, SC!All
  <2> QED  BY <2>1, <2>2, <2>3 DEF AnchorOfTurns
<1>4. ASSUME NEW q \in SupportQueries, SC!AppendTurn(q) PROVE AnchorOfTurns'
  <2>1. anchor' = anchor
    BY <1>4 DEF SC!AppendTurn
  <2>2. PICK more : turns' = Append(turns, more)
    BY <1>4 DEF SC!AppendTurn
  <2>3. Len(turns') = Len(turns) + 1
    <3>1. turns \in Seq(SC!Turn \cup {more}) /\ more \in SC!Turn \cup {more}
      BY <1>1
    <3> QED  BY <2>2, <3>1, AppendProperties
  <2> QED  BY <1>1, <2>1, <2>3 DEF AnchorOfTurns
<1>5. ASSUME NEW q \in SupportQueries, SC!AgentAnswers(q) \/ SC!QueryFails(q) PROVE AnchorOfTurns'
  BY <1>5 DEF SC!AgentAnswers, SC!QueryFails, AnchorOfTurns
<1> QED  BY <1>2, <1>3, <1>4, <1>5 DEF SC!Next

LEMMA ErrorsTypesShow == ErrorsInv /\ AnchorOfTurns => SC!TypeOK
<1> SUFFICES ASSUME ErrorsInv, AnchorOfTurns PROVE SC!TypeOK
  OBVIOUS
<1>1. turns \in Seq(SC!Turn) /\ DOMAIN turns = 1..Len(turns)
  BY LenProperties DEF ErrorsInv
<1> QED  BY <1>1 DEF AnchorOfTurns, SC!TypeOK, SC!All

---------------------------------------------------------------------------
(* reasoning/claude_native_thinking.                                       *)

VARIABLES thinking, kept, input, requests, recorded
trajectoryVars == <<thinking, kept, input, requests, recorded>>
TH == INSTANCE ThinkingTrajectory

OutputItem == [turn : Nat, kind : {"reasoning", "message", "user"}, encrypted : BOOLEAN]
Sealed(item) == item.kind = "reasoning" => item.encrypted = thinking
Spoken(outputs) == outputs # <<>> => outputs[Len(outputs)].kind = "message"

TrajectoryInv ==
  /\ thinking \in BOOLEAN /\ requests \in Nat /\ recorded \in Nat
  /\ kept \in Seq(OutputItem) /\ Spoken(kept)
  /\ \A i \in 1..Len(kept) :
       kept[i].turn = recorded /\ kept[i].kind # "user" /\ Sealed(kept[i])
  /\ TH!ResumesTheLastTurn

LEMMA TrajectoryStarts == TH!Init => TrajectoryInv
BY DEF TH!Init, TrajectoryInv, Spoken, TH!ResumesTheLastTurn

\* What Normalize leaves begins as the items do and does not end in reasoning.
LEMMA NormalizedItems ==
  ASSUME NEW outputs \in Seq(OutputItem)
  PROVE  LET n == TH!Normalize(outputs)
         IN  /\ n \in Seq(OutputItem) /\ Len(n) <= Len(outputs)
             /\ \A i \in 1..Len(n) : n[i] = outputs[i]
             /\ n # <<>> => n[Len(n)].kind # "reasoning"
<1> DEFINE speaking == {i \in DOMAIN outputs : ~TH!IsReasoning(outputs[i])}
           n == TH!Normalize(outputs)
<1>1. CASE speaking = {}
  <2>1. n = <<>>
    BY <1>1 DEF TH!Normalize
  <2> QED  BY <2>1
<1>2. CASE speaking # {}
  <2> DEFINE m == CHOOSE i \in speaking : \A j \in speaking : j <= i
  <2>1. Len(outputs) \in Nat /\ DOMAIN outputs = 1..Len(outputs)
    OBVIOUS
  <2>2. \E i \in speaking : \A j \in speaking : j <= i
    BY <1>2, <2>1, HasLargest
  <2>3. m \in speaking
    BY <2>2
  <2>4. n = SubSeq(outputs, 1, m)
    BY <1>2 DEF TH!Normalize
  <2>5. m \in 1..Len(outputs) /\ ~TH!IsReasoning(outputs[m])
    BY <2>1, <2>3
  <2> HIDE DEF m, n
  <2>6. \A i \in 1..m : outputs[i] \in OutputItem
    BY <2>1, <2>5
  <2>7. n \in Seq(OutputItem) /\ Len(n) = m /\ \A i \in 1..m : n[i] = outputs[i]
    <3>1. /\ SubSeq(outputs, 1, m) \in Seq(OutputItem)
          /\ Len(SubSeq(outputs, 1, m)) = IF 1 <= m THEN m - 1 + 1 ELSE 0
          /\ \A i \in 1..m - 1 + 1 : SubSeq(outputs, 1, m)[i] = outputs[1 + i - 1]
      BY <2>5, <2>6, SubSeqProperties
    <3> QED  BY <2>1, <2>4, <2>5, <3>1
  <2> QED  BY <2>1, <2>5, <2>7 DEF TH!IsReasoning, n
<1> QED  BY <1>1, <1>2

\* The next request: the normalized items of the last turn and the user's.
LEMMA InputResumes ==
  ASSUME TrajectoryInv, requests' = requests + 1, thinking' = thinking, input' = TH!NextInput
  PROVE  /\ input' # <<>> => TH!Last(input').kind = "user" /\ TH!Last(input').turn = requests'
         /\ \A i \in DOMAIN input' : TH!IsReasoning(input'[i]) =>
              /\ \E j \in DOMAIN input' : /\ j > i /\ input'[j].kind = "message"
                                          /\ input'[j].turn = input'[i].turn
              /\ input'[i].encrypted = thinking'
<1> DEFINE n == TH!Normalize(kept)  user == TH!Item("user")
<1>1. /\ n \in Seq(OutputItem) /\ Len(n) <= Len(kept) /\ \A i \in 1..Len(n) : n[i] = kept[i]
      /\ n # <<>> => n[Len(n)].kind # "reasoning"
  BY NormalizedItems DEF TrajectoryInv
<1>2. input' = Append(n, user)
  BY DEF TH!NextInput
<1>3. user.kind = "user" /\ user.turn = requests'
  BY DEF TH!Item
<1> HIDE DEF n, user
<1>4. /\ Len(n) \in Nat /\ Len(input') = Len(n) + 1 /\ DOMAIN input' = 1..Len(n) + 1
      /\ input'[Len(n) + 1] = user /\ \A i \in 1..Len(n) : input'[i] = n[i]
  BY <1>1, <1>2
<1>5. TH!Last(input') = user
  BY <1>4 DEF TH!Last
<1>6. ASSUME NEW i \in DOMAIN input', TH!IsReasoning(input'[i])
      PROVE  /\ \E j \in DOMAIN input' : /\ j > i /\ input'[j].kind = "message"
                                         /\ input'[j].turn = input'[i].turn
             /\ input'[i].encrypted = thinking'
  <2>1. i \in 1..Len(n)
    BY <1>3, <1>4, <1>6 DEF TH!IsReasoning
  <2>2. input'[i] = kept[i] /\ i \in 1..Len(kept) /\ kept[i].kind = "reasoning"
    BY <1>1, <1>4, <1>6, <2>1 DEF TH!IsReasoning, TrajectoryInv
  <2>3. kept[i].encrypted = thinking
    BY <2>2 DEF TrajectoryInv, Sealed
  <2>4. Len(n) \in 1..Len(kept) /\ n[Len(n)] = kept[Len(n)] /\ n # <<>>
    BY <1>1, <2>1 DEF TrajectoryInv
  <2>5. kept[Len(n)].turn = recorded /\ kept[Len(n)].kind # "user" /\ kept[i].turn = recorded
        /\ kept[Len(n)] \in OutputItem
    BY <2>2, <2>4 DEF TrajectoryInv
  <2>6. kept[Len(n)].kind = "message"
    BY <1>1, <2>4, <2>5 DEF OutputItem
  <2>7. Len(n) # i
    BY <2>2, <2>6
  <2>8. Len(n) > i /\ Len(n) \in DOMAIN input' /\ input'[Len(n)] = kept[Len(n)]
    BY <1>4, <2>1, <2>4, <2>7
  <2> QED  BY <2>2, <2>3, <2>5, <2>6, <2>8
<1> QED  BY <1>3, <1>5, <1>6

LEMMA TurnKeepsTrajectory == ASSUME TrajectoryInv, TH!RunTurn PROVE TrajectoryInv'
<1>1. requests' = requests + 1 /\ thinking' = thinking /\ input' = TH!NextInput
  BY DEF TH!RunTurn
<1>2. requests' \in Nat
  BY <1>1 DEF TrajectoryInv
<1>3. CASE kept' = kept /\ recorded' = recorded
  <2>1. \A i \in DOMAIN kept' : kept'[i].turn = recorded'
    BY <1>3 DEF TrajectoryInv, TH!ResumesTheLastTurn
  <2>2. TH!ResumesTheLastTurn'
    BY <1>1, <2>1, InputResumes DEF TH!ResumesTheLastTurn, TH!IsReasoning
  <2> QED  BY <1>1, <1>2, <1>3, <2>2 DEF TrajectoryInv, Spoken, Sealed
<1>4. ASSUME NEW kinds \in TH!BoundedSeq({"reasoning", "message"}, MaxOutput),
             kept' = TH!Normalize([i \in DOMAIN kinds |-> TH!Item(kinds[i])]),
             recorded' = requests'
      PROVE  TrajectoryInv'
  <2> DEFINE produced == [i \in DOMAIN kinds |-> TH!Item(kinds[i])]
  <2>1. PICK m \in 0..MaxOutput : kinds \in [1..m -> {"reasoning", "message"}]
    BY <1>4 DEF TH!BoundedSeq, TH!SeqOf
  <2>2. \A k \in {"reasoning", "message"} :
          /\ TH!Item(k) \in OutputItem /\ TH!Item(k).turn = requests' /\ TH!Item(k).kind = k
          /\ k = "reasoning" => TH!Item(k).encrypted = thinking
    BY <1>2 DEF TH!Item, OutputItem, TrajectoryInv
  <2>3. /\ produced \in Seq(OutputItem) /\ Len(produced) = m
        /\ \A i \in 1..Len(produced) : /\ produced[i].turn = requests' /\ produced[i].kind # "user"
                                     /\ Sealed(produced[i])
    BY <2>1, <2>2 DEF Sealed
  <2> HIDE DEF produced
  <2>4. /\ kept' \in Seq(OutputItem) /\ Len(kept') <= Len(produced)
        /\ \A i \in 1..Len(kept') : kept'[i] = produced[i]
        /\ kept' # <<>> => kept'[Len(kept')].kind # "reasoning"
    BY <1>4, <2>3, NormalizedItems DEF produced
  <2>5. \A i \in 1..Len(kept') : /\ kept'[i].turn = recorded' /\ kept'[i].kind # "user"
                                 /\ Sealed(kept'[i])
    BY <1>4, <2>1, <2>3, <2>4
  <2>6. Spoken(kept)'
    <3> SUFFICES ASSUME kept' # <<>> PROVE kept'[Len(kept')].kind = "message"
      BY DEF Spoken
    <3>1. Len(kept') \in 1..Len(kept')
      BY <2>4
    <3>2. kept'[Len(kept')] \in OutputItem /\ kept'[Len(kept')].kind \notin {"user", "reasoning"}
      BY <2>4, <2>5, <3>1
    <3> QED  BY <3>2 DEF OutputItem
  <2>7. \A i \in 1..Len(kept') : Sealed(kept[i])'
    BY <1>1, <2>5 DEF Sealed
  <2>8. TH!ResumesTheLastTurn'
    <3>1. \A i \in DOMAIN kept' : kept'[i].turn = recorded'
      BY <2>4, <2>5
    <3> QED  BY <1>1, <3>1, InputResumes DEF TH!ResumesTheLastTurn, TH!IsReasoning
  <2> QED  BY <1>1, <1>2, <1>4, <2>4, <2>5, <2>6, <2>7, <2>8 DEF TrajectoryInv
<1> QED  BY <1>3, <1>4 DEF TH!RunTurn

LEMMA TrajectorySteps == ASSUME TrajectoryInv, [TH!Next]_trajectoryVars PROVE TrajectoryInv'
<1>1. CASE TH!Reset
  <2>1. kept' = <<>> /\ recorded' = 0 /\ thinking' = thinking /\ input' = input
        /\ requests' = requests
    BY <1>1 DEF TH!Reset
  <2>2. TH!ResumesTheLastTurn'
    BY <2>1 DEF TrajectoryInv, TH!ResumesTheLastTurn, TH!IsReasoning
  <2> QED  BY <2>1, <2>2 DEF TrajectoryInv, Spoken
<1>2. CASE UNCHANGED trajectoryVars
  BY <1>2 DEF trajectoryVars, TrajectoryInv, Spoken, Sealed, TH!ResumesTheLastTurn,
              TH!IsReasoning, TH!Last
<1> QED  BY <1>1, <1>2, TurnKeepsTrajectory DEF TH!Next

LEMMA TrajectoryShows == TrajectoryInv => TH!ResumesTheLastTurn
BY DEF TrajectoryInv

TrajectoryTypes == Len(kept) <= MaxOutput /\ requests <= MaxRequests /\ recorded <= requests

LEMMA TrajectoryTypesStart == TH!Init => TrajectoryTypes
<1> SUFFICES ASSUME TH!Init PROVE TrajectoryTypes
  OBVIOUS
<1>1. kept = <<>> /\ requests = 0 /\ recorded = 0
  BY DEF TH!Init
<1>2. Len(kept) = 0
  BY <1>1
<1> QED  BY <1>1, <1>2, TrajectoryAssumption DEF TrajectoryTypes

LEMMA TrajectoryTypesStep ==
  ASSUME TrajectoryInv, TrajectoryTypes, [TH!Next]_trajectoryVars PROVE TrajectoryTypes'
<1>1. CASE TH!Reset
  <2>1. kept' = <<>> /\ recorded' = 0 /\ requests' = requests
    BY <1>1 DEF TH!Reset
  <2>2. Len(kept') = 0
    BY <2>1
  <2> QED  BY <2>1, <2>2, TrajectoryAssumption DEF TrajectoryTypes, TrajectoryInv
<1>2. CASE TH!RunTurn
  <2>1. requests < MaxRequests /\ requests' = requests + 1 /\ requests \in Nat /\ requests' \in Nat
        /\ thinking \in BOOLEAN
    BY <1>2 DEF TH!RunTurn, TrajectoryInv
  <2>2. CASE UNCHANGED <<kept, recorded>>
    BY <2>1, <2>2, TrajectoryAssumption DEF TrajectoryTypes, TrajectoryInv
  <2>3. ASSUME NEW kinds \in TH!BoundedSeq({"reasoning", "message"}, MaxOutput),
               kept' = TH!Normalize([i \in DOMAIN kinds |-> TH!Item(kinds[i])]),
               recorded' = requests'
        PROVE  TrajectoryTypes'
    <3> DEFINE produced == [i \in DOMAIN kinds |-> TH!Item(kinds[i])]
    <3>1. PICK m \in 0..MaxOutput : kinds \in [1..m -> {"reasoning", "message"}]
      BY <2>3 DEF TH!BoundedSeq, TH!SeqOf
    <3>2. \A k \in {"reasoning", "message"} : TH!Item(k) \in OutputItem
      BY <2>1 DEF TH!Item, OutputItem
    <3>3. produced \in Seq(OutputItem) /\ Len(produced) = m
      BY <3>1, <3>2
    <3> HIDE DEF produced
    <3>4. kept' \in Seq(OutputItem) /\ Len(kept') <= Len(produced)
      BY <2>3, <3>3, NormalizedItems DEF produced
    <3>5. Len(kept') \in Nat
      BY <3>4, LenProperties
    <3> QED  BY <2>1, <2>3, <3>1, <3>3, <3>4, <3>5, TrajectoryAssumption DEF TrajectoryTypes
  <2> QED  BY <1>2, <2>2, <2>3 DEF TH!RunTurn
<1>3. CASE UNCHANGED trajectoryVars
  BY <1>3 DEF trajectoryVars, TrajectoryTypes
<1> QED  BY <1>1, <1>2, <1>3 DEF TH!Next

LEMMA TrajectoryTypesShow == TrajectoryInv /\ TrajectoryTypes => TH!TypeOK
BY DEF TrajectoryInv, TrajectoryTypes, TH!TypeOK

---------------------------------------------------------------------------
(* reasoning/hypothesis.                                                   *)

VARIABLES hypotheses, order, active, evidence, round, ending, settled
hypothesisVars == <<hypotheses, order, active, evidence, round, ending, settled>>
HL == INSTANCE HypothesisLoop

Ordered == {order[i] : i \in 1..Len(order)}

\* What is still to be visited has not been judged.
VerdictsInv ==
  /\ order \in Seq(Explanations) /\ DOMAIN hypotheses = Explanations
  /\ \A e \in Explanations : hypotheses[e].status # "unknown" => e \in Ordered
  /\ active \subseteq Ordered /\ evidence \in Nat
  /\ evidence > 0 => active # {}
  /\ ending # HL!Running => active = {} /\ evidence = 0
  /\ \A s \in settled : /\ s.id \in Explanations \ active
                        /\ s.status \in {"confirmed", "falsified"}
  /\ HL!VerdictsStand

LEMMA VerdictsStart == HL!Init => VerdictsInv
<1> SUFFICES ASSUME HL!Init PROVE VerdictsInv
  OBVIOUS
<1>1. /\ hypotheses = [e \in Explanations |-> HL!Unknown] /\ order = <<>> /\ active = {}
      /\ evidence = 0 /\ ending = "running" /\ settled = {}
  BY DEF HL!Init, HL!Running
<1>2. \A e \in Explanations : hypotheses[e].status = "unknown"
  BY <1>1 DEF HL!Unknown
<1> QED  BY <1>1, <1>2 DEF VerdictsInv, HL!VerdictsStand

LEMMA SameCardinalityOfVerdicts == \A S : HL!Cardinality(S) = Cardinality(S)
BY DEF HL!Cardinality, Cardinality

\* Only what is in the tree survives: there are finitely many.
LEMMA SurvivorsAreFew == ASSUME VerdictsInv PROVE IsFiniteSet(HL!Survivors)
<1>1. order \in [1..Len(order) -> Ordered] /\ Len(order) \in Nat
  BY DEF VerdictsInv, Ordered
<1>2. order \in Surjection(1..Len(order), Ordered)
  BY <1>1 DEF Surjection, Ordered
<1>3. IsFiniteSet(Ordered)
  <2>1. IsFiniteSet(1..Len(order))
    BY <1>1, FS_Interval
  <2> QED  BY <1>2, <2>1, FS_Surjection
<1>4. HL!Survivors \subseteq Ordered
  BY DEF HL!Survivors, VerdictsInv
<1> QED  BY <1>3, <1>4, FS_Subset

LEMMA VisitedIsActive == ASSUME VerdictsInv, active # {} PROVE HL!Visited \in active
<1> DEFINE places == {i \in DOMAIN order : order[i] \in active}
<1>1. DOMAIN order = 1..Len(order)
  BY DEF VerdictsInv
<1>2. places \subseteq Nat /\ places # {}
  BY <1>1 DEF VerdictsInv, Ordered
<1>3. \E i \in places : \A j \in places : i <= j
  <2> HIDE DEF places
  <2>1. PICK i \in places : \A j \in places : ~(<<j, i>> \in OpToRel(<, Nat))
    BY Zenon, <1>2, NatLessThanWellFounded, WFMin
  <2>2. \A j \in places : ~(j < i)
    BY <1>2, <2>1 DEF OpToRel
  <2> QED  BY <1>2, <2>2
<1>4. (CHOOSE i \in places : \A j \in places : i <= j) \in places
  BY <1>3
<1> QED  BY <1>4 DEF HL!Visited

LEMMA JudgedIsSettled ==
  ASSUME VerdictsInv
  PROVE  \A s \in HL!Judged : /\ s.id \in Explanations /\ s.status \in {"confirmed", "falsified"}
                              /\ hypotheses[s.id].status = s.status
BY DEF HL!Judged

\* What a plan proposes is new to the tree.
LEMMA PlanAdds ==
  ASSUME VerdictsInv, HL!Plan
  PROVE  \E more \in SUBSET Explanations :
           /\ \A e \in more : hypotheses[e].status = "unknown" /\ hypotheses'[e].status = "proposed"
           /\ \A e \in Explanations \ more : hypotheses'[e] = hypotheses[e]
           /\ DOMAIN hypotheses' = Explanations /\ order' \in Seq(Explanations)
           /\ Ordered' = Ordered \cup more /\ HL!ToSet(order') = Ordered'
<1>1. PICK proposals \in HL!SeqOf({e \in Explanations : hypotheses[e] = HL!Unknown}, MaxHypotheses) :
        /\ order' = order \o proposals
        /\ \E prior : hypotheses' = [e \in Explanations |->
             IF e \notin HL!ToSet(proposals) THEN hypotheses[e]
             ELSE [HL!Unknown EXCEPT !.status = "proposed", !.posterior = prior[e]]]
  BY Zenon DEF HL!Plan
<1> DEFINE novel == {e \in Explanations : hypotheses[e] = HL!Unknown}
<1>3. proposals \in Seq(novel)
  <2>1. PICK m \in 0..MaxHypotheses : proposals \in [1..m -> novel]
    BY Zenon, <1>1 DEF HL!SeqOf
  <2>2. m \in Nat
    OBVIOUS
  <2> QED  BY <2>1, <2>2
<1>4. /\ HL!ToSet(proposals) \subseteq novel
      /\ HL!ToSet(proposals) = {proposals[i] : i \in 1..Len(proposals)}
  BY <1>3 DEF HL!ToSet
<1>5. order \in Seq(Explanations) /\ proposals \in Seq(Explanations)
  BY <1>3 DEF VerdictsInv
<1>6. \A e \in novel : hypotheses[e].status = "unknown"
  BY DEF HL!Unknown
<1> HIDE DEF novel
<1>7. /\ order' \in Seq(Explanations)
      /\ Ordered' = Ordered \cup HL!ToSet(proposals) /\ HL!ToSet(order') = Ordered'
  <2>1. /\ order' \in Seq(Explanations) /\ Len(order') = Len(order) + Len(proposals)
        /\ Len(order) \in Nat /\ Len(proposals) \in Nat /\ DOMAIN order' = 1..Len(order')
        /\ \A i \in 1..Len(order) : order'[i] = order[i]
        /\ \A i \in 1..Len(proposals) : order'[Len(order) + i] = proposals[i]
    <3> DEFINE all == order \o proposals
    <3>1. /\ all \in Seq(Explanations) /\ Len(all) = Len(order) + Len(proposals)
          /\ Len(order) \in Nat /\ Len(proposals) \in Nat
          /\ \A i \in 1..Len(all) : all[i] = IF i <= Len(order) THEN order[i]
                                            ELSE proposals[i - Len(order)]
      BY <1>5, ConcatProperties
    <3>2. order' = all
      BY Zenon, <1>1
    <3> HIDE DEF all
    <3>3. \A i \in 1..Len(order) : i \in 1..Len(all) /\ i <= Len(order)
      BY <3>1
    <3>4. \A i \in 1..Len(proposals) : /\ Len(order) + i \in 1..Len(all)
                                       /\ ~(Len(order) + i <= Len(order))
                                       /\ Len(order) + i - Len(order) = i
      BY <3>1
    <3> QED  BY <3>1, <3>2, <3>3, <3>4
  <2>2. ASSUME NEW i \in 1..Len(order') PROVE order'[i] \in Ordered \cup HL!ToSet(proposals)
    <3>1. CASE i \in 1..Len(order)
      BY <2>1, <3>1 DEF Ordered
    <3>2. CASE i \notin 1..Len(order)
      <4>1. i - Len(order) \in 1..Len(proposals) /\ Len(order) + (i - Len(order)) = i
        BY <2>1, <3>2
      <4> QED  BY <1>4, <2>1, <4>1
    <3> QED  BY <3>1, <3>2
  <2>3. Ordered \subseteq Ordered'
    BY <2>1 DEF Ordered
  <2>4. HL!ToSet(proposals) \subseteq Ordered'
    <3> SUFFICES ASSUME NEW i \in 1..Len(proposals) PROVE proposals[i] \in Ordered'
      BY <1>4
    <3>1. Len(order) + i \in 1..Len(order')
      BY <2>1
    <3> QED  BY <2>1, <3>1 DEF Ordered
  <2>5. HL!ToSet(order') = Ordered'
    BY <2>1 DEF HL!ToSet, Ordered
  <2> QED  BY <2>1, <2>2, <2>3, <2>4, <2>5 DEF Ordered
<1>8. HL!ToSet(proposals) \subseteq Explanations
  BY <1>4 DEF novel
<1>9. \A e \in HL!ToSet(proposals) : hypotheses'[e].status = "proposed"
  BY Zenon, <1>1, <1>8 DEF HL!Unknown
<1>10. /\ DOMAIN hypotheses' = Explanations
       /\ \A e \in Explanations \ HL!ToSet(proposals) : hypotheses'[e] = hypotheses[e]
  BY Zenon, <1>1
<1>11. \A e \in HL!ToSet(proposals) : hypotheses[e].status = "unknown"
  BY <1>4, <1>6
<1> QED  BY <1>7, <1>8, <1>9, <1>10, <1>11

LEMMA PlanKeepsVerdicts == ASSUME VerdictsInv, HL!Plan PROVE VerdictsInv'
<1>1. PICK more \in SUBSET Explanations :
        /\ \A e \in more : hypotheses[e].status = "unknown" /\ hypotheses'[e].status = "proposed"
        /\ \A e \in Explanations \ more : hypotheses'[e] = hypotheses[e]
        /\ DOMAIN hypotheses' = Explanations /\ order' \in Seq(Explanations)
        /\ Ordered' = Ordered \cup more /\ HL!ToSet(order') = Ordered'
  BY PlanAdds
<1>2. /\ ending = HL!Running /\ ending' = ending /\ evidence' = 0 /\ active' = HL!Active
      /\ settled' = settled \cup HL!Judged
  BY Zenon DEF HL!Plan
<1>9. \A s \in settled' : /\ s.id \in Explanations /\ s.status \in {"confirmed", "falsified"}
                          /\ hypotheses[s.id].status = s.status
  BY <1>2, JudgedIsSettled DEF VerdictsInv, HL!VerdictsStand
<1>10. \A s \in settled' : hypotheses'[s.id] = hypotheses[s.id]
  BY <1>1, <1>9
<1>11. active' = {e \in Ordered' : hypotheses'[e].status \notin {"falsified", "confirmed"}}
  BY <1>1, <1>2 DEF HL!Active
<1>12. \A s \in settled' : s.id \notin active'
  BY <1>9, <1>10, <1>11
<1>13. \A e \in Explanations : hypotheses'[e].status # "unknown" => e \in Ordered'
  BY <1>1 DEF VerdictsInv
<1>14. \A s \in settled' : hypotheses'[s.id].status = s.status
  BY <1>9, <1>10
<1>15. HL!VerdictsStand'
  BY <1>2, <1>14 DEF HL!VerdictsStand, HL!Running
<1> QED  BY <1>1, <1>2, <1>9, <1>11, <1>12, <1>13, <1>15 DEF VerdictsInv

LEMMA ConcludeKeepsVerdicts == ASSUME VerdictsInv, HL!Conclude PROVE VerdictsInv'
<1>1. /\ hypotheses' = hypotheses /\ order' = order /\ active' = active /\ evidence' = evidence
      /\ settled' = settled \cup HL!Judged /\ active = {}
      /\ ending' = IF HL!Converged THEN "converged"
           ELSE IF HL!Cardinality(HL!Survivors) = 1 THEN "standing" ELSE "human"
  BY DEF HL!Conclude, HL!RoundDone
<1>2. evidence = 0
  BY <1>1 DEF VerdictsInv
<1>3. \A s \in settled' : /\ s.id \in Explanations /\ s.status \in {"confirmed", "falsified"}
                          /\ hypotheses[s.id].status = s.status
  BY <1>1, JudgedIsSettled DEF VerdictsInv, HL!VerdictsStand
<1>4. HL!Survivors' = HL!Survivors /\ HL!Confirmed' = HL!Confirmed
  BY <1>1 DEF HL!Survivors, HL!Confirmed
<1>5. HL!Cardinality(HL!Survivors)' = HL!Cardinality(HL!Survivors)
  BY <1>4, SameCardinalityOfVerdicts
<1>6. HL!Converged => HL!Confirmed = HL!Survivors
  <2>1. HL!Confirmed \subseteq HL!Survivors
    BY DEF HL!Confirmed, HL!Survivors
  <2> QED  BY <2>1, SurvivorsAreFew, SameCardinalityOfVerdicts, FS_Subset DEF HL!Converged
<1>7. HL!VerdictsStand'
  BY <1>1, <1>3, <1>4, <1>5, <1>6 DEF HL!VerdictsStand, HL!Converged
<1> QED  BY <1>1, <1>2, <1>3, <1>7 DEF VerdictsInv, Ordered

LEMMA VerdictsStep == ASSUME VerdictsInv, [HL!Next]_hypothesisVars PROVE VerdictsInv'
<1>1. CASE HL!Gather
  <2>1. PICK gathered \in 0..MaxEvidence :
          /\ evidence' = gathered
          /\ active' = IF gathered = 0 THEN active \ {HL!Visited} ELSE active
    BY <1>1 DEF HL!Gather
  <2>2. /\ hypotheses' = hypotheses /\ order' = order /\ settled' = settled /\ ending' = ending
        /\ ending = HL!Running /\ active # {}
    BY <1>1 DEF HL!Gather
  <2>3. HL!VerdictsStand'
    BY <2>2 DEF VerdictsInv, HL!VerdictsStand, HL!Running
  <2>4. evidence' \in Nat /\ active' \subseteq active /\ (evidence' > 0 => active' # {})
    BY <2>1, <2>2
  <2> QED  BY <2>2, <2>3, <2>4 DEF VerdictsInv, Ordered
<1>2. CASE HL!Evaluate
  <2>1. PICK h :
          hypotheses' = [hypotheses EXCEPT ![HL!Visited] = h]
    BY <1>2 DEF HL!Evaluate
  <2>2. /\ evidence > 0 /\ evidence' = evidence - 1 /\ order' = order /\ settled' = settled
        /\ ending' = ending
        /\ active' = IF evidence = 1 THEN active \ {HL!Visited} ELSE active
    BY <1>2 DEF HL!Evaluate
  <2>3. active # {} /\ HL!Visited \in active /\ ending = "running"
    BY <2>2, VisitedIsActive DEF VerdictsInv, HL!Running
  <2>4. /\ DOMAIN hypotheses' = Explanations
        /\ \A e \in Explanations : e # HL!Visited => hypotheses'[e] = hypotheses[e]
    BY <2>1 DEF VerdictsInv
  <2>5. \A s \in settled : s.id \in Explanations /\ s.id # HL!Visited
    BY <2>3 DEF VerdictsInv
  <2>6. \A s \in settled' : hypotheses'[s.id].status = s.status
    BY <2>2, <2>4, <2>5 DEF VerdictsInv, HL!VerdictsStand
  <2>7. HL!VerdictsStand'
    BY <2>2, <2>3, <2>6 DEF HL!VerdictsStand
  <2>8. \A e \in Explanations : hypotheses'[e].status # "unknown" => e \in Ordered
    BY <2>3, <2>4 DEF VerdictsInv
  <2>9. evidence' \in Nat /\ active' \subseteq active /\ (evidence' > 0 => active' # {})
    BY <2>2, <2>3 DEF VerdictsInv
  <2> QED  BY <2>2, <2>3, <2>4, <2>7, <2>8, <2>9 DEF VerdictsInv, Ordered, HL!Running
<1>3. CASE HL!RoleFails
  <2>1. /\ hypotheses' = hypotheses /\ order' = order /\ settled' = settled /\ ending' = "failed"
        /\ active' = {} /\ evidence' = 0
    BY <1>3 DEF HL!RoleFails
  <2>2. HL!VerdictsStand'
    BY <2>1 DEF VerdictsInv, HL!VerdictsStand
  <2> QED  BY <2>1, <2>2 DEF VerdictsInv, Ordered
<1>4. CASE UNCHANGED hypothesisVars
  <2>1. /\ hypotheses' = hypotheses /\ order' = order /\ settled' = settled /\ ending' = ending
        /\ active' = active /\ evidence' = evidence
    BY <1>4 DEF hypothesisVars
  <2>2. HL!VerdictsStand'
    BY <2>1, SameCardinalityOfVerdicts DEF VerdictsInv, HL!VerdictsStand, HL!Survivors, HL!Confirmed
  <2> QED  BY <2>1, <2>2 DEF VerdictsInv, Ordered
<1> QED  BY <1>1, <1>2, <1>3, <1>4, PlanKeepsVerdicts, ConcludeKeepsVerdicts DEF HL!Next

LEMMA VerdictsShow == VerdictsInv => HL!VerdictsStand
BY DEF VerdictsInv

\* What is in the tree has been proposed, whatever has become of it.
HypothesisTypes ==
  /\ evidence <= MaxEvidence
  /\ \A e \in Explanations : /\ e \in Ordered => hypotheses[e].status # "unknown"
                             /\ e \notin Ordered => hypotheses[e] = HL!Unknown

LEMMA HypothesisTypesStart == HL!Init => HypothesisTypes
<1> SUFFICES ASSUME HL!Init PROVE HypothesisTypes
  OBVIOUS
<1>1. hypotheses = [e \in Explanations |-> HL!Unknown] /\ order = <<>> /\ evidence = 0
  BY DEF HL!Init
<1>2. Ordered = {}
  BY <1>1 DEF Ordered
<1> QED  BY <1>1, <1>2, EvidenceAssumption DEF HypothesisTypes

LEMMA HypothesisTypesStep ==
  ASSUME VerdictsInv, HypothesisTypes, [HL!Next]_hypothesisVars PROVE HypothesisTypes'
<1>1. /\ order \in Seq(Explanations) /\ DOMAIN hypotheses = Explanations /\ evidence \in Nat
      /\ evidence <= MaxEvidence /\ active \subseteq Ordered
      /\ \A e \in Explanations : /\ e \in Ordered => hypotheses[e].status # "unknown"
                                 /\ e \notin Ordered => hypotheses[e] = HL!Unknown
  BY DEF VerdictsInv, HypothesisTypes
<1>2. CASE HL!Plan
  <2>1. PICK more \in SUBSET Explanations :
          /\ \A e \in more : hypotheses[e].status = "unknown" /\ hypotheses'[e].status = "proposed"
          /\ \A e \in Explanations \ more : hypotheses'[e] = hypotheses[e]
          /\ DOMAIN hypotheses' = Explanations /\ order' \in Seq(Explanations)
          /\ Ordered' = Ordered \cup more /\ HL!ToSet(order') = Ordered'
    BY <1>2, PlanAdds
  <2>2. evidence' <= MaxEvidence
    <3>1. evidence' = 0
      BY <1>2, Zenon DEF HL!Plan
    <3> QED  BY <3>1, EvidenceAssumption
  <2>3. ASSUME NEW e \in Explanations
        PROVE  /\ e \in Ordered' => hypotheses'[e].status # "unknown"
               /\ e \notin Ordered' => hypotheses'[e] = HL!Unknown
    <3>1. CASE e \in more
      BY <2>1, <3>1
    <3>2. CASE e \notin more
      BY <1>1, <2>1, <3>2
    <3> QED  BY <3>1, <3>2
  <2> QED  BY <2>2, <2>3 DEF HypothesisTypes
<1>3. CASE HL!Gather
  <2>1. evidence' \in 0..MaxEvidence /\ UNCHANGED <<hypotheses, order>>
    BY <1>3 DEF HL!Gather
  <2>2. evidence' <= MaxEvidence /\ Ordered' = Ordered
    BY <2>1, EvidenceAssumption DEF Ordered
  <2> QED  BY <1>1, <2>1, <2>2 DEF HypothesisTypes
<1>4. CASE HL!Evaluate
  <2>1. PICK effect \in {"supports", "refutes", "neutral"}, delta \in -1..1 :
          hypotheses' = [hypotheses EXCEPT ![HL!Visited] = HL!RecordEvidence(@, effect, delta)]
    BY <1>4 DEF HL!Evaluate
  <2>2. evidence > 0 /\ evidence' = evidence - 1 /\ order' = order
    BY <1>4 DEF HL!Evaluate
  <2>3. HL!Visited \in active
    BY <2>2, VisitedIsActive DEF VerdictsInv
  <2> DEFINE v == HL!Visited
             h == HL!RecordEvidence(hypotheses[v], effect, delta)
  <2>4. v \in Ordered /\ hypotheses' = [hypotheses EXCEPT ![v] = h]
    BY <1>1, <2>1, <2>3
  <2>5. Ordered \subseteq Explanations
    BY <1>1 DEF Ordered
  <2>6. h.status # "unknown"
    <3>1. hypotheses[v].status # "unknown"
      BY <1>1, <2>4, <2>5
    <3> QED  BY <3>1, Zenon DEF HL!RecordEvidence
  <2> HIDE DEF h, v
  <2>7. evidence' <= MaxEvidence
    BY <1>1, <2>2, EvidenceAssumption
  <2>8. Ordered' = Ordered
    BY <2>2 DEF Ordered
  <2>9. \A e \in Explanations : hypotheses'[e] = IF e = v THEN h ELSE hypotheses[e]
    BY <1>1, <2>4
  <2> QED  BY <1>1, <2>4, <2>6, <2>7, <2>8, <2>9 DEF HypothesisTypes
<1>5. CASE HL!Conclude \/ HL!RoleFails \/ UNCHANGED hypothesisVars
  <2>1. UNCHANGED <<hypotheses, order>> /\ evidence' \in {evidence, 0}
    BY <1>5, Zenon DEF HL!Conclude, HL!RoleFails, hypothesisVars
  <2>2. evidence' <= MaxEvidence /\ Ordered' = Ordered
    BY <1>1, <2>1, EvidenceAssumption DEF Ordered
  <2> QED  BY <1>1, <2>1, <2>2 DEF HypothesisTypes
<1> QED  BY <1>2, <1>3, <1>4, <1>5 DEF HL!Next

LEMMA HypothesisTypesShow == VerdictsInv /\ HypothesisTypes => HL!TypeOK
<1> SUFFICES ASSUME VerdictsInv, HypothesisTypes PROVE HL!TypeOK
  OBVIOUS
<1>1. /\ order \in Seq(Explanations) /\ active \subseteq Ordered /\ evidence \in Nat
      /\ evidence <= MaxEvidence
      /\ \A e \in Explanations : /\ e \in Ordered => hypotheses[e].status # "unknown"
                                 /\ e \notin Ordered => hypotheses[e] = HL!Unknown
  BY DEF VerdictsInv, HypothesisTypes
<1>2. HL!ToSet(order) = Ordered /\ Ordered \subseteq Explanations
  BY <1>1 DEF HL!ToSet, Ordered
<1>3. evidence \in 0..MaxEvidence
  BY <1>1, EvidenceAssumption
<1>4. HL!Unknown.status = "unknown"
  BY DEF HL!Unknown
<1> QED  BY <1>1, <1>2, <1>3, <1>4 DEF HL!TypeOK
=============================================================================
