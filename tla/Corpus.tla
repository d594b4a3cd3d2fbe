-------------------------------- MODULE Corpus --------------------------------
(***************************************************************************)
(* The corpus on disk: the manifest that names source files                *)
(* (app/ingestion/manifest.py), the store an ingestion writes              *)
(* (app/ingestion/pipeline.py, app/ingestion/store.py), and the vector     *)
(* indexes built over it (app/retrieval/dense.py, windowed.py).            *)
(*                                                                         *)
(* A document has one chunk, named by the document's id as chunk ids are;  *)
(* what the chunk says is its source and the edition of the sources and of *)
(* the chunker it was made with, and a vector is the chunk it was made     *)
(* from.  Files are written in place: a process that dies leaves them cut  *)
(* after some lines, in the order of the ids, or unreadable, which counts  *)
(* as missing.                                                             *)
(***************************************************************************)
EXTENDS Naturals, Sequences, FiniteSets, FiniteSetsExt

CONSTANTS
    Sources,      \* source files
    MaxEditions,  \* bound on the editions
    MaxIngests,   \* bound on the ingestions
    MaxBuilds,    \* bound on the builds of an index
    None          \* no file

VARIABLES
    documents,   \* the manifest: its entries by id
    edition,     \* of the sources and the chunker
    docs,        \* documents.jsonl
    chunks,      \* chunks.jsonl
    vectors,     \* the index file
    meta,        \* its metadata: chunk ids and, in the end, a fingerprint
    writing,     \* what a running process still has to write
    tornBuild,   \* a build died behind its vectors, and none ended since
    ingests, builds

storeVars == <<docs, chunks>>
indexVars == <<vectors, meta, tornBuild>>
bounds == <<ingests, builds>>
vars == <<documents, edition, storeVars, indexVars, writing, bounds>>

Init ==
    /\ documents = <<>> /\ edition = 1
    /\ docs = None /\ chunks = None /\ vectors = None /\ meta = None
    /\ writing = <<>> /\ tornBuild = FALSE /\ ingests = 0 /\ builds = 0

-----------------------------------------------------------------------------
(***************************************************************************)
(* The manifest.  Its ids are numbers, so it is a sequence of entries as   *)
(* long as no id is skipped.                                               *)
(***************************************************************************)

Active == {id \in DOMAIN documents : ~documents[id].retired}

NextId == Max({0} \cup DOMAIN documents) + 1

\* add and save: a source that has an id keeps it.
Add(source) ==
    /\ \A id \in DOMAIN documents : documents[id].source # source
    /\ documents' = [id \in DOMAIN documents \cup {NextId} |->
                       IF id = NextId THEN [source |-> source, retired |-> FALSE]
                       ELSE documents[id]]
    /\ UNCHANGED <<edition, storeVars, indexVars, writing, bounds>>

Retire(id) ==
    /\ id \in Active
    /\ documents' = [documents EXCEPT ![id].retired = TRUE]
    /\ UNCHANGED <<edition, storeVars, indexVars, writing, bounds>>

\* A source or the chunker changes.
Revise ==
    /\ edition < MaxEditions /\ edition' = edition + 1
    /\ UNCHANGED <<documents, storeVars, indexVars, writing, bounds>>

-----------------------------------------------------------------------------
(***************************************************************************)
(* Ingestion: the first entries of the active ones that can be read.       *)
(***************************************************************************)

UpTo(S, n) == {x \in S : Cardinality({y \in S : y <= x}) <= n}

Ingest(limit, unreadable) ==
    LET ingested == UpTo(Active, limit) \ unreadable
    IN  /\ writing = <<>> /\ ingests < MaxIngests /\ ingested # {}
        /\ ingests' = ingests + 1
        /\ writing' = <<[file |-> "docs", of |-> ingested],
                        [file |-> "chunks", of |-> [id \in ingested |->
                            [source |-> documents[id].source, edition |-> edition]]]>>
        /\ UNCHANGED <<documents, edition, storeVars, indexVars, builds>>

\* ChunkStore.load: chunks of unknown documents are refused, not documents
\* without chunks.
Loads == docs # None /\ chunks # None /\ DOMAIN chunks \subseteq docs

\* corpus_fingerprint: a hash of all of them.
Fingerprint(ofChunks) == ofChunks

-----------------------------------------------------------------------------
(***************************************************************************)
(* WindowedDenseRetriever: build, save, load.                              *)
(***************************************************************************)

Build ==
    /\ writing = <<>> /\ builds < MaxBuilds /\ Loads /\ chunks # <<>>
    /\ builds' = builds + 1
    /\ writing' = <<[file |-> "vectors", of |-> chunks],
                    [file |-> "meta", of |-> [ids |-> DOMAIN chunks, corpus |-> None]],
                    [file |-> "meta", of |-> [ids |-> DOMAIN chunks,
                                              corpus |-> Fingerprint(chunks)]]>>
    /\ UNCHANGED <<documents, edition, storeVars, indexVars, ingests>>

\* Position by position the vectors are named by the ids of the metadata.
SameLength == Cardinality(DOMAIN vectors) = Cardinality(meta.ids)

\* DenseRetriever.load
DenseLoads ==
    /\ Loads /\ vectors # None /\ meta # None
    /\ SameLength /\ meta.ids \subseteq DOMAIN chunks

\* Mutant: what DenseRetriever checks is enough.
WindowsLoadByIds == DenseLoads

WindowsLoad == DenseLoads /\ meta.corpus = Fingerprint(chunks)

-----------------------------------------------------------------------------
(***************************************************************************)
(* Writes.                                                                 *)
(***************************************************************************)

Put(file, content) ==
    /\ docs' = IF file = "docs" THEN content ELSE docs
    /\ chunks' = IF file = "chunks" THEN content ELSE chunks
    /\ vectors' = IF file = "vectors" THEN content ELSE vectors
    /\ meta' = IF file = "meta" THEN content ELSE meta

Write ==
    /\ writing # <<>>
    /\ Put(Head(writing).file, Head(writing).of)
    /\ writing' = Tail(writing)
    /\ tornBuild' = (tornBuild /\ ~(Head(writing).file = "meta" /\ Tail(writing) = <<>>))
    /\ UNCHANGED <<documents, edition, bounds>>

\* What is left of a file whose writing did not end.
Remains(w) ==
    CASE w.file = "docs" -> {UpTo(w.of, n) : n \in 0 .. Cardinality(w.of)}
      [] w.file = "chunks" -> {[id \in UpTo(DOMAIN w.of, n) |-> w.of[id]] :
                                 n \in 0 .. Cardinality(DOMAIN w.of)}
      [] OTHER -> {None}

Dies ==
    /\ writing # <<>>
    /\ \E kept \in Remains(Head(writing)) \cup {None} :
         \/ Put(Head(writing).file, kept)
         \/ UNCHANGED <<docs, chunks, vectors, meta>>
    /\ tornBuild' = (tornBuild \/ Head(writing).file = "meta")
    /\ writing' = <<>>
    /\ UNCHANGED <<documents, edition, bounds>>

Next ==
    \/ \E source \in Sources : Add(source)
    \/ \E id \in DOMAIN documents : Retire(id)
    \/ Revise
    \/ \E n \in 1 .. Cardinality(Sources), bad \in SUBSET DOMAIN documents : Ingest(n, bad)
    \/ Build \/ Write \/ Dies

Spec == Init /\ [][Next]_vars

-----------------------------------------------------------------------------
(***************************************************************************)
(* Properties.                                                             *)
(***************************************************************************)

\* Whatever was registered, retired, revised, ingested again or left behind by
\* a dead process between, chunks that load under a window index are of the
\* sources the manifest names by their ids, and its vectors were made from
\* exactly these chunks.  The second does not hold of a build that died behind
\* its vectors, until another ends: if its old metadata names a corpus that is
\* ingested again, the new vectors load with it.
WhatLoadsIsCurrent ==
    WindowsLoad =>
      /\ vectors = chunks \/ tornBuild
      /\ \A id \in DOMAIN chunks :
           id \in DOMAIN documents /\ documents[id].source = chunks[id].source

===============================================================================
