----------------------------- MODULE ConceptIndex -----------------------------
(***************************************************************************)
(* The work on a document that waits for a language model: the             *)
(* finalization of an upload (routers/documents.py 110-168) and the        *)
(* reindex run (468-607), with the edges and the vocabulary that they      *)
(* write to the graph.  Both hold what they read when they began, while    *)
(* documents are moved and deleted by the requests of DocumentStore.       *)
(***************************************************************************)
EXTENDS DocumentStore, FiniteSets

VARIABLES
  finalizing,     \* background finalizations of uploads
  listed,         \* _active_uploads: documents shown as in progress
  edge,           \* the graph: <<document, chunk id, chunk whose concepts these are>>
  vocabulary,     \* concept_scope: <<document of the concept, scope>>
  reindex,        \* the user's entry in _reindex_runs
  (* what an observer has seen *)
  homes,          \* <<document, scope it has been in>>
  migrated,       \* has the vocabulary been migrated?
  uncounted,      \* chunks that the count before the run could not read
  unread          \* chunks that the run itself could not read

seenVars == <<homes, migrated, uncounted, unread>>
indexVars == <<finalizing, listed, edge, vocabulary, reindex, seenVars>>
vars == <<storeVars, indexVars>>

-----------------------------------------------------------------------------
NoFinal == [stage |-> "none", scope |-> None]
Final == [stage: {"none", "scheduled", "summarizing", "extracting"}, scope: Scopes \cup {None}]

(* left holds the documents of the run that are not done, with the scope   *)
(* they had when it was asked for; ids the chunks read for the current one. *)
Reindex ==
  [status: {"none", "scheduled", "running", "completed", "failed"},
   left: [Docs -> Scopes \cup {None}], current: Docs \cup {None}, ids: SUBSET Chunks,
   done: Nat, total: Nat]
NoReindex ==
  [status |-> "none", left |-> [d \in Docs |-> None], current |-> None, ids |-> {},
   done |-> 0, total |-> 0]

(* Ids number the chunks that were embedded. *)
IdOf(n, kept) == Cardinality({m \in kept : m < n})

IndexTypeOK ==
  /\ StoreTypeOK
  /\ finalizing \in [Docs -> Final]
  /\ listed \subseteq Docs
  /\ edge \subseteq Docs \X (0 .. NumChunks) \X Chunks
  /\ vocabulary \subseteq Docs \X Scopes
  /\ reindex \in Reindex
  /\ uncounted \in Nat /\ unread \in Nat

Init ==
  /\ StoreInit
  /\ finalizing = [d \in Docs |-> NoFinal]
  /\ listed = {}
  /\ edge = {}
  /\ vocabulary = {}
  /\ reindex = NoReindex
  /\ homes = {}
  /\ migrated = FALSE
  /\ uncounted = 0
  /\ unread = 0

-----------------------------------------------------------------------------
(* Uploads.                                                                *)

Upload(d) ==
  /\ UploadDoc(d)
  /\ listed' = listed \cup {d}
  /\ UNCHANGED <<finalizing, edge, vocabulary, reindex, seenVars>>

(* Mutant: a deferred upload stays listed. *)
ScheduledListed(d) ==
  \/ /\ ingest[d].kind = "upload"
     /\ finalizing' = [finalizing EXCEPT ![d] = [stage |-> "scheduled", scope |-> ingest[d].scope]]
     /\ UNCHANGED listed
  \/ UNCHANGED <<finalizing, listed>>

(* An upload is finalized in the background unless the request defers it;  *)
(* the copy of a document is not.                                          *)
Scheduled(d) ==
  \/ /\ ingest[d].kind = "upload"
     /\ finalizing' = [finalizing EXCEPT ![d] = [stage |-> "scheduled", scope |-> ingest[d].scope]]
     /\ UNCHANGED listed
  \/ /\ UNCHANGED finalizing
     /\ listed' = listed \ {d}

IngestReturns(d) ==
  /\ EmbeddingReturns(d)
  /\ Scheduled(d)
  /\ homes' = homes \cup {<<d, ingest[d].scope>>}
  /\ UNCHANGED <<edge, vocabulary, reindex, migrated, uncounted, unread>>

IngestRaises(d) ==
  /\ IngestFails(d)
  /\ listed' = listed \ {d}
  /\ UNCHANGED <<finalizing, edge, vocabulary, reindex, seenVars>>

-----------------------------------------------------------------------------
(* Finalization.                                                           *)

(* index_chunk_concepts for the chunks whose extraction found something,   *)
(* under the ids they are given.                                           *)
Linked(d, links, scope) ==
  /\ edge' = edge \cup links
  /\ vocabulary' = IF links = {} THEN vocabulary ELSE vocabulary \cup {<<d, scope>>}

Finalizing(d, from, to) ==
  /\ finalizing[d].stage = from
  /\ finalizing' = [finalizing EXCEPT ![d].stage = to]

StartFinalizing(d) ==
  /\ Finalizing(d, "scheduled", "summarizing")
  /\ UNCHANGED <<listed, edge, vocabulary, reindex, seenVars>>

SummaryReturns(d) ==
  /\ Finalizing(d, "summarizing", "extracting")
  /\ UNCHANGED <<listed, edge, vocabulary, reindex, seenVars>>

(* The text is chunked again, and every chunk is given an id, the ones     *)
(* that were not embedded too.                                             *)
Renumbered(d, found) == {<<d, n - 1, n>> : n \in found}

(* An extraction that fails finds nothing. *)
ExtractionReturns(d) ==
  /\ finalizing[d].stage = "extracting"
  /\ finalizing' = [finalizing EXCEPT ![d] = NoFinal]
  /\ listed' = listed \ {d}
  /\ \E found \in SUBSET Chunks :
       Linked(d, Renumbered(d, found), finalizing[d].scope)
  /\ UNCHANGED <<reindex, seenVars>>

-----------------------------------------------------------------------------
(* Reindexing.                                                             *)

ChunksOf(docs) == {c \in docs \X Chunks : c[2] \in vector[c[1]].kept}

(* The chunks are counted document by document; get_doc_chunks answers with *)
(* none when the vector store fails.  A second request while a run is under *)
(* way starts nothing.                                                      *)
BeginReindex ==
  /\ reindex.status \notin {"scheduled", "running"}
  /\ \E within \in {None} \cup Clients \cup Projects :
       LET docs == {d \in Docs : Present(d) /\ within \in {None, row[d].scope}} IN
       \E failed \in SUBSET docs :
         /\ reindex' = [NoReindex EXCEPT
                          !.status = "scheduled",
                          !.left = [d \in Docs |-> IF d \in docs THEN row[d].scope ELSE None],
                          !.total = Cardinality(ChunksOf(docs \ failed))]
         /\ uncounted' = Cardinality(ChunksOf(failed))
         /\ failed # {} => faults + uncounted' <= MaxFaults
  /\ unread' = 0
  /\ UNCHANGED <<finalizing, listed, edge, vocabulary, homes, migrated>>

(* Mutant: a chunk whose extraction failed is not counted. *)
AdvancedByFound(left, found) ==
  [reindex EXCEPT !.left = left, !.done = @ + Cardinality(found)]

(* Every chunk of the current document is counted, whether or not its      *)
(* extraction found something.                                             *)
Advanced(left, found) ==
  [reindex EXCEPT !.left = left, !.done = @ + Cardinality(reindex.ids)]

(* The chunks of the next document are read, or the read fails and gives none. *)
Reads(run, d) ==
  \E ids \in {vector[d].kept, {}} :
    /\ reindex' = [run EXCEPT !.status = "running", !.current = d, !.ids = ids]
    /\ unread' = unread + Cardinality(vector[d].kept \ ids)
    /\ ids # vector[d].kept => faults + uncounted + unread' <= MaxFaults

(* Mutant: the document just done is not taken off. *)
GoesOnAgain(run) ==
  \E d \in Docs : reindex.left[d] # None /\ Reads(run, d)

(* The run goes on to the next document, or ends. *)
GoesOn(run) ==
  LET left == {d \in Docs : run.left[d] # None} IN
  \/ /\ left = {}
     /\ reindex' = [run EXCEPT !.status = "completed", !.current = None, !.ids = {}]
     /\ UNCHANGED unread
  \/ \E d \in left : Reads(run, d)

StartReindex ==
  /\ reindex.status = "scheduled"
  /\ GoesOn(reindex)
  /\ UNCHANGED <<finalizing, listed, edge, vocabulary, homes, migrated, uncounted>>

(* The chunks read, under the ids they have in the store. *)
Numbered(d, found) == {<<d, IdOf(n, reindex.ids), n>> : n \in found}

(* Mutant: concepts are recorded for everybody. *)
ReindexedGlobally(d, found) == Linked(d, Numbered(d, found), Global)

Reindexed(d, found) == Linked(d, Numbered(d, found), reindex.left[d])

ReindexReturns ==
  /\ reindex.status = "running"
  /\ \E found \in SUBSET reindex.ids :
       /\ Reindexed(reindex.current, found)
       /\ GoesOn(Advanced([reindex.left EXCEPT ![reindex.current] = None], found))
  /\ UNCHANGED <<finalizing, listed, homes, migrated, uncounted>>

(* What the run holds goes with it; its entry keeps the counts. *)
ReindexRaises ==
  /\ reindex.status \in {"scheduled", "running"}
  /\ reindex' = [NoReindex EXCEPT !.status = "failed", !.done = reindex.done, !.total = reindex.total]
  /\ UNCHANGED <<finalizing, listed, edge, vocabulary, seenVars>>

-----------------------------------------------------------------------------
(* The vocabulary of a scope came later than the concepts: an endpoint      *)
(* records every concept of the graph as global.                            *)
Everybodys == {<<e[1], Global>> : e \in edge}

MigrateVocabulary ==
  /\ vocabulary' = vocabulary \cup Everybodys
  /\ migrated' = TRUE
  /\ UNCHANGED <<finalizing, listed, edge, reindex, homes, uncounted, unread>>

-----------------------------------------------------------------------------
IndexStep ==
  \/ \E d \in Docs : StartFinalizing(d) \/ SummaryReturns(d) \/ ExtractionReturns(d)
  \/ BeginReindex
  \/ StartReindex
  \/ ReindexReturns
  \/ ReindexRaises
  \/ MigrateVocabulary

Moved(d) == Present(d) /\ row'[d].state = "present" /\ row'[d].scope # row[d].scope

Rehomed == homes' = homes \cup {<<d, row'[d].scope>> : d \in {e \in Docs : Moved(e)}}

Request ==
  /\ StoreRequest
  /\ Rehomed
  /\ UNCHANGED <<finalizing, listed, edge, vocabulary, reindex, migrated, uncounted, unread>>

(* The links are written one by one, each before the scope of its concept. *)
LinkingCutOff(d, links, scope) ==
  \E part \in SUBSET links :
    \/ Linked(d, part, scope)
    \/ edge' = edge \cup part /\ UNCHANGED vocabulary

(* What a crash leaves of a finalization, a reindexing or a migration that *)
(* is writing to the graph.                                                *)
IndexingCutOff ==
  \/ /\ \/ \E d \in Docs : /\ finalizing[d].stage = "extracting"
                             /\ LinkingCutOff(d, Renumbered(d, Chunks), finalizing[d].scope)
        \/ /\ reindex.status = "running"
           /\ LinkingCutOff(reindex.current, Numbered(reindex.current, reindex.ids),
                            reindex.left[reindex.current])
     /\ UNCHANGED migrated
  \/ /\ \E part \in SUBSET Everybodys : vocabulary' = vocabulary \cup part
     /\ migrated' = TRUE
     /\ UNCHANGED edge

CrashInMemory ==
  /\ \/ CrashAnywhere /\ UNCHANGED <<edge, vocabulary, migrated>>
     \/ Crash /\ IndexingCutOff
  /\ finalizing' = [d \in Docs |-> NoFinal]
  /\ listed' = {}
  /\ reindex' = NoReindex
  /\ Rehomed
  /\ uncounted' = 0 /\ unread' = 0

Next ==
  \/ \E d \in Docs : Upload(d) \/ IngestReturns(d) \/ IngestRaises(d)
  \/ IndexStep /\ UNCHANGED storeVars
  \/ Request
  \/ CrashInMemory

Spec == Init /\ [][Next]_vars

-----------------------------------------------------------------------------
(* Properties.                                                             *)

(* The dashboard lists the uploads that are being embedded or finalized, and *)
(* no others, although five ways lead off the list.                          *)
ListedIsInProgress ==
  listed = {d \in Docs : ingest[d].kind = "upload" \/ finalizing[d].stage # "none"}

(* A run never counts more chunks than it announced, and one that completes  *)
(* has counted all of them unless a document went away meanwhile: chunks are *)
(* counted before the run and read again, document by document, in it.  The  *)
(* progress shown is off by the chunks of the reads that failed, and by no   *)
(* others: above 100% for those of the count, short for those of the run.    *)
Remaining == {d \in Docs : reindex.left[d] # None}
ReindexProgress ==
  /\ reindex.done + unread <= reindex.total + uncounted
  /\ reindex.status = "completed" /\ reindex.done + unread # reindex.total + uncounted
       => \E d \in Docs : row[d].state = "deleted"
  /\ reindex.status = "completed" => Remaining = {}

(* The vocabulary of a scope has concepts of documents only that have been   *)
(* in that scope, over moves while a finalization or a run is under way; the *)
(* migration adds to the global one.                                         *)
VocabularyStaysHome ==
  \A use \in vocabulary \ homes : migrated /\ use[2] = Global

-----------------------------------------------------------------------------
(* The inductive invariant behind these properties.                        *)

(* Only a document without a row is being ingested, and what is finalized  *)
(* or reindexed has had a row.                                             *)
DocumentsSettle ==
  /\ IsFiniteSet({d \in Docs : row[d].state # "absent"})
  /\ \A d \in Docs : row[d].state = "absent" \/ ingest[d].kind = "none"
  /\ \A d \in Docs : finalizing[d].stage # "none" \/ reindex.left[d] # None =>
       row[d].state # "absent"

(* Every scope that is held anywhere has been a home of its document.      *)
HomesAreKnown ==
  /\ homes \subseteq Docs \X Scopes
  /\ \A d \in Docs :
       /\ Present(d) => <<d, row[d].scope>> \in homes
       /\ finalizing[d].stage # "none" => <<d, finalizing[d].scope>> \in homes
       /\ reindex.left[d] # None => <<d, reindex.left[d]>> \in homes

(* The chunks counted, those of the current document, and those of the     *)
(* documents to come are the chunks announced, but for a deleted document  *)
(* and the reads that failed.                                              *)
ToCome == IF reindex.status = "running" THEN Remaining \ {reindex.current} ELSE Remaining
Accounted == reindex.done + Cardinality(reindex.ids) + Cardinality(ChunksOf(ToCome))
ReindexAddsUp ==
  /\ reindex.status = "scheduled" => reindex.ids = {}
  /\ reindex.status = "running" => reindex.current \in Remaining
  /\ reindex.status \in {"scheduled", "running"} =>
       /\ Accounted + unread <= reindex.total + uncounted
       /\ Accounted + unread # reindex.total + uncounted => \E d \in Docs : row[d].state = "deleted"

IndexIndInv ==
  /\ IndexTypeOK /\ ListedIsInProgress /\ ReindexProgress /\ VocabularyStaysHome
  /\ DocumentsSettle /\ HomesAreKnown /\ ReindexAddsUp
=============================================================================
