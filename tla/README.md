# Specifications of LanceLLMot

LanceLLMot is a local document assistant: a FastAPI service over SQLite, a
Chroma vector store and local language models, with queues for work that leaves
the machine. This directory holds TLA+ modules that model parts of it, TLC
configurations that check them on small instances, and theorems that TLAPS
checks for every value of the constants. Paths below are relative to the
repository, `routers/` and the like to `api/`.

## The system

The service is **one asyncio process**. A handler or background task runs
without interruption from one `await` to the next; `db.lock` guards single
SQLite calls in autocommit mode. So components interleave only

- where a coroutine awaits: an HTTP call to a model, a provider or a vendor's
  site, a sleep, a future;
- between a response and the background task it scheduled;
- at a crash: SQLite, Chroma and files survive; tasks, futures and sets in
  memory do not. `startup` (`app.py` 96-130) runs migrations and restarts no work.

No transaction spans two writes. While the process lives nobody sees what is
between two writes without an `await`; a crash, or an exception at the second, does
leave it. So the models have one action for each stretch between two awaits, with
its failures as disjuncts, and every crash may also cut off one such stretch behind
any of its writes (one, for the process does one thing at a time). One statement of
SQLite, one call of Chroma and the writing of one file are done or not done.

| Component | State | Operations | Interacts with |
|---|---|---|---|
| Escalation queue (`routers/escalation.py`) | rows of `escalation_queue`, background runs | add, approve, reject, retry, delete; run: cache lookup, cloud call, store | answer cache, cloud provider, embeddings; called by the acquisition queue |
| Answer cache (`rag.py` 632-694) | Chroma collection, bounded, oldest evicted | search, store | escalation runs |
| Acquisition queue (`routers/acquisition.py`) | rows of `acquisition_queue`, background scrapes | add, approve, reject, retry, delete; scrape | scrapers, library, escalation queue |
| Technical library (`routers/tech_library.py`) | rows of `library_items`, files under `LIBRARY_PATH` | upload, register, delete | scrapers, M-Files indexer |
| Scrapers (`scrapers/`) | a rate-limit table | find and download a product's files | library table and files |
| Batch extraction (`extractor.py`) | per call: workers, futures, pending jobs, miss counts | submit, poll, resolve, gather | merLLM, ingest |
| Ingest and retrieval (`routers/documents.py`, `rag.py`) | rows of `documents`, vectors, spool files | upload, patch, attach, delete, reindex, search | extraction, graph |
| Concept graph (`graph.py`) | nodes, edges, concept scopes | index, query, delete | ingest, chat |
| Agent turns (`routers/agent.py`, `agent_client.py`) | rows of `agent_sessions` and `agent_turns`, the dict `_active_runs` | turn, stop | hermes, the agent service; conversations |
| Chat (`routers/chat.py`, `conversations.py`) | conversations, messages | chat, create, rename, delete | retrieval, graph, models |
| M-Files indexer (`connectors/mfiles_indexer.py`, `mfiles.py`) | the flag `_active`, subscribed queues, library rows and files | index the vault | the vault, library, ingest |
| Connections (`routers/connections.py`) | rows of `connections` | save, enable, disable, start an index run, watch it | M-Files indexer |
| Chunker (`chunker.py`) | none | split a text | ingest, concept indexing, attachment |
| Workspace, MCP, health, front end | rows, or none | single-statement edits, dispatch, display | everything above |

What is hard about it, and what makes each component correct:

- **Escalation.** Client documents must not leave the machine without a user's
  approval, over retries, restarts and `AUTO_ESCALATE`; runs must not share a
  row; an answer must be the provider's although it may come from a cache that
  matches by similarity; a run that fails must leave a row that can be retried.
- **Acquisition and library.** No web request without an approval; an empty
  scrape turns into an escalation, which may be approved by a setting; scrapes of
  one product run side by side on rows and files that no transaction spans.
- **Batch extraction.** Submissions, polls and results in any order; jobs that
  fail, vanish or are left out of a reply; the shared poller must not die or be
  stopped while somebody waits.
- **Ingest and graph.** Four stores (row, vectors, graph, file) and no
  transaction over them: ids, scopes and deletions must agree, and what a chat
  retrieves must be within its scopes. Finalization and reindexing hold what they
  read while documents move and go.
- **Agent and chat.** A turn awaits a service or streams for minutes; other turns
  of the conversation, renames and its deletion run meanwhile, and the browser may
  close at an `await`, where the code sees a `CancelledError`, or at a `yield`, where
  it sees a `GeneratorExit`. A turn must be saved whole, once and behind what
  is there; a stop must find its run; a conversation must keep its session.
- **M-Files indexer.** A flag tested in the request and again in the task; pages of
  a vault that changes; a row inserted before its ingest; events that somebody waits for.
- **Chunker.** Limits, overlaps and anchors of neighbours that are merged and cut;
  chunk numbers given in two places and compared as text in a third.

`PROJECT.json` lists the hazards at their lines, with the properties that would catch
it going wrong. Where a property has to permit it, because that is what the code
does, the hazard has a note in place of the property.

## The modules

| Module | Models |
|---|---|
| `ApprovalGate` | abstract specification: what the escalation queue promises about data leaving the machine |
| `EscalationQueue` | the queue, its runs, the cache, crashes |
| `TechLibrary` | rows and files of the library, and how scrapers deduplicate and file |
| `AcquisitionQueue` | requests and scrapes; extends `TechLibrary` and `EscalationQueue` |
| `BatchExtractor` | one call of `extract_chunks_batch` against merLLM |
| `DocumentStore` | documents in their four stores, conversations, and what a chat retrieves |
| `ConceptIndex` | finalization, reindexing, concepts and vocabulary; extends `DocumentStore` |
| `Conversations` | the table of conversations and the plain chats that write it |
| `AgentSession` | agent turns, their registry, sessions and sidecar; extends `Conversations` |
| `MFilesIndexer` | the connection to M-Files, the indexer, and the rows, files and chunks it leaves |
| `Chunker` | chunking as an algorithm, and the numbers of chunks |
| `ApprovalGateProofs`, `EscalationProofs`, `AcquisitionProofs`, `BatchProofs`, `DocumentProofs`, `AgentProofs`, `MFilesProofs`, `ChunkerProofs` | theorems about `ApprovalGate`, `EscalationQueue`, `AcquisitionQueue` with `TechLibrary`, `BatchExtractor`, `DocumentStore` and `ConceptIndex`, `AgentSession` with `Conversations`, `MFilesIndexer`, and `Chunker` |
| `MC...` | instances for TLC |

An operator whose comment begins with "Mutant" is a deliberate mistake. It is
used by no specification: put in place of the definition it varies, it makes one
property of a run fail, which shows that the property can.

### EscalationQueue

`row` is the table; a row never inserted is `absent`, and `delete` keeps the row
with status `deleted`. `run` holds the background runs; the stage of a run names
the await it is at in `_run_escalation`:

| Stage | Waits for | Left by |
|---|---|---|
| `scheduled` | the response of the handler that scheduled it | `StartRun` |
| `searching` | the embedding of the query | `SearchReturns` |
| `calling` | the provider | `CloudReturns` |
| `storing` | the embedding of the cache entry | `StoreReturns` |

Queries stand for classes of queries within the cache's distance threshold; the
empty answer (`Blank`) is an answer like others, except that the cache treats it
as a miss. `config` is chosen at start and again at a crash: `AUTO_ESCALATE`,
whether there is an API key, and whether the database file has the column
`error` that the failure handler writes. The tables this source creates do not
have it; `CREATE TABLE IF NOT EXISTS` would keep it in a file that does.
A store adds the entry, evicts what is beyond the limit and then completes the row:
a failure after the first (`StoreReturns`), or a crash (`CutOff`), leaves the entry
in, nothing evicted, and the row without its answer.
`approvals`, `sent` and `provided` record what an observer has seen.

### AcquisitionQueue and TechLibrary

`request` and `scrape` are the table and the background scrapes. `BeginScrape` is
the code up to the scraper's first await; `DownloadReturns` is one
`_download_file` inside the scraper; `NothingFound`, `FilesFound` and
`ScrapeRaises` are the three ways on after it. `NothingFound` uses `Insert` of
`EscalationQueue` for its escalation item. `library` holds rows in the order of
insertion and `disk` the content of each path; a checksum stands for its content.
What a vendor's site offers is a free choice of names and contents. `AcqCrash`
is `Crash` for both queues; it may leave a scrape behind any of its writes
(`ScrapeCutOff`: its status, its escalation without a status, some of its rows) and
an upload or a deletion of the library between file and row (`LibraryCutOff`).

Products are those whose id has no letters. An upload names its directory after
the lower-cased id, a scraper after the upper-cased one, so that for other
products the two never meet on disk.

### BatchExtractor

`worker`, `job` and `result` are the coroutines of `_extract_one_via_batch` and
the slots of the list that is returned (a result is named by its chunk);
`pending`, `misses`, `stopped` and `future` are the fields of `_BatchPoller`;
`poller.asked` is the local list `ids`, read before the await and used after it.
merLLM is external: `AcceptJob`, `EndJob` and `ForgetJob`, and a reply that may
leave out any job (`leftOut`).

### DocumentStore and ConceptIndex

`row`, `vector`, `node` and `spool` are the stores of a document. `ingest` holds
the uploads and attachments that wait for embeddings in `rag.ingest`. After that
wait `col.add`, the graph and `insert_document` follow without an await, so that
`EmbeddingReturns` is one action; so are patch and both deletions. What can come
between their writes is a crash (`CrashIn...`) or a failure of the vector store, which
the code meets in several ways:

| Call that fails | The code | Action |
|---|---|---|
| `col.add` in an ingest, or what follows it | raises, no row | `IngestFails` |
| `col.get`, `col.update` for a move | logs the first and answers 200, raises at the second; the row has moved | `PatchNotPassedOn` |
| `col.delete` in a deletion | raises; the rows are gone | `DeleteDocRaises`, `DeleteConversationRaises` |
| `col.get` of `get_doc_chunks` | answers with no chunks | `BeginReindex`, `Reads` |
| the search of a chat | goes on without documents | `ChatRetrieves` |

Two sets remember what that leaves apart. `torn` has the documents whose stores were
half written: no code finds these again, for vectors without a row are searched, but no
request deletes them; all properties of documents leave them out. `stray` has the
documents whose last move the vector store missed, until another move reaches it: their
chunks have another scope than their row, and the properties that compare the two leave
them out, the others do not.

A chunk is named by its number in the text, and chunks whose embedding fails are
not in `kept`. A chat takes its scopes in `BeginChat` and everything else in
`ChatRetrieves`. What texts and references have in common is data: the search
returns any part of what its filters let through, and the graph leads from a hit
to any part of what its own filter lets through. `chat` holds the answer until
it has been streamed.

`finalizing` is `_finalize_document` at its awaits, `listed` is
`_active_uploads`, `reindex` the entry of `_reindex_runs`. `left` keeps the
scopes of the listing the run began with, `ids` the chunks of the current
document, read before the wait for their extraction. An element of `edge` says
that a chunk id is linked to the concepts of a chunk; concepts are told apart by
the document they come from. A crash leaves any part of the links of the document under
way, the last of them perhaps without its scope, or of a migration (`IndexingCutOff`).
`homes`, `migrated` and the numbers `uncounted` and `unread` (chunks that
`get_doc_chunks` failed to read, before the run and in it) record what an observer has seen.

### Conversations and AgentSession

`conv` is the table; `chat` holds the requests of `POST /chat` and `turn` those of
`POST /agent/chat`. What is said is told apart by its turn, its role and the mark
behind it (`*(response interrupted)*`, `*(turn stopped)*`). Stages name awaits:

| Stage | At | Left by |
|---|---|---|
| `preparing` | page fetch and search of a chat | `ChatPrepared` |
| `first`, `followup` | the stream of the model, before and after a tool call | `ChatToolCall`, `ChatCompletes`, `ChatCancelled`, `ChatFails` |
| `creating` | `create_run` | `RunCreated`, `RunNotCreated` |
| `streaming` | the loop over hermes's events | `StreamCloses`, `StreamBreaks`, `ClosedAtYield`, `ClosedAtAwait` |
| `broken` | the `yield` that reports a failed stream | `BreakReported`, `ClosedAtAwait` |
| `stopping` | `stop_run` in the `GeneratorExit` clause | `ClosedTurnSaved` |
| `mapping` | `get_run` in `_store_session_mapping` | `MappingStored`, `MappingFails`, `ClosedAtMapping` |

`active` is `_active_runs`, `session` and `sidecar` are the two tables, and
`hermes` is the session that hermes runs a turn in. hermes is external: any call
may fail, events come in any order, and a run it is given a session for runs in it.
`overlapped` and `resuming` record which turns lived beside another, and which
began with a session stored. `_save_turn` makes two statements, the messages and the row of
`agent_turns`: `SaveTurn` is both, `CutOff` what a crash leaves of the last step of a turn,
and `halved` has the turns whose messages were saved without their row.

### MFilesIndexer

`run` holds calls of `run_indexer` at their awaits; `files` and `objects` are what
is left of the page under way. `row[i].chunks` is what the vector store holds of a
row, `watch` one browser at the event stream: `told` when its queue holds an event
that ends it, `lost` when the queue was full. A configuration is told apart by what
the code does with it: nothing stored, a masked password, a vault that is no string
(`from_config` raises, outside the `try`), or one that works. The rows and files are
those under `LIBRARY_PATH/mfiles`, which no scraper writes; deletion is that of
`tech_library.py`. A crash may come between a file and its row (`FileCutOff`), and between
a row and its file when that is deleted. The observer has `unseen`, objects no page has
shown, and `rowless`, paths last written by a run that died before the row.

### Chunker

A text is a sequence of blocks with a kind and a length; a piece of text is a span
of a block. The operators are those of the file: three ways to split, then
`MergeShort` and `SplitLong`, or `Windows`. The actions are the three users of
chunk numbers: `Ingest` numbers the chunks that could be embedded, `IndexInline`
and `IndexBehind` link concepts to a number, `Attach` sorts the numbers as text.
`Base` stands for ten. A heading is taken to be a line of its own.

A loop of the file is a recursive function over the prefixes of what it reads:
`SplitSoFar`, `MergedSoFar` and `PackedSoFar` are the loop's variables behind each
element, and `Closed`, `Merged` and `WithSpan` one turn of it. Texts are compared as
Python does, whatever the number of digits: a number is read as the fraction with its
digits behind the point (`Power`), and of two equal fractions (1 and 10) the shorter
comes first (`TextBefore`).

## What is checked

| Run | Instance | Result |
|---|---|---|
| `escalation` | 2 rows, 2 runs, 2 query classes, an answer and the empty answer, cache of 1, 2 approvals per row, 1 crash, all 8 deployments | holds |
| `acquisition` | 2 requests for one product, 2 approvals each, 2 scrapes, 2 escalation rows approved by `AUTO_ESCALATE`, 1 run, 1 row made by hand, deletions, 1 crash | holds |
| `acquisition_live` | 1 request with 2 approvals, products with and without a scraper, 1 row made by hand, no crash | holds |
| `batch_extractor` | 3 chunks, 2 submissions at a time, tolerance 2 | holds |
| `documents` | 2 documents of 1 chunk, 4 scopes (one of each kind), 1 chat, 2 patches, 2 faults (crashes and failures of the vector store) | holds |
| `concepts` | 2 documents of 1 chunk, 2 scopes, 1 classification, 1 patch, 1 fault | holds |
| `agent` | 1 conversation, up to 3 turns out of 2 plain chats and 3 agent turns, crashes without a bound | holds |
| `mfiles` | 3 objects with one path, a vault of two pages or another of one, pages of one object, 2 runs, 2 rows, 1 change of the vault, 1 of the connection, 1 crash | holds |
| `chunks` | all texts of up to 5 blocks, of 3 lengths of paragraphs, with at most one chunk that cannot be embedded | holds |
| `escalation_failure` | 1 row, the database of this source | violated |
| `library_dedup` | 2 products, 3 requests, 1 file | violated |
| `document_scope` | the instance of `documents` without a fault | violated |

Properties, with what each relates:

- `ClientDataGated`: posts of a client item against approvals, over restarts and
  changes of `AUTO_ESCALATE`. `ImplementsGate`: the whole queue against
  `ApprovalGate`.
- `OneRunPerItem`, `OneScrapePerRequest`: no handler looks for a run under way;
  statuses alone keep approve and retry from starting a second.
- `AnswersAreGenuine`: a complete row, the cache and the provider's answers.
- `DecisionsStand`, `RequestDecisionsStand`: nothing under way undoes a completion
  or a rejection; a deleted request is written over only by a scrape that had been
  granted before.
- `CacheKeepsNewest`: the eviction against the run that completes a row: behind it
  the cache is within its limit and has the answer as its newest entry. It outgrows the
  limit only by a store broken off between adding and evicting, by one entry, with no
  row completed; the next store that is not broken off evicts these too.
- `NetworkApproved`: scrapes against approvals, and escalations against scrapes.
  `CloudCallsApproved`: cloud calls made for a request against all approvals,
  when `AUTO_ESCALATE` approves the escalations.
- `PathsFiledOnce`: side-by-side scrapes of one product, and what was uploaded or registered
  meanwhile: no scrape files a path that has a row.
- `RequestsSettle`, `ApprovedSettles`: what was approved is settled.
- `SlotsKeepOrder`, `GivenUpForCause`, `WaitersAreServed`, `CallReturns`: the
  contract in the docstring of `extract_chunks_batch`.

- `VectorsMatchRows`: the vector store against the table, over handlers side by side:
  chunks are those of a present row, and in its scope unless the last move missed them.
- `ConfidentialScopes`: classification against scope, over uploads, copies, moves
  and reclassification.
- `SearchFlagsClientDocs`: what the search finds against the flag computed from
  another store; for a `stray` document the code does not hold it (below).
  `DeletedNeverQuoted`: quotes against rows, though nodes remain.
- `ListedIsInProgress`: the list of the dashboard against the work under way.
- `ReindexProgress`: chunks counted at the start against chunks read in the run. The
  difference is what the failed reads of either missed, and nothing else but for a deletion.
- `VocabularyStaysHome`: recorded scopes against those a document has been in.
- `TurnsKeptWhole`: messages against turns and sidecar: question and answer
  together, each turn once, marked as recorded, whatever streams beside it. A row of the
  sidecar has its messages; messages have their row, or the process died between the two.
- `ConversationsStand`: what is saved stays and stays in front, a deleted conversation
  does not come back, and titles change only by a rename or the creating chat.
- `StopFindsTheRun`: the registry against what streams. `SessionStands`: the session
  table against the sessions hermes ran in. Both leave out turns that overlapped
  another one of their conversation, for which the code does not hold them (below).
- `OneRunAtATime`: the flag against the runs, over two requests that both found it down.
- `VaultIndexed`: a run that comes to its end has seen the whole vault, unless the
  vault changed; no content has two rows; a row without its mark has a cause; and
  a file differs from its row only if another row had its path, or the process died
  between a file written there and its row.
  `IndexerTypeOK` also says that a row deleted during its ingest does not come back.
- `WatchersServed`: a stream open while a run goes on is ended, told or full.
- `ChunksKeepTheText`: chunks against the text: nothing is lost or turned over,
  lengths keep their limits, and what a chunk holds of other sections than the one
  it cites is shorter than a chunk may be.
- `IdsNameTheirChunks`: the numbers in three places against each other, and exactly
  when they part.

### Where code and documentation disagree

1. `FailureIsRecorded` (`routers/escalation.py` 176). The failure handler writes
   a column `error` that `escalation_queue` lacks, so it raises itself: the row
   stays `in_progress`, and neither approve nor retry accepts it again. The
   lifecycle in the header promises `failed -> (retry)`.
2. `ResultsPointToFiles` (`scrapers/base.py` 235-246). Deduplication trusts a row
   whose file is gone: the scrape reports success "pointing to the existing
   file", and the file is not fetched again. The counterexample: one product's
   scrape files a document; that of a second is pointed to the same file; the
   first row is deleted, and the file with it; the second files its row; a third
   scrape finds the checksum in that row.
3. `ContextInScope` (`routers/documents.py` 321). A patch of the scope does not
   reach the graph's nodes. A document moved from global to a client is still
   quoted by way of the graph in chats outside that client, and
   `has_client_docs` does not know of it. `_scope_allowed` says that it mirrors
   the rules of the search.

What follows is part of the models, and their properties are stated around it.

- A scrape writes its status over a request deleted since (`routers/acquisition.py`
  79), although delete says "any status"; so does an escalation run.
- A store that is broken off leaves the answer cache beyond `MAX_ESCALATION_CACHE_SIZE`
  (`rag.py` 686), until the next one.
- A patch answers 200 although the vector store could not be read (`rag.py` 557): the row
  has the new scope, the chunks the old one. A document moved to a client is then found in
  chats outside it, which are not flagged.
- A deletion that the vector store refuses answers 500 with the row gone: the request cannot be
  repeated (404), and searches go on finding the chunks.
- After a read that failed (`rag.py` 547) a reindex shows more than it announced, or
  completes short of it.
- A crash between the messages of an agent turn and its row (`agent.py` 105, 108), or
  between a file of the vault and its row (`mfiles_indexer.py` 206, 228), leaves the first
  without the second; the file may lie over that of another row.
- `index_concepts_for_doc` numbers all chunks (`rag.py` 324), ingest those it kept:
  after a chunk that could not be embedded, concepts are linked to others. Its docstring
  says that the ids match. `IdsNameTheirChunks` says that nothing else shifts them.
- The migration of the vocabulary (`db.py` 246) makes every concept global, those
  recorded for a client too, although it is called safe to repeat.
- An attachment sorts chunk ids as text (`routers/documents.py` 377): from eleven
  chunks on, the copy has another order.
- The header of `agent.py` (20-23) says that closing the browser stops the run. That
  is so at a `yield`; at an `await` neither clause catches the `CancelledError`: the
  run goes on and the turn is not saved (`ClosedAtAwait`). A plain chat closed at
  an `await` of its first stream saves nothing either, for `reply_parts` is filled at the end.
- Two first turns of a conversation each open a session, and the later mapping
  replaces the earlier; two turns share one registry entry, which either removes.
- The chat that created a conversation writes its title again (`chat.py` 304) over a
  rename made meanwhile.
- Settings that `from_config` cannot read leave `_active` up until a restart.
- A row whose ingest raised, or of which no chunk could be embedded, is skipped by its
  checksum from then on; the latter is marked indexed.
- Two files of one name below one title share a path: the later overwrites the
  earlier, and deleting either row removes it. A deleted row leaves its vectors.
- A second start's "already running" ends the streams of the run under way; a full
  queue drops the event that would.
- No chunk is shorter than `MIN_CHUNK_CHARS`, says `chunker.py` 24-26; a lone chunk, a
  part of a long section or paragraph, and the end of a window may be.

### Bounds, and why they are enough

Ids, runs and scrapes are interchangeable, and no handler looks at two rows of a
queue: rows meet only through the cache, the library and the slots. Two of each
give every pair of actors. A cache of one entry evicts at the second store. Two approvals per item
give an approval and a retry. One crash comes at any point, cuts off any one
step and has work after it; in `documents` a second fault meets what the first left
apart. The theorems are for any number of crashes and faults. In `acquisition` `AUTO_ESCALATE` is on and users approve no escalation (the
run `escalation` is about users, and about changes of the setting; `acquisition_live`
has both settings): there `CloudCallsApproved` says that the cloud calls of a request
are covered by its own approvals. Three chunks with two
submission slots give a chunk that waits for its turn, one that is submitted
during a poll and one that is waited for. `MissTolerance = 2` tells the first
gap from the last. `Runs` and `Scrapes` bound the background tasks, which
the code does not: an operation that needs a slot waits until there is one, which
leaves out interleavings of more tasks and adds none.

Two documents are one that a chat hits and one it is led to, and a run that is
at one while the other changes; documents share nothing but scopes. One scope of
each kind gives a chat scopes it sees and scopes it does not (the client and the
project, in a chat without a project). One chunk is stored or dropped; how ids
shift is the question of `chunks`. A second patch undoes or repeats
the first, or reaches the chunks that the first missed. The run `concepts` has no chat and
no conversation, which touch nothing it is about, and no public documents, for nothing of it
looks at the classification; the reads of a reindex run that fail are bounded by the chunks
they miss, together with the other faults (`MaxFaults`). Symmetry is used in the instances without liveness only.
The constants named `Max...` other than `MaxCache` bound counters.

Every handler of `Conversations` and `AgentSession` touches the one conversation of
its request, so that one is enough. Three turns are a turn before, and two that
overlap. In `mfiles` a vault of two pages has objects before and behind the
one under way; the two contents and one path give duplicates and overwriting, a
file of another type and one without text the other branches. Texts of five
blocks have the three clauses the second strategy asks for and two bodies, or
sections before, between and behind; lengths of 1, 4 and 9 lie below, between and above
the limits 3 and 6 and the window of 5; `Base = 4` gives texts of more chunks than one digit names.

Deadlock is checked in `escalation` and `acquisition`: a table can always be
edited. The other instances may stop: one call that returns, or all bounds spent.

### Fairness

- `EscalationQueue`, `AcquisitionQueue`: weak fairness of each run and scrape.
  The event loop resumes a coroutine whose await has ended, and every await is
  an HTTP call with a timeout (120 s for embeddings and the cloud, 30 or 120 s for scrapers)
  or a bounded sleep. Users are under no obligation. Both leads-to properties
  are stated for an uptime without a crash, since nothing restarts work after
  one; `ApprovedSettles` also for a database that can record a failure.
- `BatchExtractor`: weak fairness of workers, poller and gathering (event loop,
  timeout of a submission), weak fairness of `EndJob` (merLLM ends what it
  holds, or has forgotten it), and strong fairness of `PollReturns`: polls do
  not fail for ever. There is no deadline in the code, so that without either
  assumption about merLLM the call need not return.
- `MFilesIndexer`: weak fairness of the steps of the runs: calls to the vault have
  timeouts, and an ingest returns or raises. Nothing is assumed of the user, of
  the browser that reads the stream, or of the vault.

## What is proved

Every safety property of a passing run is a theorem, for any sets of rows, runs,
messages, contents and texts and any bounds. What is assumed of the
constants is named in the module that declares them (`ConstantsAssumption`,
`AcquisitionAssumption`, ...): numbers are numbers, `None` is no element of the sets
it is put beside, limits that the code divides by or counts up to are not 0.

Hardly a property is inductive as it stands. Each module ends with the invariant
that is; TLC has checked it on the instance of its run as well. The proofs
have one lemma per action, or per effect that actions share (a run that ends, a row
that is settled), and cut the invariant into parts that few actions disturb.

| Module | Theorems (property) | What the inductive invariant adds |
|---|---|---|
| `ApprovalGateProofs` | `ItemsAreCovered` (`Covered`), `PrivateDataIsGated` | - |
| `EscalationProofs` | `TypeCorrect`, `ClientDataIsGated`, `RunsAreExclusive`, `CompletedRowsAreGenuine`, `DecisionsAreFinal`, `CacheIsTrimmed`, `Refinement` (`ImplementsGate`) | `IndInv`: a run that has not posted yet stands for an approval not used yet; what is cached or about to be stored came from the provider |
| `AcquisitionProofs` | `AcqTypeCorrect`, `NetworkIsApproved`, `ScrapesAreExclusive`, `PathsAreFiledOnce`, `CloudCallsAreApproved`, `RequestDecisionsAreFinal`, `QueueIsEscalationQueue` | `AcqIndInv`: a scheduled scrape stands for a grant not used, one under way for a visit not handed over |
| `BatchProofs` | `BatchTypeCorrect`, `SlotsAreInOrder`, `JobsAreGivenUpForCause`, `WaitersAreAlwaysServed` | `BatchIndInv`: pending jobs have a waiting worker, misses counted are absences, a poll asks for what is pending |
| `DocumentProofs`, of the store | `StoresTyped`, `VectorsFollowRows`, `ClientDocsConfidential`, `SearchesAreFlagged`, `NoQuoteOfDeleted` | `IndInv`: what is being embedded is classified as its scope demands |
| `DocumentProofs`, of the background work | `IndexTypeCorrect`, `ListIsExact`, `ReindexCountsUp`, `VocabularyIsHome`, `IndexIsStore` | `IndexIndInv`: chunks counted, at hand, to come and missed by a read make up the total; every scope held anywhere was a home |
| `AgentProofs` | `AgentTypeCorrect`, `TurnsAreKeptWhole`, `StopsFindTheRun`, `SessionsStand`, `ConversationsLast` (`ConversationsStand`) | `AgentIndInv`: a session was opened in its conversation; nobody is about to replace the one a turn resumes |
| `MFilesProofs` | `IndexerTypeCorrect`, `RunsAreExclusive` (`OneRunAtATime`), `VaultIsIndexed` | `IndexerIndInv`: what a run has not seen is on the pages ahead; a run has a row exactly during its ingest |
| `ChunkerProofs` | `ChunksKeep` (`ChunksKeepTheText`), `IdsName` (`IdsNameTheirChunks`), `AlwaysAChunk` | `ChunkerInv`: the chunks are those of the text, those stored are some of them in order, graph and copy come from these |

The arguments in short:

- **Escalation.** Besides `Accounted` and `Genuine` (the table), `IndInv` has
  `OneRunPerItem` with the statuses a row with a run can have, without which two runs
  could stand for the same approval, and `Untouched` and `WellFormed` (a row not
  inserted has no approvals; a storing run has an answer). `DecisionsStand` and
  `CacheKeepsNewest` follow from `IndInv` and one step. For the refinement, the gate
  of an item is open while one of its runs may still post; `GateNext` maps an
  insertion to `Submit`, approve and retry to `Permit`, the post to `Send`, and
  everything that gives up a run, a crash included, to `Lapse` or a stutter.
- **Acquisition.** `QueueIsEscalationQueue`: with its fairness, `AcqSpec` implements
  `Spec` of `EscalationQueue`, so that what holds of the escalations by themselves
  holds here, `ApprovalGate` included. `CloudCallsApproved` comes from three sides:
  the gate gives each escalation one call beyond its own approvals (`ItemsAreCovered`),
  `NetworkApproved` gives at most as many escalations as grants, and `SumsCompare`
  adds that up over a finite set. `PathsFiledOnce` is kept by each operation on the
  table (`AppendTable`, `RemoveTable`, `FiledTable`) and, by induction over the
  results of a scrape, by `FiledAll`.
- **Batch extraction.** The case that matters is a reply (`ReplyAnswers`): jobs
  registered during the poll are not among those asked for, so their misses stay, and a
  future that is resolved leaves `pending` in the same step. That the poller is not
  stopped early is `PollerIsUseful`: stopped means that every worker is done.
- **Documents.** The two action properties follow in the step that retrieves: what is
  found has vectors, which are those of a row in a scope of the chat
  (`VectorsMatchRows`), and such a row is listed. `stray` is left only by a move that has
  reached row and chunks, so that both scopes are those of the same patch.
- **Concept graph.** `IndexIsStore`: every step of `ConceptIndex` is a step of
  `DocumentStore` or changes nothing of it, so that `IndInv` of `DocumentProofs` is
  there to build on. `ReindexAddsUp` counts pairs of a document and a chunk; `ChunksOfSplit`
  takes the pairs of one document out when the run comes to it. The sum is short only
  after a deletion, which is why `ReindexProgress` has its second clause.
- **Agent and chat.** What is saved is the old messages with a question and an answer
  behind them (`SaidThen`, `TurnSpeaks`), so that pairs stay neighbours; a turn that has
  not ended has said nothing (`NothingSaid`), so that it is saved once; a crash that cuts
  off a save ends the turn, which is then in `halved`. For
  `SessionStands`, `ResumesSession` says that while a turn that lives alone goes on,
  no other turn of its conversation is at the await before the write.
- **M-Files.** `UnseenIsAhead` with `PagesCover`: what lies behind an offset and not on
  the page read there lies behind the next offset. `RunsAreAlone` makes the one row a run
  ingests the only one without mark or cause. Of several starts the first to get past
  the flag is the only one, for the test and the assignment have no await between them.

- **Chunker.** The work is not in the invariant but in what the algorithm computes.
  The prover has no induction schema, so induction is over a set of numbers that
  stands for the predicate (`InductionUpTo`, `SequenceInduction`); and a recursive
  definition is a `CHOOSE`, so `Recursion` first shows that some function solves the
  equation (`SplitDef`, `MergeDef`, `PackedDef`, `LengthDef`, `FlattenDef`, `PowerDef`,
  `InOrderDef`). Then one invariant per loop.
  *Text.* `Tiles` says of spans that they are the bodies of the text up to a block, none
  left out: every block of the split keeps it (`SplittingGoesOn`), and merging changes
  nothing of what is held (`MergeHolds`). `Covers` says that the parts of a section begin
  and end where it does with no gap, for paragraphs (`PackedHolds`) and windows
  (`WindowsHold`); it goes over concatenation (`CoversConcat`), so what holds section by
  section holds of the text.
  *Limits and anchors.* What waits in `_merge_short` is shorter than `MIN_CHUNK_CHARS`
  (`Merging`), so a chunk has less than that from sections before the one it cites;
  only the tail is added behind, and it too is what waited. A chunk shorter than the
  minimum is then the only one or a part. No section has parts unless it was too long,
  when `SplitLong` makes more than one (`PiecesHold`).
  *Ids.* `InOrderHolds`: a number shifts only behind one that is missing.
  `TextBefore` is a strict total order (`FractionOrder`, `TextBeforeTransitive`), so
  that each id has its own number of ids before it, and an injection of finitely many
  into as many is onto: every place is taken (`PlaceTaken`), and by the id itself as
  long as ids have one digit (`PlaceOfDigit`). Without it `Attach` would choose from
  nothing.

Only model-checked is liveness (`ApprovedSettles`, `RequestsSettle`, `CallReturns`,
`WatchersServed`), which is out of the prover's reach, and with it `ENABLED`. The
violations of the three runs that expect one are TLC's as well.

## What is not modelled

- Event streams (`_publish`), logging, timestamps other than their order, and
  texts. Reads that change nothing.
- Garbage collection of the task made by `asyncio.create_task`
  (`routers/acquisition.py` 120), kept by nobody.
- Failures of SQLite and of the file system, except the missing column: a statement or a
  file write that raises, a file half written. Failures of Chroma and of the services are
  in the models, each as the code at that call treats it.
- A reply of merLLM that is no list of records: it would end the poller outside
  its `try` (`extractor.py` 498) and leave the workers waiting.
- The synchronous extraction path, prompts and JSON parsing. Summaries, and the
  parsing of an upload before its file is written.
- The other document connectors, workspace, MCP, health, the front end and deployment:
  single-statement edits or pure I/O (`PROJECT.json` has the reason for each).
- Tests of a connection, hints from the environment and the encryption of secrets.
- What makes a line a heading or a clause, white space at the ends of pieces, and the
  wording of anchors.
- The tool trace of an agent turn, and hermes's own store.

## Plan

1. An abstract specification of what a conversation promises, for both kinds of turns,
   with `AgentSession` and `Conversations` shown to implement it.
2. The parts that `PROJECT.json` lists as not modelled, should they come to keep state
   that more than one statement changes.
