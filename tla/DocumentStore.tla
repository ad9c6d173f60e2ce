---------------------------- MODULE DocumentStore ----------------------------
(***************************************************************************)
(* Documents and what a chat may retrieve of them: routers/documents.py,   *)
(* the deletion of a conversation, and the retrieval half of               *)
(* routers/chat.py.                                                        *)
(*                                                                         *)
(* A document lives in four stores that no transaction spans: its row in   *)
(* SQLite, its chunks in the vector store, its nodes in the graph and its  *)
(* original in the upload spool.  Handlers interleave only at awaits, so   *)
(* that a handler which writes to several stores after its last await is   *)
(* one action; but a crash can come between two of the writes, and a call  *)
(* of the vector store can fail after the row has been written.            *)
(*                                                                         *)
(* One user is modelled: every read and write is confined to the documents *)
(* of the user who asks.                                                   *)
(***************************************************************************)
EXTENDS Naturals

CONSTANTS
  Docs,           \* document ids
  Global,         \* the scope every chat sees
  Clients, Projects, Conversations,  \* the other scopes
  ClientOf,       \* the client a project belongs to
  NumChunks,      \* the number of chunks of a text
  None,
  Classes,        \* the classifications: "client", and "public" unless an instance
                  \* that never looks at them leaves it out
  MaxPatches,     \* bound: changes of scope or classification
  MaxFaults       \* bound: crashes, and failures that leave the stores apart after a row is written

Scopes == {Global} \cup Clients \cup Projects \cup Conversations
Chunks == 1 .. NumChunks

ASSUME DocumentAssumption ==
  /\ ClientOf \in [Projects -> Clients]
  /\ NumChunks \in Nat
  /\ None \notin Scopes
  /\ Classes \subseteq {"public", "client"} /\ "client" \in Classes
  /\ Conversations \cap (Clients \cup Projects) = {}

VARIABLES
  row,            \* the table documents
  vector,         \* the vector store: the chunks embedded, and their scope
  node,           \* the graph: the chunk nodes of a document, and their scope
  spool,          \* documents with a file under UPLOADS_PATH
  conversation,   \* the table conversations
  ingest,         \* uploads and attachments whose chunks are being embedded
  chat,           \* a chat request
  (* what an observer has seen *)
  torn,           \* documents with stores that a crash, or a failing ingest or
                  \* deletion, left half written
  stray,          \* documents whose last change of scope the vector store missed
  patches, faults

storeVars == <<row, vector, node, spool, conversation, ingest, chat, torn, stray, patches, faults>>

-----------------------------------------------------------------------------
Row == [state: {"absent", "present", "deleted"}, scope: Scopes \cup {None},
        class: Classes]
NoRow == [state |-> "absent", scope |-> None, class |-> "client"]

(* A chunk is named by its number in the text. *)
Vector == [kept: SUBSET Chunks, scope: Scopes \cup {None}]
NoVector == [kept |-> {}, scope |-> None]

Ingest == [kind: {"none", "upload", "attach"}, scope: Scopes \cup {None}, class: Classes]
NoIngest == [kind |-> "none", scope |-> None, class |-> "client"]

Chat == [stage: {"idle", "embedding", "answering"}, scopes: SUBSET Scopes,
         found: SUBSET Docs, cited: SUBSET Docs, flagged: BOOLEAN]
NoChat == [stage |-> "idle", scopes |-> {}, found |-> {}, cited |-> {}, flagged |-> FALSE]

StoreTypeOK ==
  /\ row \in [Docs -> Row]
  /\ \A d \in Docs : row[d].state = "present" => row[d].scope \in Scopes
  /\ vector \in [Docs -> Vector]
  /\ node \in [Docs -> Vector]
  /\ spool \subseteq Docs
  /\ conversation \in [Conversations -> {"absent", "present", "deleted"}]
  /\ ingest \in [Docs -> Ingest]
  /\ chat \in Chat
  /\ torn \subseteq Docs
  /\ stray \subseteq Docs

StoreInit ==
  /\ row = [d \in Docs |-> NoRow]
  /\ vector = [d \in Docs |-> NoVector]
  /\ node = [d \in Docs |-> NoVector]
  /\ spool = {}
  /\ conversation = [v \in Conversations |-> "absent"]
  /\ ingest = [d \in Docs |-> NoIngest]
  /\ chat = NoChat
  /\ torn = {}
  /\ stray = {}
  /\ patches = 0
  /\ faults = 0

Present(d) == row[d].state = "present"

(* Ids are uuids: one that left a trace is not drawn again. *)
Fresh(d) ==
  /\ row[d].state = "absent" /\ ingest[d].kind = "none"
  /\ vector[d].kept = {} /\ d \notin spool

Fault == faults < MaxFaults /\ faults' = faults + 1

Confidential(scope) == scope \in Clients \cup Projects

-----------------------------------------------------------------------------
(* Upload and attachment.                                                  *)

(* The original is on disk before the embedding begins. *)
UploadDoc(d) ==
  /\ Fresh(d)
  /\ \E scope \in Scopes, class \in Classes :
       /\ Confidential(scope) => class = "client"
       /\ ingest' = [ingest EXCEPT ![d] = [kind |-> "upload", scope |-> scope, class |-> class]]
  /\ spool' = spool \cup {d}
  /\ UNCHANGED <<row, vector, node, conversation, chat, torn, stray, patches, faults>>

(* The copy of a document in a conversation takes the classification that  *)
(* the source has when the request comes in.                               *)
AttachDoc(d) ==
  /\ Fresh(d)
  /\ \E source \in Docs, v \in Conversations :
       /\ Present(source) /\ conversation[v] = "present" /\ vector[source].kept # {}
       /\ ingest' = [ingest EXCEPT ![d] =
                       [kind |-> "attach", scope |-> v, class |-> row[source].class]]
  /\ UNCHANGED <<row, vector, node, spool, conversation, chat, torn, stray, patches, faults>>

(* Chunks whose embedding failed are dropped.  The others go to the vector *)
(* store and the graph, and the row is inserted, even without chunks.      *)
StoreChunks(d, kept) ==
  LET chunks == IF kept = {} THEN NoVector ELSE [kept |-> kept, scope |-> ingest[d].scope] IN
  /\ vector' = [vector EXCEPT ![d] = chunks]
  /\ node' = [node EXCEPT ![d] = chunks]

EmbeddingReturns(d) ==
  /\ ingest[d].kind # "none"
  /\ \E kept \in SUBSET Chunks : StoreChunks(d, kept)
  /\ row' = [row EXCEPT ![d] = [state |-> "present", scope |-> ingest[d].scope,
                                class |-> ingest[d].class]]
  /\ ingest' = [ingest EXCEPT ![d] = NoIngest]
  /\ UNCHANGED <<spool, conversation, chat, torn, stray, patches, faults>>

(* The ingest raises, or the process dies in it: if the chunks have reached *)
(* the vector store, part of their nodes may have reached the graph, but no *)
(* row is inserted.                                                         *)
PartlyStored(d) ==
  \E kept \in SUBSET Chunks \ {{}} : \E noded \in SUBSET kept :
    LET part(chunks) == IF chunks = {} THEN NoVector
                        ELSE [kept |-> chunks, scope |-> ingest[d].scope] IN
    /\ vector' = [vector EXCEPT ![d] = part(kept)]
    /\ node' = [node EXCEPT ![d] = part(noded)]
    /\ torn' = torn \cup {d}

IngestFails(d) ==
  /\ ingest[d].kind # "none"
  /\ ingest' = [ingest EXCEPT ![d] = NoIngest]
  /\ \/ UNCHANGED <<vector, node, torn, faults>>
     \/ PartlyStored(d) /\ Fault
  /\ UNCHANGED <<row, spool, conversation, chat, stray, patches>>

-----------------------------------------------------------------------------
(* Patch.  The scope is passed on to the vector store, not to the graph.   *)

(* Scope or class is None where the request leaves it out. *)

(* Mutant: a scope left out is written as null. *)
ScopeAsGiven(d, scope) == scope

ScopeAfter(d, scope) == IF scope = None THEN row[d].scope ELSE scope

(* Mutant: a move to a client or project keeps the classification. *)
PatchedKeepingClass(d, scope, class) ==
  [row[d] EXCEPT !.scope = ScopeAfter(d, scope), !.class = IF class = None THEN @ ELSE class]

Patched(d, scope, class) ==
  [row[d] EXCEPT !.scope = ScopeAfter(d, scope),
                 !.class = IF class # None THEN class
                           ELSE IF Confidential(ScopeAfter(d, scope)) THEN "client" ELSE @]

(* Mutant: the chunks keep their scope. *)
VectorUnmoved(d, scope) == vector[d]

VectorMoved(d, scope) ==
  IF scope = None \/ vector[d].kept = {} THEN vector[d]
  ELSE [vector[d] EXCEPT !.scope = scope]

PatchRow(d, scope, class) ==
  /\ Present(d) /\ patches < MaxPatches
  /\ ~(Confidential(ScopeAfter(d, scope)) /\ class = "public")
  /\ row' = [row EXCEPT ![d] = Patched(d, scope, class)]
  /\ patches' = patches + 1

PatchDoc(d) ==
  /\ \E scope \in Scopes \cup {None}, class \in Classes \cup {None} :
       /\ PatchRow(d, scope, class)
       /\ vector' = [vector EXCEPT ![d] = VectorMoved(d, scope)]
       /\ stray' = IF scope = None THEN stray ELSE stray \ {d}
  /\ UNCHANGED <<node, spool, conversation, ingest, chat, torn, faults>>

(* update_chunk_scope cannot read the chunks, which it logs, and the patch *)
(* is answered 200; or it cannot write them and raises.  The row has moved *)
(* by then, the chunks have not.                                           *)
PatchNotPassedOn(d) ==
  /\ Fault
  /\ vector[d].kept # {}
  /\ \E scope \in Scopes, class \in Classes \cup {None} : PatchRow(d, scope, class)
  /\ stray' = stray \cup {d}
  /\ UNCHANGED <<vector, node, spool, conversation, ingest, chat, torn>>

-----------------------------------------------------------------------------
(* Deletion: rows first, then chunks, then the original.  The graph is     *)
(* left as it is, and a conversation leaves the originals of its documents *)
(* behind.  The vector store may refuse to delete: the request raises and  *)
(* the rows are gone.                                                      *)

RowsWithout(S) ==
  [d \in Docs |-> IF d \in S THEN [NoRow EXCEPT !.state = "deleted"] ELSE row[d]]

VectorsWithout(S) == [d \in Docs |-> IF d \in S THEN NoVector ELSE vector[d]]

DeleteDoc(d) ==
  /\ Present(d)
  /\ row' = RowsWithout({d})
  /\ vector' = VectorsWithout({d})
  /\ spool' = spool \ {d}
  /\ UNCHANGED <<node, conversation, ingest, chat, torn, stray, patches, faults>>

DeleteDocRaises(d) ==
  /\ Fault
  /\ Present(d)
  /\ row' = RowsWithout({d})
  /\ torn' = torn \cup {d}
  /\ UNCHANGED <<vector, node, spool, conversation, ingest, chat, stray, patches>>

AddConversation(v) ==
  /\ conversation[v] = "absent"
  /\ conversation' = [conversation EXCEPT ![v] = "present"]
  /\ UNCHANGED <<row, vector, node, spool, ingest, chat, torn, stray, patches, faults>>

SessionDocs(v) == {d \in Docs : Present(d) /\ row[d].scope = v}

EndConversation(v) ==
  /\ conversation[v] = "present"
  /\ conversation' = [conversation EXCEPT ![v] = "deleted"]

DeleteConversation(v) ==
  /\ EndConversation(v)
  /\ row' = RowsWithout(SessionDocs(v))
  /\ vector' = VectorsWithout(SessionDocs(v))
  /\ UNCHANGED <<node, spool, ingest, chat, torn, stray, patches, faults>>

(* The loop over the documents ends at the first that raises.              *)
DeleteConversationRaises(v) ==
  /\ Fault
  /\ EndConversation(v)
  /\ row' = RowsWithout(SessionDocs(v))
  /\ \E left \in SUBSET SessionDocs(v) \ {{}} :
       /\ vector' = VectorsWithout(SessionDocs(v) \ left)
       /\ torn' = torn \cup left
  /\ UNCHANGED <<node, spool, ingest, chat, stray, patches>>

-----------------------------------------------------------------------------
(* Chat.  The scopes are those of the request; everything else is read     *)
(* after the query has been embedded.                                      *)

BeginChat ==
  /\ chat.stage = "idle"
  /\ \E v \in Conversations, project \in Projects \cup {None} :
       /\ conversation[v] # "deleted"
       /\ conversation' = [conversation EXCEPT ![v] = "present"]
       /\ chat' = [NoChat EXCEPT
                     !.stage = "embedding",
                     !.scopes = {Global, v} \cup
                       (IF project = None THEN {} ELSE {project, ClientOf[project]})]
  /\ UNCHANGED <<row, vector, node, spool, ingest, torn, stray, patches, faults>>

(* Mutant: the client of the project is forgotten. *)
ListedWithoutClient(scopes, d) ==
  Present(d) /\ row[d].scope \in scopes \ Clients

(* list_documents_for_scope *)
Listed(scopes, d) ==
  Present(d) /\ row[d].scope \in scopes

(* What the search may return: which texts are near is a matter of data. *)
InVectors(scopes) == {d \in Docs : vector[d].kept # {} /\ vector[d].scope \in scopes}

(* Mutant: what the graph names is quoted whether or not the chunks exist. *)
InGraphUnchecked(scopes) == {d \in Docs : node[d].kept # {} /\ node[d].scope \in scopes}

(* The graph is asked under the scopes its nodes have; chunks of it that   *)
(* are gone from the vector store have no text to quote.                   *)
InGraph(scopes) ==
  {d \in Docs : /\ node[d].scope \in scopes
                /\ node[d].kept \cap vector[d].kept # {}}

(* The graph is searched from the hits: without one it is not asked. *)
ChatRetrieves ==
  /\ chat.stage = "embedding"
  /\ \E found \in SUBSET InVectors(chat.scopes) :
     \E cited \in SUBSET InGraph(chat.scopes) :
       /\ found = {} => cited = {}
       /\ chat' = [chat EXCEPT
                     !.stage = "answering", !.found = found, !.cited = cited,
                     !.flagged = \E d \in Docs : Listed(chat.scopes, d) /\ row[d].class = "client"]
  /\ UNCHANGED <<row, vector, node, spool, conversation, ingest, torn, stray, patches, faults>>

ChatEnds ==
  /\ chat.stage = "answering"
  /\ chat' = NoChat
  /\ UNCHANGED <<row, vector, node, spool, conversation, ingest, torn, stray, patches, faults>>

-----------------------------------------------------------------------------
(* A crash loses the requests under way.  One that comes between two       *)
(* writes leaves the stores half written.                                  *)

Restart ==
  /\ Fault
  /\ ingest' = [d \in Docs |-> NoIngest]
  /\ chat' = NoChat

Crash ==
  /\ Restart
  /\ UNCHANGED <<row, vector, node, spool, conversation, torn, stray, patches>>

CrashInIngest(d) ==
  /\ ingest[d].kind # "none"
  /\ Restart
  /\ PartlyStored(d)
  /\ UNCHANGED <<row, spool, conversation, stray, patches>>

CrashInPatch(d) ==
  /\ Restart
  /\ \E scope \in Scopes, class \in Classes \cup {None} : PatchRow(d, scope, class)
  /\ stray' = stray \cup {d}
  /\ UNCHANGED <<vector, node, spool, conversation, torn>>

CrashInDelete(d) ==
  /\ Present(d)
  /\ Restart
  /\ row' = RowsWithout({d})
  /\ vector' \in {vector, VectorsWithout({d})}
  /\ torn' = torn \cup {d}
  /\ UNCHANGED <<node, spool, conversation, stray, patches>>

CrashInDeleteConversation(v) ==
  /\ EndConversation(v)
  /\ Restart
  /\ \E rowless \in SUBSET SessionDocs(v) : \E vectorless \in SUBSET rowless :
       /\ vectorless # {} => rowless = SessionDocs(v)
       /\ row' = RowsWithout(rowless)
       /\ vector' = VectorsWithout(vectorless)
       /\ torn' = torn \cup (rowless \ vectorless)
  /\ UNCHANGED <<node, spool, stray, patches>>

-----------------------------------------------------------------------------
(* Requests that leave the concept graph alone; CrashAnywhere takes        *)
(* everything in memory with it.                                           *)
StoreRequest ==
  \/ \E d \in Docs : \/ AttachDoc(d) \/ PatchDoc(d) \/ PatchNotPassedOn(d)
                     \/ DeleteDoc(d) \/ DeleteDocRaises(d)
  \/ \E v \in Conversations : \/ AddConversation(v)
                              \/ DeleteConversation(v) \/ DeleteConversationRaises(v)
  \/ BeginChat
  \/ ChatRetrieves
  \/ ChatEnds

CrashAnywhere ==
  \/ Crash
  \/ \E d \in Docs : CrashInIngest(d) \/ CrashInPatch(d) \/ CrashInDelete(d)
  \/ \E v \in Conversations : CrashInDeleteConversation(v)

StoreNext ==
  \/ \E d \in Docs : UploadDoc(d) \/ EmbeddingReturns(d) \/ IngestFails(d)
  \/ StoreRequest
  \/ CrashAnywhere

StoreSpec == StoreInit /\ [][StoreNext]_storeVars

-----------------------------------------------------------------------------
(* Properties.  A document torn by a crash, or by an ingest or a deletion   *)
(* that raised, is outside them: nothing in the code finds it again.        *)

(* The chunks of a document are those of a present row; and they have its   *)
(* scope, unless the vector store missed the last change of it, although    *)
(* rows and vectors are written one after the other by handlers that run    *)
(* side by side.                                                            *)
VectorsMatchRows ==
  \A d \in Docs \ torn : vector[d].kept # {} =>
    /\ Present(d)
    /\ d \notin stray => vector[d].scope = row[d].scope

(* A document of a client or project is never classified public, whichever  *)
(* way it came there or was reclassified.                                   *)
ConfidentialScopes ==
  \A d \in Docs : Present(d) /\ Confidential(row[d].scope) => row[d].class = "client"

(* When the search of a chat finds a client's document, the chat is flagged, *)
(* so that an escalation of its query asks the user: documents may move, and *)
(* come and go, between the request and the search.  A document whose move   *)
(* the vector store missed is found where it was and looked up where it is.  *)
SearchFlagsClientDocs ==
  [][chat.stage = "embedding" /\ chat'.stage = "answering"
       => \A d \in chat'.found \ (torn \cup stray) :
            row[d].class = "client" => chat'.flagged]_chat

(* A deleted document is quoted by no chat, although the graph keeps its     *)
(* nodes: neither by a search nor by way of the graph.                       *)
DeletedNeverQuoted ==
  [][chat.stage = "embedding" /\ chat'.stage = "answering"
       => \A d \in (chat'.found \cup chat'.cited) \ torn : Present(d)]_chat

(* "Each conversation only sees what it should": what a chat quotes by way   *)
(* of the graph is in a scope of the chat, also when every store has taken   *)
(* every write.                                                              *)
ContextInScope ==
  [][chat.stage = "embedding" /\ chat'.stage = "answering"
       => \A d \in chat'.cited \ (torn \cup stray) : row[d].scope \in chat.scopes]_chat

=============================================================================
