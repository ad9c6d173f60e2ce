---------------------------- MODULE DocumentProofs ----------------------------
(***************************************************************************)
(* Theorems about DocumentStore and, in the second half, ConceptIndex, for *)
(* any documents, scopes and bounds.  The work in the background runs over *)
(* the store, whose invariant it inherits.                                 *)
(***************************************************************************)
EXTENDS ConceptIndex, TLAPS, FiniteSetTheorems

(* What is embedded already has the scope and the class that its row will  *)
(* have: a document of a client or project is a client's document.         *)
IngestsClassified ==
  \A d \in Docs : ingest[d].kind # "none" =>
    /\ ingest[d].scope \in Scopes
    /\ Confidential(ingest[d].scope) => ingest[d].class = "client"

IndInv ==
  /\ StoreTypeOK
  /\ VectorsMatchRows
  /\ ConfidentialScopes
  /\ IngestsClassified

(* The invariant holds before the first request. *)
LEMMA InitInv == StoreInit => IndInv
<1> SUFFICES ASSUME StoreInit PROVE IndInv
  OBVIOUS
<1>1. /\ NoRow \in Row /\ NoRow.state = "absent"
      /\ NoVector \in Vector /\ NoVector.kept = {}
      /\ NoIngest \in Ingest /\ NoIngest.kind = "none"
      /\ NoChat \in Chat
  BY DocumentAssumption DEF NoRow, Row, NoVector, Vector, NoIngest, Ingest, NoChat, Chat
<1>2. StoreTypeOK
  BY <1>1 DEF StoreInit, StoreTypeOK
<1> QED
  BY <1>1, <1>2 DEF StoreInit, IndInv, VectorsMatchRows, ConfidentialScopes, IngestsClassified, Present

-----------------------------------------------------------------------------
(* Uploads and copies.                                                     *)

LEMMA UploadStep ==
  ASSUME IndInv, NEW d \in Docs, UploadDoc(d)
  PROVE  IndInv'
  BY DEF UploadDoc, IndInv, StoreTypeOK, VectorsMatchRows, ConfidentialScopes,
         IngestsClassified, Ingest, Present

(* A conversation is no client and no project, so that the class of the    *)
(* source does not matter.                                                 *)
LEMMA AttachStep ==
  ASSUME IndInv, NEW d \in Docs, AttachDoc(d)
  PROVE  IndInv'
<1>1. PICK source \in Docs, v \in Conversations :
        ingest' = [ingest EXCEPT ![d] =
                     [kind |-> "attach", scope |-> v, class |-> row[source].class]]
  BY DEF AttachDoc
<1>2. v \in Scopes /\ ~Confidential(v) /\ row[source].class \in Classes
  BY DocumentAssumption DEF Scopes, Confidential, IndInv, StoreTypeOK, Row
<1>3. UNCHANGED <<row, vector, node, spool, conversation, chat, torn, stray>>
  BY DEF AttachDoc
<1>4. [kind |-> "attach", scope |-> v, class |-> row[source].class] \in Ingest
  BY <1>2 DEF Ingest
<1>5. StoreTypeOK'
  BY <1>1, <1>3, <1>4 DEF IndInv, StoreTypeOK
<1>6. IngestsClassified'
  BY <1>1, <1>2 DEF IndInv, IngestsClassified, StoreTypeOK
<1> QED
  BY <1>3, <1>5, <1>6 DEF IndInv, VectorsMatchRows, ConfidentialScopes, Present

LEMMA EmbeddingStep ==
  ASSUME IndInv, NEW d \in Docs, EmbeddingReturns(d)
  PROVE  IndInv'
<1>1. PICK kept \in SUBSET Chunks : StoreChunks(d, kept)
  BY DEF EmbeddingReturns
<1> DEFINE chunks == IF kept = {} THEN NoVector ELSE [kept |-> kept, scope |-> ingest[d].scope]
<1>2. /\ ingest[d] \in Ingest /\ ingest[d].scope \in Scopes
      /\ Confidential(ingest[d].scope) => ingest[d].class = "client"
  BY DEF EmbeddingReturns, IndInv, StoreTypeOK, IngestsClassified
<1>3. /\ vector' = [vector EXCEPT ![d] = chunks]
      /\ node' = [node EXCEPT ![d] = chunks]
      /\ row' = [row EXCEPT ![d] = [state |-> "present", scope |-> ingest[d].scope,
                                    class |-> ingest[d].class]]
      /\ ingest' = [ingest EXCEPT ![d] = NoIngest]
      /\ UNCHANGED <<spool, conversation, chat, torn, stray>>
  BY <1>1 DEF EmbeddingReturns, StoreChunks
<1>4. chunks \in Vector
  BY <1>2 DEF Vector, NoVector
<1>5. [state |-> "present", scope |-> ingest[d].scope, class |-> ingest[d].class] \in Row
  BY <1>2 DEF Row, Ingest
<1>6. NoIngest \in Ingest /\ NoIngest.kind = "none"
  BY DocumentAssumption DEF NoIngest, Ingest
<1>7. StoreTypeOK'
  BY <1>2, <1>3, <1>4, <1>5, <1>6 DEF IndInv, StoreTypeOK
<1>8. VectorsMatchRows'
  BY <1>2, <1>3 DEF IndInv, StoreTypeOK, VectorsMatchRows, Present, NoVector
<1>9. ConfidentialScopes'
  BY <1>2, <1>3 DEF IndInv, StoreTypeOK, ConfidentialScopes, Present
<1>10. IngestsClassified'
  BY <1>3, <1>6 DEF IndInv, StoreTypeOK, IngestsClassified
<1> QED
  BY <1>7, <1>8, <1>9, <1>10 DEF IndInv

(* A failed ingest, or a crash in one, tears the document if it changes it. *)
LEMMA PartialStep ==
  ASSUME IndInv, NEW d \in Docs, ingest[d].kind # "none", PartlyStored(d),
         UNCHANGED <<row, spool, stray>>
  PROVE  /\ vector' \in [Docs -> Vector] /\ node' \in [Docs -> Vector]
         /\ torn' \subseteq Docs
         /\ VectorsMatchRows' /\ ConfidentialScopes'
<1> DEFINE part(chunks) == IF chunks = {} THEN NoVector
                           ELSE [kept |-> chunks, scope |-> ingest[d].scope]
<1>1. PICK kept \in SUBSET Chunks \ {{}} : \E noded \in SUBSET kept :
        /\ vector' = [vector EXCEPT ![d] = part(kept)]
        /\ node' = [node EXCEPT ![d] = part(noded)]
        /\ torn' = torn \cup {d}
  BY DEF PartlyStored
<1>2. PICK noded \in SUBSET kept :
        /\ vector' = [vector EXCEPT ![d] = part(kept)]
        /\ node' = [node EXCEPT ![d] = part(noded)]
        /\ torn' = torn \cup {d}
  BY <1>1
<1>3. part(kept) \in Vector /\ part(noded) \in Vector
  BY DEF IndInv, IngestsClassified, Vector, NoVector
<1> HIDE DEF part
<1> QED
  BY <1>2, <1>3 DEF IndInv, StoreTypeOK, VectorsMatchRows, ConfidentialScopes, Present

LEMMA FailStep ==
  ASSUME IndInv, NEW d \in Docs, IngestFails(d)
  PROVE  IndInv'
<1>1. /\ ingest' = [ingest EXCEPT ![d] = NoIngest]
      /\ UNCHANGED <<row, spool, conversation, chat, stray>>
  BY DEF IngestFails
<1>2. NoIngest \in Ingest /\ NoIngest.kind = "none"
  BY DocumentAssumption DEF NoIngest, Ingest
<1>3. /\ vector' \in [Docs -> Vector] /\ node' \in [Docs -> Vector]
      /\ torn' \subseteq Docs
      /\ VectorsMatchRows' /\ ConfidentialScopes'
  <2>1. CASE UNCHANGED <<vector, node, torn>>
    BY <1>1, <2>1 DEF IndInv, StoreTypeOK, VectorsMatchRows, ConfidentialScopes, Present
  <2>2. CASE PartlyStored(d)
    BY <1>1, <2>2, PartialStep DEF IngestFails
  <2> QED
    BY <2>1, <2>2 DEF IngestFails
<1>4. StoreTypeOK'
  BY <1>1, <1>2, <1>3 DEF IndInv, StoreTypeOK
<1>5. IngestsClassified'
  BY <1>1, <1>2 DEF IndInv, StoreTypeOK, IngestsClassified
<1> QED
  BY <1>3, <1>4, <1>5 DEF IndInv

-----------------------------------------------------------------------------
(* Patches.                                                                *)

(* Moving a document or changing its class keeps a client's documents      *)
(* confidential.                                                           *)
LEMMA PatchedRow ==
  ASSUME IndInv, NEW d \in Docs,
         NEW scope \in Scopes \cup {None}, NEW class \in Classes \cup {None},
         PatchRow(d, scope, class)
  PROVE  /\ row' = [row EXCEPT ![d] = Patched(d, scope, class)]
         /\ Patched(d, scope, class) \in Row
         /\ Patched(d, scope, class).state = "present"
         /\ Patched(d, scope, class).scope = ScopeAfter(d, scope)
         /\ ScopeAfter(d, scope) \in Scopes
         /\ ConfidentialScopes'
<1>1. /\ row' = [row EXCEPT ![d] = Patched(d, scope, class)]
      /\ Present(d)
      /\ ~(Confidential(ScopeAfter(d, scope)) /\ class = "public")
  BY DEF PatchRow
<1>2. row[d] \in Row /\ row[d].scope \in Scopes /\ row[d].state = "present"
  BY <1>1 DEF IndInv, StoreTypeOK, Present
<1>3. ScopeAfter(d, scope) \in Scopes
  BY <1>2 DEF ScopeAfter
<1> DEFINE newClass == IF class # None THEN class
                       ELSE IF Confidential(ScopeAfter(d, scope)) THEN "client" ELSE row[d].class
<1>4. newClass \in Classes /\ (Confidential(ScopeAfter(d, scope)) => newClass = "client")
  BY <1>1, <1>2, DocumentAssumption DEF Row
<1> HIDE DEF newClass
<1>5. /\ Patched(d, scope, class) \in Row
      /\ Patched(d, scope, class).state = "present"
      /\ Patched(d, scope, class).scope = ScopeAfter(d, scope)
      /\ Patched(d, scope, class).class = newClass
  <2>1. Patched(d, scope, class) =
          [row[d] EXCEPT !.scope = ScopeAfter(d, scope), !.class = newClass]
    BY DEF Patched, newClass
  <2> QED
    BY <1>2, <1>3, <1>4, <2>1 DEF Row
<1>6. ConfidentialScopes'
  BY <1>1, <1>4, <1>5 DEF IndInv, StoreTypeOK, ConfidentialScopes, Present
<1> QED
  BY <1>1, <1>3, <1>5, <1>6

LEMMA PatchStep ==
  ASSUME IndInv, NEW d \in Docs, PatchDoc(d)
  PROVE  IndInv'
<1>1. PICK scope \in Scopes \cup {None}, class \in Classes \cup {None} :
        /\ PatchRow(d, scope, class)
        /\ vector' = [vector EXCEPT ![d] = VectorMoved(d, scope)]
        /\ stray' = IF scope = None THEN stray ELSE stray \ {d}
  BY DEF PatchDoc
<1>2. UNCHANGED <<node, spool, conversation, ingest, chat, torn>>
  BY DEF PatchDoc
<1>3. /\ row' = [row EXCEPT ![d] = Patched(d, scope, class)]
      /\ Patched(d, scope, class) \in Row
      /\ Patched(d, scope, class).state = "present"
      /\ Patched(d, scope, class).scope = ScopeAfter(d, scope)
      /\ ScopeAfter(d, scope) \in Scopes
      /\ ConfidentialScopes'
  BY <1>1, PatchedRow
<1>4. /\ vector[d] \in Vector
      /\ VectorMoved(d, scope) \in Vector
      /\ VectorMoved(d, scope).kept = vector[d].kept
  BY <1>1 DEF IndInv, StoreTypeOK, VectorMoved, Vector
<1>5. vector[d].kept # {} /\ d \notin torn /\ d \notin stray' =>
        VectorMoved(d, scope).scope = ScopeAfter(d, scope)
  BY <1>1, <1>4 DEF VectorMoved, ScopeAfter, IndInv, VectorsMatchRows, Vector
<1>6. StoreTypeOK'
  BY <1>1, <1>2, <1>3, <1>4 DEF IndInv, StoreTypeOK
<1>7. VectorsMatchRows'
  BY <1>1, <1>2, <1>3, <1>4, <1>5 DEF IndInv, StoreTypeOK, VectorsMatchRows, Present
<1> QED
  BY <1>2, <1>3, <1>6, <1>7 DEF IndInv, IngestsClassified

(* The row moves and the chunks stay: the document is stray.               *)
LEMMA StraySteps ==
  ASSUME IndInv, NEW d \in Docs,
         \E scope \in Scopes \cup {None}, class \in Classes \cup {None} : PatchRow(d, scope, class),
         stray' = stray \cup {d}, UNCHANGED <<vector, torn>>
  PROVE  /\ row' \in [Docs -> Row] /\ stray' \subseteq Docs
         /\ \A e \in Docs : row'[e].state = "present" => row'[e].scope \in Scopes
         /\ VectorsMatchRows' /\ ConfidentialScopes'
<1>1. PICK scope \in Scopes \cup {None}, class \in Classes \cup {None} : PatchRow(d, scope, class)
  OBVIOUS
<1>2. /\ row' = [row EXCEPT ![d] = Patched(d, scope, class)]
      /\ Patched(d, scope, class) \in Row
      /\ Patched(d, scope, class).state = "present"
      /\ Patched(d, scope, class).scope = ScopeAfter(d, scope)
      /\ ScopeAfter(d, scope) \in Scopes
      /\ ConfidentialScopes'
  BY <1>1, PatchedRow
<1>3. row' \in [Docs -> Row] /\ stray' \subseteq Docs
  BY <1>2 DEF IndInv, StoreTypeOK
<1>4. \A e \in Docs : row'[e].state = "present" => row'[e].scope \in Scopes
  BY <1>2 DEF IndInv, StoreTypeOK
<1>5. VectorsMatchRows'
  BY <1>2 DEF IndInv, StoreTypeOK, VectorsMatchRows, Present
<1> QED
  BY <1>2, <1>3, <1>4, <1>5

LEMMA NotPassedOnStep ==
  ASSUME IndInv, NEW d \in Docs, PatchNotPassedOn(d)
  PROVE  IndInv'
<1>1. /\ \E scope \in Scopes \cup {None}, class \in Classes \cup {None} : PatchRow(d, scope, class)
      /\ stray' = stray \cup {d}
      /\ UNCHANGED <<vector, node, spool, conversation, ingest, chat, torn>>
  BY DEF PatchNotPassedOn
<1>2. /\ row' \in [Docs -> Row] /\ stray' \subseteq Docs
      /\ \A e \in Docs : row'[e].state = "present" => row'[e].scope \in Scopes
      /\ VectorsMatchRows' /\ ConfidentialScopes'
  BY <1>1, StraySteps
<1> QED
  BY <1>1, <1>2 DEF IndInv, StoreTypeOK, IngestsClassified

-----------------------------------------------------------------------------
(* Deletions.                                                              *)

(* Rows go first.  Chunks that stay behind must be accounted for.          *)
LEMMA Removal ==
  ASSUME IndInv, NEW S \in SUBSET Docs, NEW T \in SUBSET Docs,
         row' = RowsWithout(S), vector' = VectorsWithout(T),
         S \ T \subseteq torn', torn \subseteq torn', UNCHANGED stray
  PROVE  /\ row' \in [Docs -> Row]
         /\ \A d \in Docs : row'[d].state = "present" => row'[d].scope \in Scopes
         /\ vector' \in [Docs -> Vector]
         /\ VectorsMatchRows' /\ ConfidentialScopes'
<1> DEFINE gone == [NoRow EXCEPT !.state = "deleted"]
<1>1. gone \in Row /\ gone.state = "deleted"
  BY DocumentAssumption DEF NoRow, Row
<1>2. row' = [d \in Docs |-> IF d \in S THEN gone ELSE row[d]]
  BY DEF RowsWithout
<1>3. vector' = [d \in Docs |-> IF d \in T THEN NoVector ELSE vector[d]]
  BY DEF VectorsWithout
<1>4. NoVector \in Vector /\ NoVector.kept = {}
  BY DEF NoVector, Vector
<1> HIDE DEF gone
<1>5. VectorsMatchRows'
  BY <1>2, <1>3, <1>4 DEF IndInv, StoreTypeOK, VectorsMatchRows, Present
<1>6. ConfidentialScopes'
  BY <1>1, <1>2 DEF IndInv, StoreTypeOK, ConfidentialScopes, Present
<1> QED
  BY <1>1, <1>2, <1>3, <1>4, <1>5, <1>6 DEF IndInv, StoreTypeOK

LEMMA DeleteStep ==
  ASSUME IndInv, NEW d \in Docs, DeleteDoc(d)
  PROVE  IndInv'
<1>1. /\ row' = RowsWithout({d}) /\ vector' = VectorsWithout({d})
      /\ spool' = spool \ {d}
      /\ UNCHANGED <<node, conversation, ingest, chat, torn, stray>>
  BY DEF DeleteDoc
<1>2. /\ row' \in [Docs -> Row]
      /\ \A e \in Docs : row'[e].state = "present" => row'[e].scope \in Scopes
      /\ vector' \in [Docs -> Vector]
      /\ VectorsMatchRows' /\ ConfidentialScopes'
  BY <1>1, Removal
<1> QED
  BY <1>1, <1>2 DEF IndInv, StoreTypeOK, IngestsClassified

LEMMA DeleteRaisesStep ==
  ASSUME IndInv, NEW d \in Docs, DeleteDocRaises(d)
  PROVE  IndInv'
<1>1. /\ row' = RowsWithout({d}) /\ vector' = vector /\ torn' = torn \cup {d}
      /\ UNCHANGED <<node, spool, conversation, ingest, chat, stray>>
  BY DEF DeleteDocRaises
<1>2. vector = VectorsWithout({})
  BY DEF VectorsWithout, IndInv, StoreTypeOK
<1>3. /\ row' \in [Docs -> Row]
      /\ \A e \in Docs : row'[e].state = "present" => row'[e].scope \in Scopes
      /\ vector' \in [Docs -> Vector]
      /\ VectorsMatchRows' /\ ConfidentialScopes'
  BY <1>1, <1>2, Removal
<1> QED
  BY <1>1, <1>3 DEF IndInv, StoreTypeOK, IngestsClassified

LEMMA EndedConversation ==
  ASSUME IndInv, NEW v \in Conversations, EndConversation(v)
  PROVE  conversation' \in [Conversations -> {"absent", "present", "deleted"}]
  BY DEF IndInv, StoreTypeOK, EndConversation

LEMMA ConversationStep ==
  ASSUME IndInv, NEW v \in Conversations,
         AddConversation(v) \/ DeleteConversation(v) \/ DeleteConversationRaises(v)
  PROVE  IndInv'
<1>1. CASE AddConversation(v)
  BY <1>1 DEF AddConversation, IndInv, StoreTypeOK, VectorsMatchRows, ConfidentialScopes,
              IngestsClassified, Present
<1>2. CASE DeleteConversation(v)
  <2>1. /\ row' = RowsWithout(SessionDocs(v)) /\ vector' = VectorsWithout(SessionDocs(v))
        /\ UNCHANGED <<node, spool, ingest, chat, torn, stray>>
    BY <1>2 DEF DeleteConversation
  <2>2. SessionDocs(v) \in SUBSET Docs
    BY DEF SessionDocs
  <2>3. /\ row' \in [Docs -> Row]
        /\ \A e \in Docs : row'[e].state = "present" => row'[e].scope \in Scopes
        /\ vector' \in [Docs -> Vector]
        /\ VectorsMatchRows' /\ ConfidentialScopes'
    BY <2>1, <2>2, Removal
  <2>4. conversation' \in [Conversations -> {"absent", "present", "deleted"}]
    BY <1>2, EndedConversation DEF DeleteConversation
  <2> QED
    BY <2>1, <2>3, <2>4 DEF IndInv, StoreTypeOK, IngestsClassified
<1>3. CASE DeleteConversationRaises(v)
  <2>1. PICK left \in SUBSET SessionDocs(v) :
          /\ row' = RowsWithout(SessionDocs(v)) /\ vector' = VectorsWithout(SessionDocs(v) \ left)
          /\ torn' = torn \cup left
          /\ UNCHANGED <<node, spool, ingest, chat, stray>>
    BY <1>3 DEF DeleteConversationRaises
  <2>2. SessionDocs(v) \in SUBSET Docs /\ SessionDocs(v) \ left \in SUBSET Docs
    BY DEF SessionDocs
  <2>3. /\ row' \in [Docs -> Row]
        /\ \A e \in Docs : row'[e].state = "present" => row'[e].scope \in Scopes
        /\ vector' \in [Docs -> Vector]
        /\ VectorsMatchRows' /\ ConfidentialScopes'
    BY <2>1, <2>2, Removal
  <2>4. conversation' \in [Conversations -> {"absent", "present", "deleted"}]
    BY <1>3, EndedConversation DEF DeleteConversationRaises
  <2>5. torn' \subseteq Docs
    BY <2>1, <2>2 DEF IndInv, StoreTypeOK
  <2> QED
    BY <2>1, <2>3, <2>4, <2>5 DEF IndInv, StoreTypeOK, IngestsClassified
<1> QED
  BY <1>1, <1>2, <1>3

-----------------------------------------------------------------------------
(* Chats change no document.                                               *)

LEMMA ChatStep ==
  ASSUME IndInv, BeginChat \/ ChatRetrieves \/ ChatEnds
  PROVE  IndInv'
<1>1. UNCHANGED <<row, vector, node, spool, ingest, torn, stray>>
  BY DEF BeginChat, ChatRetrieves, ChatEnds
<1>2. /\ chat' \in Chat
      /\ conversation' \in [Conversations -> {"absent", "present", "deleted"}]
  <2>1. CASE BeginChat
    <3>1. PICK v \in Conversations, project \in Projects \cup {None} :
            /\ conversation' = [conversation EXCEPT ![v] = "present"]
            /\ chat' = [NoChat EXCEPT
                          !.stage = "embedding",
                          !.scopes = {Global, v} \cup
                            (IF project = None THEN {} ELSE {project, ClientOf[project]})]
      BY <2>1 DEF BeginChat
    <3> DEFINE scopes == {Global, v} \cup
                           (IF project = None THEN {} ELSE {project, ClientOf[project]})
    <3>2. scopes \subseteq Scopes
      BY DocumentAssumption DEF Scopes
    <3> HIDE DEF scopes
    <3>3. [NoChat EXCEPT !.stage = "embedding", !.scopes = scopes] \in Chat
      BY <3>2 DEF NoChat, Chat
    <3> QED
      BY <3>1, <3>3 DEF scopes, IndInv, StoreTypeOK
  <2>2. CASE ChatRetrieves
    <3>1. PICK found \in SUBSET InVectors(chat.scopes) :
            \E cited \in SUBSET InGraph(chat.scopes) :
              chat' = [chat EXCEPT
                         !.stage = "answering", !.found = found, !.cited = cited,
                         !.flagged = \E d \in Docs : Listed(chat.scopes, d)
                                                     /\ row[d].class = "client"]
      BY <2>2 DEF ChatRetrieves
    <3>2. PICK cited \in SUBSET InGraph(chat.scopes) :
              chat' = [chat EXCEPT
                         !.stage = "answering", !.found = found, !.cited = cited,
                         !.flagged = \E d \in Docs : Listed(chat.scopes, d)
                                                     /\ row[d].class = "client"]
      BY <3>1
    <3> DEFINE flagged == \E d \in Docs : Listed(chat.scopes, d) /\ row[d].class = "client"
    <3>3. found \subseteq Docs /\ cited \subseteq Docs /\ flagged \in BOOLEAN
      BY DEF InVectors, InGraph
    <3> HIDE DEF flagged
    <3>4. chat' \in Chat
      BY <3>2, <3>3 DEF flagged, IndInv, StoreTypeOK, Chat
    <3> QED
      BY <2>2, <3>4 DEF ChatRetrieves, IndInv, StoreTypeOK
  <2>3. CASE ChatEnds
    BY <2>3 DEF ChatEnds, IndInv, StoreTypeOK, NoChat, Chat
  <2> QED
    BY <2>1, <2>2, <2>3
<1> QED
  BY <1>1, <1>2 DEF IndInv, StoreTypeOK, VectorsMatchRows, ConfidentialScopes,
                    IngestsClassified, Present

-----------------------------------------------------------------------------
(* Crashes.                                                                *)

LEMMA Restarted ==
  ASSUME Restart
  PROVE  /\ ingest' \in [Docs -> Ingest] /\ chat' \in Chat
         /\ IngestsClassified'
  BY DocumentAssumption DEF Restart, NoIngest, Ingest, NoChat, Chat, IngestsClassified

LEMMA CrashStep ==
  ASSUME IndInv, CrashAnywhere
  PROVE  IndInv'
<1>1. Restart
  BY DEF CrashAnywhere, Crash, CrashInIngest, CrashInPatch, CrashInDelete,
         CrashInDeleteConversation
<1>2. /\ ingest' \in [Docs -> Ingest] /\ chat' \in Chat
      /\ IngestsClassified'
  BY <1>1, Restarted
<1>3. CASE Crash
  BY <1>2, <1>3 DEF Crash, IndInv, StoreTypeOK, VectorsMatchRows, ConfidentialScopes, Present
<1>4. ASSUME NEW d \in Docs, CrashInIngest(d) PROVE IndInv'
  <2>1. UNCHANGED <<row, spool, conversation, stray>> /\ ingest[d].kind # "none" /\ PartlyStored(d)
    BY <1>4 DEF CrashInIngest
  <2>2. /\ vector' \in [Docs -> Vector] /\ node' \in [Docs -> Vector]
        /\ torn' \subseteq Docs
        /\ VectorsMatchRows' /\ ConfidentialScopes'
    BY <2>1, PartialStep
  <2> QED
    BY <1>2, <2>1, <2>2 DEF IndInv, StoreTypeOK
<1>5. ASSUME NEW d \in Docs, CrashInPatch(d) PROVE IndInv'
  <2>1. /\ \E scope \in Scopes \cup {None}, class \in Classes \cup {None} : PatchRow(d, scope, class)
        /\ stray' = stray \cup {d} /\ UNCHANGED <<vector, node, spool, conversation, torn>>
    BY <1>5 DEF CrashInPatch
  <2>2. /\ row' \in [Docs -> Row] /\ stray' \subseteq Docs
        /\ \A e \in Docs : row'[e].state = "present" => row'[e].scope \in Scopes
        /\ VectorsMatchRows' /\ ConfidentialScopes'
    BY <2>1, StraySteps
  <2> QED
    BY <1>2, <2>1, <2>2 DEF IndInv, StoreTypeOK
<1>6. ASSUME NEW d \in Docs, CrashInDelete(d) PROVE IndInv'
  <2>1. /\ row' = RowsWithout({d}) /\ vector' \in {vector, VectorsWithout({d})}
        /\ torn' = torn \cup {d}
        /\ UNCHANGED <<node, spool, conversation, stray>>
    BY <1>6 DEF CrashInDelete
  <2>2. PICK T \in SUBSET {d} : vector' = VectorsWithout(T)
    <3>1. vector = VectorsWithout({})
      BY DEF VectorsWithout, IndInv, StoreTypeOK
    <3> QED
      BY <2>1, <3>1
  <2>3. /\ row' \in [Docs -> Row]
        /\ \A e \in Docs : row'[e].state = "present" => row'[e].scope \in Scopes
        /\ vector' \in [Docs -> Vector]
        /\ VectorsMatchRows' /\ ConfidentialScopes'
    BY <2>1, <2>2, Removal
  <2> QED
    BY <1>2, <2>1, <2>3 DEF IndInv, StoreTypeOK
<1>7. ASSUME NEW v \in Conversations, CrashInDeleteConversation(v) PROVE IndInv'
  <2>1. PICK rowless \in SUBSET SessionDocs(v) : \E vectorless \in SUBSET rowless :
          /\ row' = RowsWithout(rowless) /\ vector' = VectorsWithout(vectorless)
          /\ torn' = torn \cup (rowless \ vectorless)
    BY <1>7 DEF CrashInDeleteConversation
  <2>2. PICK vectorless \in SUBSET rowless :
          /\ row' = RowsWithout(rowless) /\ vector' = VectorsWithout(vectorless)
          /\ torn' = torn \cup (rowless \ vectorless)
    BY <2>1
  <2>3. /\ UNCHANGED <<node, spool, stray>>
        /\ conversation' \in [Conversations -> {"absent", "present", "deleted"}]
    BY <1>7, EndedConversation DEF CrashInDeleteConversation
  <2>4. rowless \in SUBSET Docs /\ vectorless \in SUBSET Docs
    BY DEF SessionDocs
  <2>5. /\ row' \in [Docs -> Row]
        /\ \A e \in Docs : row'[e].state = "present" => row'[e].scope \in Scopes
        /\ vector' \in [Docs -> Vector]
        /\ VectorsMatchRows' /\ ConfidentialScopes'
    BY <2>2, <2>3, <2>4, Removal
  <2>6. torn' \subseteq Docs
    BY <2>2, <2>4 DEF IndInv, StoreTypeOK
  <2> QED
    BY <1>2, <2>3, <2>5, <2>6 DEF IndInv, StoreTypeOK
<1> QED
  BY <1>3, <1>4, <1>5, <1>6, <1>7 DEF CrashAnywhere

-----------------------------------------------------------------------------
LEMMA NextStep == IndInv /\ [StoreNext]_storeVars => IndInv'
<1> SUFFICES ASSUME IndInv, [StoreNext]_storeVars PROVE IndInv'
  OBVIOUS
<1>1. CASE StoreNext
  BY <1>1, UploadStep, EmbeddingStep, FailStep, AttachStep, PatchStep, NotPassedOnStep, DeleteStep,
     DeleteRaisesStep, ConversationStep, ChatStep, CrashStep
  DEF StoreNext, StoreRequest
<1>2. CASE UNCHANGED storeVars
  BY <1>2 DEF storeVars, IndInv, StoreTypeOK, VectorsMatchRows, ConfidentialScopes,
              IngestsClassified, Present
<1> QED
  BY <1>1, <1>2

LEMMA Invariance == StoreSpec => []IndInv
  BY InitInv, NextStep, PTL DEF StoreSpec

(* Every store keeps its type, and a present row has a scope. *)
THEOREM StoresTyped == StoreSpec => []StoreTypeOK
  BY Invariance, PTL DEF IndInv

(* Unless a crash, or an ingest or a deletion that failed, tore the document, *)
(* its chunks are those of a present row, in the scope of that row if the     *)
(* vector store took the last change of it.                                   *)
THEOREM VectorsFollowRows == StoreSpec => []VectorsMatchRows
  BY Invariance, PTL DEF IndInv

(* No document of a client or project is ever classified public. *)
THEOREM ClientDocsConfidential == StoreSpec => []ConfidentialScopes
  BY Invariance, PTL DEF IndInv

(* What a chat holds when it begins to answer is what it retrieved in that   *)
(* step.                                                                     *)
LEMMA AnswersAreRetrieved ==
  ASSUME [StoreNext]_storeVars, chat.stage = "embedding", chat'.stage = "answering"
  PROVE  ChatRetrieves
<1>1. NoChat.stage = "idle"
  BY DEF NoChat
<1> QED
  BY <1>1 DEF StoreNext, storeVars, StoreRequest, CrashAnywhere, UploadDoc, EmbeddingReturns,
     IngestFails, AttachDoc, PatchDoc, PatchNotPassedOn, DeleteDoc, DeleteDocRaises, AddConversation,
     DeleteConversation, DeleteConversationRaises, EndConversation,
     BeginChat, ChatEnds, Restart, Crash, CrashInIngest, CrashInPatch, CrashInDelete,
     CrashInDeleteConversation

LEMMA Retrieved ==
  ASSUME IndInv, ChatRetrieves
  PROVE  /\ chat'.found \subseteq InVectors(chat.scopes)
         /\ chat'.cited \subseteq InGraph(chat.scopes)
         /\ chat'.flagged = \E d \in Docs : Listed(chat.scopes, d) /\ row[d].class = "client"
<1> DEFINE flagged == \E d \in Docs : Listed(chat.scopes, d) /\ row[d].class = "client"
<1>1. PICK found \in SUBSET InVectors(chat.scopes) :
        \E cited \in SUBSET InGraph(chat.scopes) :
          chat' = [chat EXCEPT !.stage = "answering", !.found = found, !.cited = cited,
                               !.flagged = flagged]
  BY DEF ChatRetrieves
<1>2. PICK cited \in SUBSET InGraph(chat.scopes) :
          chat' = [chat EXCEPT !.stage = "answering", !.found = found, !.cited = cited,
                               !.flagged = flagged]
  BY <1>1
<1> HIDE DEF flagged
<1>3. chat'.found = found /\ chat'.cited = cited /\ chat'.flagged = flagged
  BY <1>2 DEF IndInv, StoreTypeOK, Chat
<1> QED
  BY <1>3 DEF flagged

(* A search that finds a client's document flags the chat, unless the vector *)
(* store missed the document's move or a crash or failure tore it.           *)
THEOREM SearchesAreFlagged == StoreSpec => SearchFlagsClientDocs
<1>1. ASSUME IndInv, [StoreNext]_storeVars,
             chat.stage = "embedding", chat'.stage = "answering",
             NEW d \in chat'.found \ (torn \cup stray), row[d].class = "client"
      PROVE  chat'.flagged
  <2>1. ChatRetrieves
    BY <1>1, AnswersAreRetrieved
  <2>2. d \in InVectors(chat.scopes) /\ d \in Docs
    BY <1>1, <2>1, Retrieved DEF InVectors
  <2>3. Listed(chat.scopes, d)
    BY <1>1, <2>2 DEF InVectors, IndInv, VectorsMatchRows, Listed
  <2> QED
    BY <1>1, <2>1, <2>2, <2>3, Retrieved
<1>2. IndInv /\ [StoreNext]_storeVars =>
        [chat.stage = "embedding" /\ chat'.stage = "answering"
           => \A d \in chat'.found \ (torn \cup stray) :
                row[d].class = "client" => chat'.flagged]_chat
  BY <1>1
<1> QED
  BY <1>2, Invariance, PTL DEF StoreSpec, SearchFlagsClientDocs

(* No chat quotes a deleted document, found by the search or by the graph. *)
THEOREM NoQuoteOfDeleted == StoreSpec => DeletedNeverQuoted
<1>1. ASSUME IndInv, [StoreNext]_storeVars,
             chat.stage = "embedding", chat'.stage = "answering",
             NEW d \in (chat'.found \cup chat'.cited) \ torn
      PROVE  Present(d)
  <2>1. ChatRetrieves
    BY <1>1, AnswersAreRetrieved
  <2>2. d \in InVectors(chat.scopes) \cup InGraph(chat.scopes)
    BY <1>1, <2>1, Retrieved
  <2>3. d \in Docs /\ vector[d].kept # {}
    BY <2>2 DEF InVectors, InGraph
  <2> QED
    BY <1>1, <2>3 DEF IndInv, VectorsMatchRows
<1>2. IndInv /\ [StoreNext]_storeVars =>
        [chat.stage = "embedding" /\ chat'.stage = "answering"
           => \A d \in (chat'.found \cup chat'.cited) \ torn : Present(d)]_chat
  BY <1>1
<1> QED
  BY <1>2, Invariance, PTL DEF StoreSpec, DeletedNeverQuoted

-----------------------------------------------------------------------------
(* Every step is a step of the store, or leaves it alone.                  *)

LEMMA StepsOfStore == [Next]_vars => [StoreNext]_storeVars
BY DEF Next, StoreNext, vars, Upload, IngestReturns, IngestRaises, Request, CrashInMemory, CrashAnywhere

(* Finalization, reindexing and migration change nothing of what is proved *)
(* of the store.                                                           *)
THEOREM IndexIsStore == Spec => StoreSpec
<1>1. Init => StoreInit
  BY DEF Init
<1>2. QED
  BY <1>1, StepsOfStore, PTL DEF Spec, StoreSpec

LEMMA StoreHolds == Spec => []IndInv
BY IndexIsStore, Invariance, PTL

-----------------------------------------------------------------------------
(* What a step of the store does to a document that is not being ingested. *)

(* Rows are never taken back; chunks go away only with their row.          *)
Stays(d) ==
  IF row[d].state = "absent" THEN row'[d].state = "absent"
  ELSE /\ row'[d].state # "absent"
       /\ row[d].state = "deleted" => row'[d].state = "deleted"
       /\ vector'[d].kept \subseteq vector[d].kept
       /\ row'[d].state # "deleted" => vector'[d].kept = vector[d].kept

(* No row comes up.                                                        *)
NoneComesUp(d) == row'[d].state = "present" => Present(d)

LEMMA RemovalStays ==
  ASSUME IndInv, NEW S \in SUBSET Docs, NEW T \in SUBSET S, \A d \in S : Present(d),
         row' = RowsWithout(S), vector' = VectorsWithout(T)
  PROVE  \A d \in Docs : Stays(d) /\ NoneComesUp(d)
<1> PICK gone : gone = [NoRow EXCEPT !.state = "deleted"]
  OBVIOUS
<1>1. gone.state = "deleted" /\ NoVector.kept = {}
  BY DEF NoRow, NoVector
<1>2. \A d \in Docs : row'[d] = IF d \in S THEN gone ELSE row[d]
  BY DEF RowsWithout
<1>3. \A d \in Docs : vector'[d] = IF d \in T THEN NoVector ELSE vector[d]
  BY DEF VectorsWithout
<1>4. QED
  BY <1>1, <1>2, <1>3 DEF Stays, NoneComesUp, Present

LEMMA UntouchedStays ==
  ASSUME UNCHANGED <<row, vector>>
  PROVE  \A d \in Docs : Stays(d) /\ NoneComesUp(d)
BY DEF Stays, NoneComesUp, Present

LEMMA PatchStays ==
  ASSUME IndInv, NEW d \in Docs,
         NEW scope \in Scopes \cup {None}, NEW class \in Classes \cup {None},
         PatchRow(d, scope, class),
         \/ UNCHANGED vector
         \/ vector' = [vector EXCEPT ![d] = VectorMoved(d, scope)]
  PROVE  \A e \in Docs : Stays(e) /\ NoneComesUp(e)
<1> PICK x : x = Patched(d, scope, class)
  OBVIOUS
<1>1. row' = [row EXCEPT ![d] = x] /\ x.state = "present" /\ Present(d)
  BY PatchedRow DEF PatchRow
<1>2. row \in [Docs -> Row] /\ vector \in [Docs -> Vector]
  BY DEF IndInv, StoreTypeOK
<1> PICK v : v = VectorMoved(d, scope)
  OBVIOUS
<1>3. v.kept = vector[d].kept
  BY <1>2 DEF VectorMoved, Vector
<1>4. row'[d] = x /\ \A e \in Docs : e # d => row'[e] = row[e]
  BY <1>1, <1>2
<1>5. \A e \in Docs : vector'[e].kept = vector[e].kept
  BY <1>2, <1>3
<1>6. QED
  BY <1>1, <1>4, <1>5 DEF Stays, NoneComesUp, Present

LEMMA RequestStays ==
  ASSUME IndInv, StoreRequest
  PROVE  \A d \in Docs : Stays(d) /\ NoneComesUp(d)
<1>1. ASSUME NEW d \in Docs, PatchDoc(d)
      PROVE  \A e \in Docs : Stays(e) /\ NoneComesUp(e)
  BY <1>1, PatchStays DEF PatchDoc
<1>2. ASSUME NEW d \in Docs, DeleteDoc(d)
      PROVE  \A e \in Docs : Stays(e) /\ NoneComesUp(e)
  BY <1>2, RemovalStays DEF DeleteDoc
<1>3. ASSUME NEW v \in Conversations, DeleteConversation(v)
      PROVE  \A e \in Docs : Stays(e) /\ NoneComesUp(e)
  <2>1. SessionDocs(v) \in SUBSET Docs /\ \A d \in SessionDocs(v) : Present(d)
    BY DEF SessionDocs
  <2>2. QED
    BY <1>3, <2>1, RemovalStays DEF DeleteConversation
<1>4. ASSUME \/ \E d \in Docs : AttachDoc(d)
             \/ \E v \in Conversations : AddConversation(v)
             \/ BeginChat \/ ChatRetrieves \/ ChatEnds
      PROVE  \A e \in Docs : Stays(e) /\ NoneComesUp(e)
  BY <1>4, UntouchedStays DEF AttachDoc, AddConversation, BeginChat, ChatRetrieves, ChatEnds
<1>5. ASSUME NEW d \in Docs, PatchNotPassedOn(d)
      PROVE  \A e \in Docs : Stays(e) /\ NoneComesUp(e)
  BY <1>5, PatchStays DEF PatchNotPassedOn
<1>6. ASSUME NEW d \in Docs, DeleteDocRaises(d)
      PROVE  \A e \in Docs : Stays(e) /\ NoneComesUp(e)
  <2>1. vector = VectorsWithout({})
    BY DEF VectorsWithout, IndInv, StoreTypeOK
  <2>2. QED
    BY <1>6, <2>1, RemovalStays DEF DeleteDocRaises
<1>7. ASSUME NEW v \in Conversations, DeleteConversationRaises(v)
      PROVE  \A e \in Docs : Stays(e) /\ NoneComesUp(e)
  <2>1. SessionDocs(v) \in SUBSET Docs /\ \A d \in SessionDocs(v) : Present(d)
    BY DEF SessionDocs
  <2>2. PICK left \in SUBSET SessionDocs(v) :
          row' = RowsWithout(SessionDocs(v)) /\ vector' = VectorsWithout(SessionDocs(v) \ left)
    BY <1>7 DEF DeleteConversationRaises
  <2>3. QED
    BY <2>1, <2>2, RemovalStays
<1>8. QED
  BY <1>1, <1>2, <1>3, <1>4, <1>5, <1>6, <1>7 DEF StoreRequest

(* Only the vector store and the graph change for the ingest torn.         *)
LEMMA PartlyStays ==
  ASSUME IndInv, DocumentsSettle, NEW d \in Docs, ingest[d].kind # "none",
         PartlyStored(d), UNCHANGED row
  PROVE  \A e \in Docs : Stays(e) /\ NoneComesUp(e)
<1>1. row[d].state = "absent"
  BY DEF DocumentsSettle
<1>2. \A e \in Docs : e # d => vector'[e] = vector[e]
  BY DEF PartlyStored, IndInv, StoreTypeOK
<1>3. QED
  BY <1>1, <1>2 DEF Stays, NoneComesUp, Present

LEMMA CrashStays ==
  ASSUME IndInv, DocumentsSettle, CrashAnywhere
  PROVE  \A d \in Docs : Stays(d) /\ NoneComesUp(d)
<1>1. CASE Crash
  BY <1>1, UntouchedStays DEF Crash
<1>2. ASSUME NEW d \in Docs, CrashInIngest(d)
      PROVE  \A e \in Docs : Stays(e) /\ NoneComesUp(e)
  BY <1>2, PartlyStays DEF CrashInIngest
<1>3. ASSUME NEW d \in Docs, CrashInPatch(d)
      PROVE  \A e \in Docs : Stays(e) /\ NoneComesUp(e)
  BY <1>3, PatchStays DEF CrashInPatch
<1>4. ASSUME NEW d \in Docs, CrashInDelete(d)
      PROVE  \A e \in Docs : Stays(e) /\ NoneComesUp(e)
  <2>1. Present(d) /\ row' = RowsWithout({d}) /\ vector' \in {vector, VectorsWithout({d})}
    BY <1>4 DEF CrashInDelete
  <2>2. vector = VectorsWithout({})
    BY DEF VectorsWithout, IndInv, StoreTypeOK
  <2>3. PICK T \in SUBSET {d} : vector' = VectorsWithout(T)
    BY <2>1, <2>2
  <2>4. QED
    BY <2>1, <2>3, RemovalStays
<1>5. ASSUME NEW v \in Conversations, CrashInDeleteConversation(v)
      PROVE  \A e \in Docs : Stays(e) /\ NoneComesUp(e)
  <2>1. PICK rowless \in SUBSET SessionDocs(v) : \E vectorless \in SUBSET rowless :
          row' = RowsWithout(rowless) /\ vector' = VectorsWithout(vectorless)
    BY <1>5 DEF CrashInDeleteConversation
  <2>2. rowless \in SUBSET Docs /\ \A d \in rowless : Present(d)
    BY DEF SessionDocs
  <2>3. QED
    BY <2>1, <2>2, RemovalStays
<1>6. QED
  BY <1>1, <1>2, <1>3, <1>4, <1>5 DEF CrashAnywhere

LEMMA EmbeddingStays ==
  ASSUME IndInv, NEW d \in Docs, EmbeddingReturns(d)
  PROVE  /\ \A e \in Docs : e # d => Stays(e) /\ NoneComesUp(e) /\ ingest'[e] = ingest[e]
         /\ row'[d].state = "present" /\ row'[d].scope = ingest[d].scope
         /\ ingest'[d].kind = "none"
BY DEF EmbeddingReturns, StoreChunks, IndInv, StoreTypeOK, Stays, NoneComesUp, Present, NoIngest

LEMMA FailStays ==
  ASSUME IndInv, DocumentsSettle, NEW d \in Docs, IngestFails(d)
  PROVE  /\ \A e \in Docs : Stays(e) /\ NoneComesUp(e)
         /\ \A e \in Docs : e # d => ingest'[e] = ingest[e]
         /\ ingest'[d].kind = "none"
<1>1. \A e \in Docs : Stays(e) /\ NoneComesUp(e)
  BY PartlyStays, UntouchedStays DEF IngestFails
<1>2. QED
  BY <1>1 DEF IngestFails, IndInv, StoreTypeOK, NoIngest

(* Requests and crashes start no upload.                                   *)
LEMMA RequestIngests ==
  ASSUME IndInv, StoreRequest
  PROVE  \A d \in Docs : /\ ingest'[d].kind = "upload" <=> ingest[d].kind = "upload"
                         /\ ingest'[d].kind = ingest[d].kind \/ row[d].state = "absent"
<1>1. ASSUME NEW c \in Docs, AttachDoc(c)
      PROVE  \A d \in Docs : /\ ingest'[d].kind = "upload" <=> ingest[d].kind = "upload"
                             /\ ingest'[d].kind = ingest[d].kind \/ row[d].state = "absent"
  <2>1. PICK x : x.kind = "attach" /\ ingest' = [ingest EXCEPT ![c] = x]
    BY <1>1 DEF AttachDoc
  <2>2. ingest[c].kind = "none" /\ row[c].state = "absent" /\ ingest \in [Docs -> Ingest]
    BY <1>1 DEF AttachDoc, Fresh, IndInv, StoreTypeOK
  <2>3. QED
    BY <2>1, <2>2
<1>2. ASSUME ~\E c \in Docs : AttachDoc(c)
      PROVE  UNCHANGED ingest
  BY <1>2 DEF StoreRequest, PatchDoc, PatchNotPassedOn, DeleteDoc, DeleteDocRaises, AddConversation,
              DeleteConversation, DeleteConversationRaises, BeginChat, ChatRetrieves, ChatEnds
<1>3. QED
  BY <1>1, <1>2

-----------------------------------------------------------------------------
(* Counting.                                                               *)

LEMMA ChunksFinite == /\ IsFiniteSet(Chunks) /\ Cardinality(Chunks) = NumChunks
<1>1. NumChunks \in Nat
  BY DocumentAssumption
<1>2. QED
  BY <1>1, FS_Interval DEF Chunks

LEMMA SetsOfChunks ==
  ASSUME NEW S \in SUBSET Chunks
  PROVE  IsFiniteSet(S) /\ Cardinality(S) \in 0 .. NumChunks
<1>1. IsFiniteSet(S) /\ Cardinality(S) <= NumChunks /\ NumChunks \in Nat
  BY ChunksFinite, FS_Subset, DocumentAssumption
<1>2. Cardinality(S) \in Nat
  BY <1>1, FS_CardinalityType
<1>3. QED
  BY <1>1, <1>2

LEMMA IdsInRange ==
  ASSUME NEW n, NEW kept \in SUBSET Chunks
  PROVE  IdOf(n, kept) \in 0 .. NumChunks
<1>1. {m \in kept : m < n} \in SUBSET Chunks
  OBVIOUS
<1>2. QED
  BY <1>1, SetsOfChunks DEF IdOf

(* The chunks of documents that have had a row.                            *)
LEMMA ChunksOfFinite ==
  ASSUME DocumentsSettle, NEW R \in SUBSET Docs, \A d \in R : row[d].state # "absent"
  PROVE  /\ IsFiniteSet(R \X Chunks)
         /\ IsFiniteSet(ChunksOf(R)) /\ Cardinality(ChunksOf(R)) \in Nat
<1> DEFINE had == {d \in Docs : row[d].state # "absent"}
<1>1. IsFiniteSet(had) /\ R \in SUBSET had
  BY DEF DocumentsSettle
<1>2. IsFiniteSet(R)
  BY <1>1, FS_Subset
<1>3. IsFiniteSet(R \X Chunks)
  BY <1>2, ChunksFinite, FS_Product
<1>4. ChunksOf(R) \in SUBSET (R \X Chunks)
  BY DEF ChunksOf
<1>5. IsFiniteSet(ChunksOf(R))
  BY <1>3, <1>4, FS_Subset
<1>6. QED
  BY <1>3, <1>5, FS_CardinalityType

(* The documents counted and those that could not be.                      *)
LEMMA ChunksOfBoth ==
  ASSUME DocumentsSettle, NEW R \in SUBSET Docs, \A d \in R : row[d].state # "absent",
         NEW S \in SUBSET R
  PROVE  /\ Cardinality(ChunksOf(S)) \in Nat /\ Cardinality(ChunksOf(R \ S)) \in Nat
         /\ Cardinality(ChunksOf(R)) = Cardinality(ChunksOf(R \ S)) + Cardinality(ChunksOf(S))
<1> PICK X : X = ChunksOf(R \ S)
  OBVIOUS
<1> PICK Y : Y = ChunksOf(S)
  OBVIOUS
<1>1. IsFiniteSet(X) /\ IsFiniteSet(Y) /\ Cardinality(X) \in Nat /\ Cardinality(Y) \in Nat
  <2>1. R \ S \in SUBSET Docs /\ S \in SUBSET Docs
    OBVIOUS
  <2>2. QED
    BY <2>1, ChunksOfFinite
<1>2. ChunksOf(R) = X \cup Y /\ X \cap Y = {}
  BY DEF ChunksOf
<1>3. Cardinality(X \cup Y) = Cardinality(X) + Cardinality(Y) - Cardinality(X \cap Y)
  BY <1>1, FS_Union
<1>4. Cardinality(X \cap Y) = 0
  BY <1>2, FS_EmptySet
<1>5. Cardinality(X \cup Y) = Cardinality(X) + Cardinality(Y)
  BY <1>1, <1>3, <1>4
<1>6. QED
  BY <1>1, <1>2, <1>5

(* One document is taken out.                                              *)
LEMMA ChunksOfSplit ==
  ASSUME IndInv, DocumentsSettle, NEW R \in SUBSET Docs, \A d \in R : row[d].state # "absent",
         NEW d \in R
  PROVE  Cardinality(ChunksOf(R)) = Cardinality(vector[d].kept) + Cardinality(ChunksOf(R \ {d}))
<1> PICK kept : kept = vector[d].kept
  OBVIOUS
<1> PICK rest : rest = ChunksOf(R \ {d})
  OBVIOUS
<1> PICK own : own = {c \in {d} \X Chunks : c[2] \in kept}
  OBVIOUS
<1>1. kept \in SUBSET Chunks
  BY DEF IndInv, StoreTypeOK, Vector
<1>2. IsFiniteSet(kept) /\ IsFiniteSet(rest)
  BY <1>1, SetsOfChunks, ChunksOfFinite
<1>3. ExistsBijection(kept, own)
  <2> DEFINE f == [n \in kept |-> <<d, n>>]
  <2>1. f \in [kept -> own]
    BY <1>1
  <2>2. \A n, m \in kept : f[n] = f[m] => n = m
    OBVIOUS
  <2>3. \A c \in own : \E n \in kept : f[n] = c
    <3>1. ASSUME NEW c \in own PROVE \E n \in kept : f[n] = c
      <4>1. PICK n \in Chunks : c = <<d, n>> /\ n \in kept
        OBVIOUS
      <4>2. f[n] = c
        BY <4>1
      <4>3. QED
        BY <4>1, <4>2
    <3>2. QED
      BY <3>1
  <2> HIDE DEF f
  <2>4. f \in Bijection(kept, own)
    BY <2>1, <2>2, <2>3 DEF Bijection, Injection, IsInjective, Surjection
  <2>5. QED
    BY <2>4 DEF ExistsBijection
<1>4. IsFiniteSet(own) /\ Cardinality(own) = Cardinality(kept)
  BY <1>2, <1>3, FS_Bijection
<1>5. ChunksOf(R) = own \cup rest /\ own \cap rest = {}
  BY DEF ChunksOf
<1>6. Cardinality(own \cup rest) = Cardinality(own) + Cardinality(rest) - Cardinality(own \cap rest)
  BY <1>2, <1>4, FS_Union
<1>7. Cardinality(own) \in Nat /\ Cardinality(rest) \in Nat /\ Cardinality({}) = 0
  BY <1>2, <1>4, FS_CardinalityType, FS_EmptySet
<1>8. Cardinality(own \cap rest) = 0 /\ Cardinality(ChunksOf(R)) = Cardinality(own \cup rest)
  BY <1>5, <1>7
<1>9. Cardinality(ChunksOf(R)) = Cardinality(own) + Cardinality(rest)
  BY <1>6, <1>7, <1>8
<1>10. QED
  BY <1>4, <1>9

-----------------------------------------------------------------------------
(* The parts of the inductive invariant.                                   *)

IndexTyped ==
  /\ finalizing \in [Docs -> Final]
  /\ listed \subseteq Docs
  /\ edge \subseteq Docs \X (0 .. NumChunks) \X Chunks
  /\ vocabulary \subseteq Docs \X Scopes
  /\ reindex \in Reindex
  /\ uncounted \in Nat /\ unread \in Nat

ReindexInv == ReindexProgress /\ ReindexAddsUp

Parts ==
  /\ IndInv /\ IndexTyped /\ ListedIsInProgress /\ ReindexInv /\ VocabularyStaysHome
  /\ DocumentsSettle /\ HomesAreKnown

LEMMA PartsOfInv == IndInv /\ IndexIndInv <=> Parts
BY DEF IndInv, IndexIndInv, Parts, IndexTypeOK, IndexTyped, ReindexInv

(* The documents of a run.                                                 *)
LEMMA RunFacts ==
  ASSUME Parts
  PROVE  /\ reindex \in Reindex /\ Remaining \in SUBSET Docs
         /\ \A d \in Remaining : row[d].state # "absent"
         /\ ToCome \in SUBSET Remaining
         /\ reindex.done \in Nat /\ reindex.total \in Nat
         /\ uncounted \in Nat /\ unread \in Nat
         /\ IsFiniteSet(reindex.ids) /\ Cardinality(reindex.ids) \in Nat
<1>1. reindex \in Reindex /\ reindex.ids \in SUBSET Chunks
  BY DEF Parts, IndexTyped, Reindex
<1>2. IsFiniteSet(reindex.ids) /\ Cardinality(reindex.ids) \in Nat
  BY <1>1, SetsOfChunks
<1>3. \A d \in Remaining : row[d].state # "absent"
  BY DEF Parts, DocumentsSettle, Remaining
<1>4. QED
  BY <1>1, <1>2, <1>3 DEF Remaining, ToCome, Reindex, Parts, IndexTyped

(* Requests take chunks away with their documents only.                    *)
LEMMA ReindexKept ==
  ASSUME Parts, UNCHANGED <<reindex, uncounted, unread>>,
         \A d \in Docs : row[d].state # "absent" => Stays(d)
  PROVE  ReindexInv'
<1> PICK R : R = ToCome
  OBVIOUS
<1>1. /\ R \in SUBSET Docs /\ (\A d \in R : row[d].state # "absent")
      /\ reindex.done \in Nat /\ reindex.total \in Nat /\ Cardinality(reindex.ids) \in Nat
      /\ uncounted \in Nat /\ unread \in Nat
  BY RunFacts
<1> PICK X : X = ChunksOf(R)
  OBVIOUS
<1> PICK Y : Y = {c \in R \X Chunks : c[2] \in vector'[c[1]].kept}
  OBVIOUS
<1>2. ToCome' = R /\ Remaining' = Remaining
  BY DEF ToCome, Remaining
<1>3. ChunksOf(ToCome)' = Y
  BY <1>2 DEF ChunksOf
<1>4. Y \subseteq X /\ (Y = X \/ \E d \in R : row'[d].state = "deleted")
  BY <1>1 DEF ChunksOf, Stays
<1>5. IsFiniteSet(X) /\ Cardinality(X) \in Nat
  BY <1>1, ChunksOfFinite DEF Parts
<1>6. Cardinality(Y) <= Cardinality(X) /\ Cardinality(Y) \in Nat
  BY <1>4, <1>5, FS_Subset, FS_CardinalityType
<1>7. /\ Accounted = reindex.done + Cardinality(reindex.ids) + Cardinality(X)
      /\ Accounted' = reindex.done + Cardinality(reindex.ids) + Cardinality(Y)
  BY <1>3 DEF Accounted
<1>8. (\E d \in Docs : row[d].state = "deleted") => \E d \in Docs : row'[d].state = "deleted"
  BY DEF Stays
<1>9. ReindexProgress'
  BY <1>2, <1>8 DEF Parts, ReindexInv, ReindexProgress
<1>10. ASSUME reindex.status \in {"scheduled", "running"}
       PROVE  /\ Accounted' + unread <= reindex.total + uncounted
              /\ Accounted' + unread # reindex.total + uncounted =>
                   \E d \in Docs : row'[d].state = "deleted"
  <2>1. /\ Accounted + unread <= reindex.total + uncounted
        /\ Accounted + unread # reindex.total + uncounted => \E d \in Docs : row[d].state = "deleted"
    BY <1>10 DEF Parts, ReindexInv, ReindexAddsUp
  <2>2. Accounted' + unread <= reindex.total + uncounted
    BY <1>1, <1>5, <1>6, <1>7, <2>1
  <2>3. CASE Y = X
    BY <1>7, <1>8, <2>1, <2>3
  <2>4. CASE \E d \in R : row'[d].state = "deleted"
    BY <1>1, <2>2, <2>4
  <2>5. QED
    BY <1>4, <2>2, <2>3, <2>4
<1>11. ReindexAddsUp'
  BY <1>2, <1>10 DEF Parts, ReindexInv, ReindexAddsUp
<1>12. QED
  BY <1>9, <1>11 DEF ReindexInv

(* What is left of the chunks announced when the run looks for a document. *)
Balanced(run) ==
  LET R == {d \in Docs : run.left[d] # None} IN
  /\ run \in Reindex
  /\ \A d \in R : row[d].state # "absent"
  /\ run.done + Cardinality(ChunksOf(R)) + unread <= run.total + uncounted
  /\ run.done + Cardinality(ChunksOf(R)) + unread # run.total + uncounted =>
       \E d \in Docs : row[d].state = "deleted"

LEMMA GoesOnKeeps ==
  ASSUME Parts, NEW run, Balanced(run), GoesOn(run), UNCHANGED <<row, vector, uncounted>>
  PROVE  reindex' \in Reindex /\ reindex'.left = run.left /\ unread' \in Nat /\ ReindexInv'
<1> PICK R : R = {d \in Docs : run.left[d] # None}
  OBVIOUS
<1>1. /\ run \in Reindex /\ R \in SUBSET Docs /\ \A d \in R : row[d].state # "absent"
      /\ run.done \in Nat /\ run.total \in Nat /\ uncounted \in Nat /\ unread \in Nat
  BY RunFacts DEF Balanced, Reindex
<1> PICK n : n = Cardinality(ChunksOf(R))
  OBVIOUS
<1>2. /\ n \in Nat /\ run.done + n + unread <= run.total + uncounted
      /\ run.done + n + unread # run.total + uncounted => \E d \in Docs : row[d].state = "deleted"
  <2>1. n \in Nat
    BY <1>1, ChunksOfFinite DEF Parts
  <2>2. QED
    BY <2>1 DEF Balanced
<1>3. CASE /\ R = {} /\ reindex' = [run EXCEPT !.status = "completed", !.current = None, !.ids = {}]
           /\ UNCHANGED unread
  <2>1. /\ reindex' \in Reindex /\ reindex'.left = run.left /\ reindex'.status = "completed"
        /\ reindex'.done = run.done /\ reindex'.total = run.total
    BY <1>1, <1>3 DEF Reindex
  <2>2. n = 0
    <3>1. ChunksOf({}) = {}
      BY DEF ChunksOf
    <3>2. QED
      BY <1>3, <3>1, FS_EmptySet
  <2>3. Remaining' = {}
    BY <1>3, <2>1 DEF Remaining
  <2>4. /\ run.done + unread <= run.total + uncounted
        /\ run.done + unread # run.total + uncounted => \E d \in Docs : row[d].state = "deleted"
    BY <1>1, <1>2, <2>2
  <2>5. ReindexProgress'
    BY <1>3, <2>1, <2>3, <2>4 DEF ReindexProgress
  <2>6. ReindexAddsUp'
    BY <2>1 DEF ReindexAddsUp
  <2>7. QED
    BY <1>1, <1>3, <2>1, <2>5, <2>6 DEF ReindexInv
<1>4. ASSUME NEW d \in R, Reads(run, d)
      PROVE  reindex' \in Reindex /\ reindex'.left = run.left /\ unread' \in Nat /\ ReindexInv'
  <2> PICK kept : kept = vector[d].kept
    OBVIOUS
  <2> PICK ids \in {kept, {}} :
         /\ reindex' = [run EXCEPT !.status = "running", !.current = d, !.ids = ids]
         /\ unread' = unread + Cardinality(kept \ ids)
    BY <1>4 DEF Reads
  <2>1. kept \in SUBSET Chunks /\ ids \in SUBSET Chunks /\ d \in Docs
    BY <1>1 DEF Parts, IndInv, StoreTypeOK, Vector
  <2>2. /\ reindex' \in Reindex /\ reindex'.left = run.left /\ reindex'.status = "running"
        /\ reindex'.done = run.done /\ reindex'.total = run.total
        /\ reindex'.current = d /\ reindex'.ids = ids
    BY <1>1, <1>4, <2>1 DEF Reindex
  <2> PICK rest : rest = Cardinality(ChunksOf(R \ {d}))
    OBVIOUS
  <2>3. n = Cardinality(kept) + rest
    BY <1>1, <1>4, ChunksOfSplit DEF Parts
  <2>4. Cardinality(kept) \in Nat /\ rest \in Nat
    <3>1. R \ {d} \in SUBSET Docs /\ \A e \in R \ {d} : row[e].state # "absent"
      BY <1>1
    <3>2. rest \in Nat
      BY <3>1, ChunksOfFinite DEF Parts
    <3>3. QED
      BY <2>1, <3>2, SetsOfChunks
  <2>5. Remaining' = R /\ ToCome' = R \ {d}
    BY <2>2 DEF Remaining, ToCome
  <2>6. ChunksOf(ToCome)' = ChunksOf(R \ {d})
    BY <2>5 DEF ChunksOf
  <2>7. Accounted' = run.done + Cardinality(ids) + rest
    BY <2>2, <2>6 DEF Accounted
  <2> PICK missed : missed = Cardinality(kept \ ids)
    OBVIOUS
  <2>8. missed \in Nat /\ Cardinality(ids) \in Nat /\ Cardinality(ids) + missed = Cardinality(kept)
    <3>1. CASE ids = kept
      BY <2>4, <3>1, FS_EmptySet
    <3>2. CASE ids = {}
      BY <2>4, <3>2, FS_EmptySet
    <3>3. QED
      BY <3>1, <3>2
  <2>9. unread' \in Nat /\ unread' = unread + missed
    BY <1>1, <2>8
  <2>10. Accounted' + unread' = run.done + n + unread
    BY <1>1, <2>3, <2>4, <2>7, <2>8, <2>9
  <2>11. ReindexAddsUp'
    BY <1>2, <1>4, <2>2, <2>5, <2>10 DEF ReindexAddsUp
  <2>12. ReindexProgress'
    <3>1. run.done + unread' <= run.total + uncounted
      BY <1>1, <1>2, <2>4, <2>7, <2>10, <2>8, <2>9
    <3>2. QED
      BY <2>2, <3>1 DEF ReindexProgress
  <2>13. QED
    BY <2>2, <2>11, <2>12, <2>9 DEF ReindexInv
<1>5. QED
  BY <1>3, <1>4 DEF GoesOn

-----------------------------------------------------------------------------
(* The work in the background.                                             *)

LEMMA StoreStill ==
  ASSUME Parts, UNCHANGED storeVars
  PROVE  IndInv' /\ UNCHANGED row /\ UNCHANGED vector /\ UNCHANGED ingest
BY NextStep DEF Parts, storeVars

(* Concepts are recorded for a home of their document.                     *)
LEMMA LinkedKeeps ==
  ASSUME Parts, NEW d \in Docs, NEW links \in SUBSET (Docs \X (0 .. NumChunks) \X Chunks),
         NEW scope, <<d, scope>> \in homes, Linked(d, links, scope),
         homes \subseteq homes', UNCHANGED migrated
  PROVE  /\ edge' \subseteq Docs \X (0 .. NumChunks) \X Chunks
         /\ vocabulary' \subseteq Docs \X Scopes
         /\ VocabularyStaysHome'
<1>1. /\ edge' = edge \cup links
      /\ vocabulary' = vocabulary \/ vocabulary' = vocabulary \cup {<<d, scope>>}
  BY DEF Linked
<1>2. <<d, scope>> \in Docs \X Scopes
  BY DEF Parts, HomesAreKnown
<1>3. VocabularyStaysHome'
  BY <1>1 DEF Parts, VocabularyStaysHome
<1>4. QED
  BY <1>1, <1>2, <1>3 DEF Parts, IndexTyped

(* The edges that are written name chunks of the text and ids in range.    *)
LEMMA LinksTyped ==
  ASSUME NEW d \in Docs
  PROVE  /\ \A found \in SUBSET Chunks :
              Renumbered(d, found) \in SUBSET (Docs \X (0 .. NumChunks) \X Chunks)
         /\ reindex.ids \in SUBSET Chunks => \A found \in SUBSET reindex.ids :
              Numbered(d, found) \in SUBSET (Docs \X (0 .. NumChunks) \X Chunks)
<1>1. \A n \in Chunks : n - 1 \in 0 .. NumChunks
  BY DocumentAssumption DEF Chunks
<1>2. ASSUME reindex.ids \in SUBSET Chunks, NEW found \in SUBSET reindex.ids, NEW m \in found
      PROVE  <<d, IdOf(m, reindex.ids), m>> \in Docs \X (0 .. NumChunks) \X Chunks
  <2>1. IdOf(m, reindex.ids) \in 0 .. NumChunks /\ m \in Chunks
    BY <1>2, IdsInRange
  <2>2. QED
    BY <2>1
<1>3. QED
  BY <1>1, <1>2 DEF Renumbered, Numbered

(* So it is when a crash cuts off the writing.                             *)
LEMMA LinkingCutOffKeeps ==
  ASSUME Parts, NEW d \in Docs, NEW links \in SUBSET (Docs \X (0 .. NumChunks) \X Chunks),
         NEW scope, <<d, scope>> \in homes, LinkingCutOff(d, links, scope),
         homes \subseteq homes', UNCHANGED migrated
  PROVE  /\ edge' \subseteq Docs \X (0 .. NumChunks) \X Chunks
         /\ vocabulary' \subseteq Docs \X Scopes
         /\ VocabularyStaysHome'
<1> PICK part \in SUBSET links :
      Linked(d, part, scope) \/ (edge' = edge \cup part /\ UNCHANGED vocabulary)
  BY DEF LinkingCutOff
<1>1. CASE Linked(d, part, scope)
  BY <1>1, LinkedKeeps
<1>2. CASE edge' = edge \cup part /\ UNCHANGED vocabulary
  BY <1>2 DEF Parts, IndexTyped, VocabularyStaysHome
<1>3. QED
  BY <1>1, <1>2

LEMMA StageKeeps ==
  ASSUME Parts, NEW d \in Docs, StartFinalizing(d) \/ SummaryReturns(d), UNCHANGED storeVars
  PROVE  Parts'
<1> PICK to \in {"summarizing", "extracting"} :
      /\ finalizing[d].stage # "none" /\ finalizing' = [finalizing EXCEPT ![d].stage = to]
  BY DEF StartFinalizing, SummaryReturns, Finalizing
<1>1. UNCHANGED <<listed, edge, vocabulary, reindex, homes, migrated, uncounted, unread>>
  BY DEF StartFinalizing, SummaryReturns, seenVars
<1>2. IndInv' /\ UNCHANGED row /\ UNCHANGED vector /\ UNCHANGED ingest
  BY StoreStill
<1>3. finalizing \in [Docs -> Final]
  BY DEF Parts, IndexTyped
<1> PICK x : x = [finalizing[d] EXCEPT !.stage = to]
  OBVIOUS
<1>4. x \in Final /\ x.stage # "none" /\ x.scope = finalizing[d].scope
  BY <1>3 DEF Final
<1>5. /\ finalizing' \in [Docs -> Final] /\ finalizing'[d] = x
      /\ \A e \in Docs : e # d => finalizing'[e] = finalizing[e]
  BY <1>3, <1>4
<1>6. IndexTyped'
  BY <1>1, <1>5 DEF Parts, IndexTyped
<1>7. ListedIsInProgress'
  BY <1>1, <1>2, <1>4, <1>5 DEF Parts, ListedIsInProgress
<1>8. ReindexInv'
  <2>1. \A e \in Docs : Stays(e)
    BY <1>2, UntouchedStays
  <2>2. QED
    BY <1>1, <2>1, ReindexKept
<1>9. DocumentsSettle'
  BY <1>1, <1>2, <1>5 DEF Parts, DocumentsSettle
<1>10. HomesAreKnown' /\ VocabularyStaysHome'
  BY <1>1, <1>2, <1>4, <1>5 DEF Parts, HomesAreKnown, VocabularyStaysHome, Present
<1>11. QED
  BY <1>2, <1>6, <1>7, <1>8, <1>9, <1>10 DEF Parts

LEMMA ExtractionKeeps ==
  ASSUME Parts, NEW d \in Docs, ExtractionReturns(d), UNCHANGED storeVars
  PROVE  Parts'
<1>1. /\ finalizing[d].stage = "extracting" /\ finalizing' = [finalizing EXCEPT ![d] = NoFinal]
      /\ listed' = listed \ {d} /\ UNCHANGED <<reindex, homes, migrated, uncounted, unread>>
  BY DEF ExtractionReturns, seenVars
<1>2. IndInv' /\ UNCHANGED row /\ UNCHANGED vector /\ UNCHANGED ingest
  BY StoreStill
<1>3. NoFinal \in Final /\ NoFinal.stage = "none"
  BY DEF NoFinal, Final
<1>4. /\ finalizing' \in [Docs -> Final] /\ finalizing'[d] = NoFinal
      /\ \A e \in Docs : e # d => finalizing'[e] = finalizing[e]
  BY <1>1, <1>3 DEF Parts, IndexTyped
<1>5. row[d].state # "absent" /\ ingest[d].kind = "none"
  BY <1>1 DEF Parts, DocumentsSettle
<1>6. /\ edge' \subseteq Docs \X (0 .. NumChunks) \X Chunks
      /\ vocabulary' \subseteq Docs \X Scopes
      /\ VocabularyStaysHome'
  <2> PICK found \in SUBSET Chunks : Linked(d, Renumbered(d, found), finalizing[d].scope)
    BY DEF ExtractionReturns
  <2> PICK links : links = Renumbered(d, found)
    OBVIOUS
  <2>2. links \in SUBSET (Docs \X (0 .. NumChunks) \X Chunks)
    BY LinksTyped
  <2> PICK scope : scope = finalizing[d].scope
    OBVIOUS
  <2>3. <<d, scope>> \in homes /\ Linked(d, links, scope)
    BY <1>1 DEF Parts, HomesAreKnown
  <2>4. QED
    BY <1>1, <2>2, <2>3, LinkedKeeps
<1>7. IndexTyped'
  BY <1>1, <1>4, <1>6 DEF Parts, IndexTyped
<1>8. ListedIsInProgress'
  BY <1>1, <1>2, <1>3, <1>4, <1>5 DEF Parts, ListedIsInProgress
<1>9. ReindexInv'
  <2>1. \A e \in Docs : Stays(e)
    BY <1>2, UntouchedStays
  <2>2. QED
    BY <1>1, <2>1, ReindexKept
<1>10. DocumentsSettle' /\ HomesAreKnown'
  BY <1>1, <1>2, <1>3, <1>4 DEF Parts, DocumentsSettle, HomesAreKnown, Present
<1>11. QED
  BY <1>2, <1>6, <1>7, <1>8, <1>9, <1>10 DEF Parts

(* A step of the reindex run, and of the migration.                        *)
LEMMA RunKeeps ==
  ASSUME Parts, UNCHANGED storeVars, UNCHANGED <<finalizing, listed, homes>>,
         reindex' \in Reindex, uncounted' \in Nat, unread' \in Nat, ReindexInv', VocabularyStaysHome',
         edge' \subseteq Docs \X (0 .. NumChunks) \X Chunks, vocabulary' \subseteq Docs \X Scopes,
         \A d \in Docs : reindex'.left[d] # None =>
           row[d].state # "absent" /\ <<d, reindex'.left[d]>> \in homes
  PROVE  Parts'
<1>1. IndInv' /\ UNCHANGED row /\ UNCHANGED vector /\ UNCHANGED ingest
  BY StoreStill
<1>2. IndexTyped' /\ ListedIsInProgress'
  BY <1>1 DEF Parts, IndexTyped, ListedIsInProgress
<1>3. DocumentsSettle' /\ HomesAreKnown'
  BY <1>1 DEF Parts, DocumentsSettle, HomesAreKnown, Present
<1>4. QED
  BY <1>1, <1>2, <1>3 DEF Parts

LEMMA BeginReindexKeeps ==
  ASSUME Parts, BeginReindex, UNCHANGED storeVars
  PROVE  Parts'
<1>1. UNCHANGED <<finalizing, listed, edge, vocabulary, homes, migrated>>
  BY DEF BeginReindex
<1> PICK docs \in SUBSET Docs :
      /\ \A d \in docs : Present(d)
      /\ \E failed \in SUBSET docs :
           /\ reindex' = [NoReindex EXCEPT !.status = "scheduled",
                            !.left = [d \in Docs |-> IF d \in docs THEN row[d].scope ELSE None],
                            !.total = Cardinality(ChunksOf(docs \ failed))]
           /\ uncounted' = Cardinality(ChunksOf(failed)) /\ unread' = 0
  <2> DEFINE of(within) == {e \in Docs : Present(e) /\ within \in {None, row[e].scope}}
  <2>1. PICK within \in {None} \cup Clients \cup Projects : \E failed \in SUBSET of(within) :
          /\ reindex' = [NoReindex EXCEPT !.status = "scheduled",
                           !.left = [d \in Docs |-> IF d \in of(within) THEN row[d].scope ELSE None],
                           !.total = Cardinality(ChunksOf(of(within) \ failed))]
          /\ uncounted' = Cardinality(ChunksOf(failed)) /\ unread' = 0
    BY DEF BeginReindex
  <2> PICK docs : docs = of(within)
    OBVIOUS
  <2>2. docs \in SUBSET Docs /\ \A d \in docs : Present(d)
    OBVIOUS
  <2>3. QED
    BY <2>1, <2>2
<1> PICK failed \in SUBSET docs :
      /\ reindex' = [NoReindex EXCEPT !.status = "scheduled",
                       !.left = [d \in Docs |-> IF d \in docs THEN row[d].scope ELSE None],
                       !.total = Cardinality(ChunksOf(docs \ failed))]
      /\ uncounted' = Cardinality(ChunksOf(failed)) /\ unread' = 0
  OBVIOUS
<1> PICK n : n = Cardinality(ChunksOf(docs \ failed))
  OBVIOUS
<1> PICK m : m = Cardinality(ChunksOf(failed))
  OBVIOUS
<1> PICK left : left = [d \in Docs |-> IF d \in docs THEN row[d].scope ELSE None]
  OBVIOUS
<1>2. \A d \in docs : row[d].scope \in Scopes /\ row[d].state # "absent"
  BY DEF Parts, IndInv, StoreTypeOK, Present
<1>3. /\ left \in [Docs -> Scopes \cup {None}]
      /\ \A d \in Docs : left[d] # None <=> d \in docs
      /\ \A d \in docs : left[d] = row[d].scope
  BY <1>2, DocumentAssumption
<1>4. n \in Nat /\ m \in Nat /\ Cardinality(ChunksOf(docs)) = n + m
  BY <1>2, ChunksOfBoth DEF Parts
<1>5. /\ reindex' \in Reindex /\ reindex'.status = "scheduled" /\ reindex'.left = left
      /\ reindex'.done = 0 /\ reindex'.total = n /\ reindex'.ids = {}
  BY <1>3, <1>4 DEF NoReindex, Reindex
<1>6. UNCHANGED row /\ UNCHANGED vector
  BY StoreStill
<1>7. Remaining' = docs /\ ToCome' = docs
  BY <1>3, <1>5 DEF Remaining, ToCome
<1>8. ChunksOf(ToCome)' = ChunksOf(docs)
  BY <1>6, <1>7 DEF ChunksOf
<1>9. Accounted' = n + m
  <2>1. Accounted' = 0 + Cardinality({}) + Cardinality(ChunksOf(docs))
    BY <1>5, <1>8 DEF Accounted
  <2>2. Cardinality({}) = 0
    BY FS_EmptySet
  <2>3. QED
    BY <1>4, <2>1, <2>2
<1>10. ReindexInv'
  <2>1. uncounted' = m /\ unread' = 0
    OBVIOUS
  <2>2. Accounted' + unread' = n + m /\ reindex'.total + uncounted' = n + m
    BY <1>4, <1>5, <1>9, <2>1
  <2>3. ReindexAddsUp'
    BY <1>4, <1>5, <2>2 DEF ReindexAddsUp
  <2>4. reindex'.done + unread' <= reindex'.total + uncounted'
    BY <1>4, <1>5, <2>1
  <2>5. ReindexProgress'
    BY <1>5, <2>4 DEF ReindexProgress
  <2>6. QED
    BY <2>3, <2>5 DEF ReindexInv
<1>11. \A d \in Docs : reindex'.left[d] # None =>
          row[d].state # "absent" /\ <<d, reindex'.left[d]>> \in homes
  BY <1>2, <1>3, <1>5 DEF Parts, HomesAreKnown, Present
<1>12. VocabularyStaysHome' /\ UNCHANGED edge /\ UNCHANGED vocabulary
  BY <1>1 DEF Parts, VocabularyStaysHome
<1>13. QED
  BY <1>1, <1>4, <1>5, <1>10, <1>11, <1>12, RunKeeps DEF Parts, IndexTyped

LEMMA StartReindexKeeps ==
  ASSUME Parts, StartReindex, UNCHANGED storeVars
  PROVE  Parts'
<1>1. /\ reindex.status = "scheduled" /\ GoesOn(reindex)
      /\ UNCHANGED <<finalizing, listed, edge, vocabulary, homes, migrated, uncounted>>
  BY DEF StartReindex
<1>2. Balanced(reindex)
  <2>1. ToCome = Remaining /\ reindex.ids = {}
    BY <1>1 DEF ToCome, Parts, ReindexInv, ReindexAddsUp
  <2>2. Cardinality(ChunksOf(Remaining)) \in Nat
    BY RunFacts, ChunksOfFinite DEF Parts
  <2>3. Accounted = reindex.done + Cardinality(ChunksOf(Remaining))
    BY <2>1, <2>2, RunFacts, FS_EmptySet DEF Accounted
  <2>4. QED
    BY <1>1, <2>3, RunFacts DEF Balanced, Remaining, Parts, ReindexInv, ReindexAddsUp
<1>3. UNCHANGED row /\ UNCHANGED vector
  BY StoreStill
<1> PICK run : run = reindex
  OBVIOUS
<1>4. reindex' \in Reindex /\ reindex'.left = reindex.left /\ unread' \in Nat /\ ReindexInv'
  BY <1>1, <1>2, <1>3, GoesOnKeeps
<1>5. \A d \in Docs : reindex'.left[d] # None =>
        row[d].state # "absent" /\ <<d, reindex'.left[d]>> \in homes
  BY <1>4 DEF Parts, DocumentsSettle, HomesAreKnown
<1>6. VocabularyStaysHome' /\ UNCHANGED edge /\ UNCHANGED vocabulary
  BY <1>1 DEF Parts, VocabularyStaysHome
<1>7. QED
  BY <1>1, <1>4, <1>5, <1>6, RunKeeps DEF Parts, IndexTyped

LEMMA ReindexReturnsKeeps ==
  ASSUME Parts, ReindexReturns, UNCHANGED storeVars
  PROVE  Parts'
<1>1. reindex.status = "running" /\ UNCHANGED <<finalizing, listed, homes, migrated, uncounted>>
  BY DEF ReindexReturns
<1> PICK d : d = reindex.current
  OBVIOUS
<1> PICK left : left = [reindex.left EXCEPT ![d] = None]
  OBVIOUS
<1> PICK found \in SUBSET reindex.ids : Reindexed(d, found) /\ GoesOn(Advanced(left, found))
  BY DEF ReindexReturns
<1> PICK run : run = Advanced(left, found)
  OBVIOUS
<1>2. /\ d \in Remaining /\ d \in Docs /\ reindex \in Reindex /\ ToCome = Remaining \ {d}
      /\ reindex.ids \in SUBSET Chunks /\ reindex.left \in [Docs -> Scopes \cup {None}]
      /\ reindex.left[d] # None
  BY <1>1, RunFacts DEF Parts, ReindexInv, ReindexAddsUp, ToCome, Remaining, Reindex
<1> PICK c : c = Cardinality(reindex.ids)
  OBVIOUS
<1> PICK R : R = Remaining \ {d}
  OBVIOUS
<1> PICK n : n = Cardinality(ChunksOf(R))
  OBVIOUS
<1>3. c \in Nat /\ n \in Nat /\ reindex.done \in Nat /\ reindex.total \in Nat
  <2>1. R \in SUBSET Docs /\ \A e \in R : row[e].state # "absent"
    BY RunFacts
  <2>2. QED
    BY <2>1, RunFacts, ChunksOfFinite DEF Parts
<1>4. /\ run \in Reindex /\ run.left = left
      /\ run.done = reindex.done + c /\ run.total = reindex.total
  <2>1. run = [reindex EXCEPT !.left = left, !.done = reindex.done + c]
    BY DEF Advanced
  <2>2. left \in [Docs -> Scopes \cup {None}] /\ reindex.done + c \in Nat
    BY <1>2, <1>3
  <2>3. QED
    BY <1>2, <2>1, <2>2 DEF Reindex
<1>5. \A e \in Docs : /\ e = d => left[e] = None
                      /\ e # d => left[e] = reindex.left[e]
  BY <1>2
<1>6. {e \in Docs : run.left[e] # None} = R
  BY <1>2, <1>4, <1>5 DEF Remaining
<1>7. Balanced(run)
  <2>1. Accounted = run.done + n
    BY <1>2, <1>4 DEF Accounted
  <2>2. /\ run.done + n + unread <= run.total + uncounted
        /\ run.done + n + unread # run.total + uncounted => \E e \in Docs : row[e].state = "deleted"
    BY <1>1, <1>4, <2>1 DEF Parts, ReindexInv, ReindexAddsUp
  <2>3. QED
    BY <1>4, <1>6, <2>2, RunFacts DEF Balanced
<1>8. UNCHANGED row /\ UNCHANGED vector
  BY StoreStill
<1>9. reindex' \in Reindex /\ reindex'.left = left /\ unread' \in Nat /\ ReindexInv'
  BY <1>1, <1>4, <1>7, <1>8, GoesOnKeeps
<1>10. \A e \in Docs : reindex'.left[e] # None =>
          row[e].state # "absent" /\ <<e, reindex'.left[e]>> \in homes
  BY <1>5, <1>9 DEF Parts, DocumentsSettle, HomesAreKnown
<1>11. /\ edge' \subseteq Docs \X (0 .. NumChunks) \X Chunks
       /\ vocabulary' \subseteq Docs \X Scopes
       /\ VocabularyStaysHome'
  <2> PICK links : links = Numbered(d, found)
    OBVIOUS
  <2> PICK scope : scope = reindex.left[d]
    OBVIOUS
  <2>1. links \in SUBSET (Docs \X (0 .. NumChunks) \X Chunks)
    BY <1>2, LinksTyped
  <2>2. <<d, scope>> \in homes /\ Linked(d, links, scope)
    BY <1>2 DEF Reindexed, Parts, HomesAreKnown
  <2>3. QED
    BY <1>1, <1>2, <2>1, <2>2, LinkedKeeps
<1>12. QED
  BY <1>1, <1>9, <1>10, <1>11, RunKeeps, RunFacts

LEMMA ReindexRaisesKeeps ==
  ASSUME Parts, ReindexRaises, UNCHANGED storeVars
  PROVE  Parts'
<1>1. /\ reindex' = [NoReindex EXCEPT !.status = "failed", !.done = reindex.done, !.total = reindex.total]
      /\ UNCHANGED <<finalizing, listed, edge, vocabulary, homes, migrated, uncounted, unread>>
  BY DEF ReindexRaises, seenVars
<1>2. /\ reindex' \in Reindex /\ reindex'.status = "failed"
      /\ \A d \in Docs : reindex'.left[d] = None
      /\ reindex'.done = reindex.done /\ reindex'.total = reindex.total
  BY <1>1, RunFacts DEF NoReindex, Reindex
<1>3. ReindexInv'
  <2>1. ReindexProgress'
    BY <1>1, <1>2 DEF Parts, ReindexInv, ReindexProgress
  <2>2. ReindexAddsUp'
    BY <1>2 DEF ReindexAddsUp
  <2>3. QED
    BY <2>1, <2>2 DEF ReindexInv
<1>4. \A d \in Docs : reindex'.left[d] # None =>
        row[d].state # "absent" /\ <<d, reindex'.left[d]>> \in homes
  BY <1>2
<1>5. VocabularyStaysHome' /\ UNCHANGED edge /\ UNCHANGED vocabulary
  BY <1>1 DEF Parts, VocabularyStaysHome
<1>6. QED
  BY <1>1, <1>2, <1>3, <1>4, <1>5, RunKeeps DEF Parts, IndexTyped

LEMMA MigrationKeeps ==
  ASSUME Parts, MigrateVocabulary, UNCHANGED storeVars
  PROVE  Parts'
<1>1. /\ vocabulary' = vocabulary \cup {<<e[1], Global>> : e \in edge} /\ migrated' = TRUE
      /\ UNCHANGED <<finalizing, listed, edge, reindex, homes, uncounted, unread>>
  BY DEF MigrateVocabulary, Everybodys
<1>2. ReindexInv'
  <2>1. \A e \in Docs : Stays(e)
    BY StoreStill, UntouchedStays
  <2>2. QED
    BY <1>1, <2>1, ReindexKept
<1>3. /\ vocabulary' \subseteq Docs \X Scopes
      /\ edge' \subseteq Docs \X (0 .. NumChunks) \X Chunks /\ reindex' \in Reindex
  BY <1>1 DEF Parts, IndexTyped, Scopes
<1>4. VocabularyStaysHome'
  BY <1>1 DEF Parts, VocabularyStaysHome
<1>5. \A d \in Docs : reindex'.left[d] # None =>
        row[d].state # "absent" /\ <<d, reindex'.left[d]>> \in homes
  BY <1>1 DEF Parts, DocumentsSettle, HomesAreKnown
<1>6. QED
  BY <1>1, <1>2, <1>3, <1>4, <1>5, RunKeeps, RunFacts

-----------------------------------------------------------------------------
(* Uploads, requests and crashes.                                          *)

LEMMA SetOfRows ==
  ASSUME DocumentsSettle, NEW d \in Docs, \A e \in Docs : e # d => Stays(e)
  PROVE  IsFiniteSet({e \in Docs : row'[e].state # "absent"})
<1> PICK had : had = {e \in Docs : row[e].state # "absent"}
  OBVIOUS
<1>1. IsFiniteSet(had \cup {d})
  BY FS_AddElement DEF DocumentsSettle
<1>2. {e \in Docs : row'[e].state # "absent"} \in SUBSET (had \cup {d})
  BY DEF Stays
<1>3. QED
  BY <1>1, <1>2, FS_Subset

LEMMA UploadKeeps ==
  ASSUME Parts, NEW d \in Docs, Upload(d)
  PROVE  Parts'
<1>1. /\ UploadDoc(d) /\ listed' = listed \cup {d}
      /\ UNCHANGED <<finalizing, edge, vocabulary, reindex, homes, migrated, uncounted, unread>>
      /\ UNCHANGED <<row, vector>>
  BY DEF Upload, UploadDoc, seenVars
<1>2. IndInv'
  BY <1>1, UploadStep DEF Parts
<1>3. row[d].state = "absent" /\ ingest[d].kind = "none"
  BY <1>1 DEF UploadDoc, Fresh
<1>4. /\ ingest'[d].kind = "upload"
      /\ \A e \in Docs : e # d => ingest'[e] = ingest[e]
  BY <1>1 DEF UploadDoc, Parts, IndInv, StoreTypeOK
<1>5. IndexTyped'
  BY <1>1 DEF Parts, IndexTyped
<1>6. ListedIsInProgress'
  BY <1>1, <1>4 DEF Parts, ListedIsInProgress
<1>7. ReindexInv'
  BY <1>1, UntouchedStays, ReindexKept
<1>8. DocumentsSettle' /\ HomesAreKnown' /\ VocabularyStaysHome'
  BY <1>1, <1>3, <1>4 DEF Parts, DocumentsSettle, HomesAreKnown, VocabularyStaysHome, Present
<1>9. QED
  BY <1>2, <1>5, <1>6, <1>7, <1>8 DEF Parts

LEMMA IngestReturnsKeeps ==
  ASSUME Parts, NEW d \in Docs, IngestReturns(d)
  PROVE  Parts'
<1>1. /\ EmbeddingReturns(d) /\ ingest[d].kind # "none"
      /\ homes' = homes \cup {<<d, ingest[d].scope>>}
      /\ UNCHANGED <<edge, vocabulary, reindex, migrated, uncounted, unread>>
  BY DEF IngestReturns, EmbeddingReturns
<1>2. IndInv'
  BY <1>1, EmbeddingStep DEF Parts
<1>3. /\ \A e \in Docs : e # d => Stays(e) /\ NoneComesUp(e) /\ ingest'[e] = ingest[e]
      /\ row'[d].state = "present" /\ row'[d].scope = ingest[d].scope
      /\ ingest'[d].kind = "none"
  BY <1>1, EmbeddingStays DEF Parts
<1>4. row[d].state = "absent" /\ finalizing[d].stage = "none" /\ reindex.left[d] = None
  BY <1>1 DEF Parts, DocumentsSettle
<1>5. ingest[d].scope \in Scopes
  BY <1>1 DEF Parts, IndInv, IngestsClassified
<1> PICK x : x = [stage |-> "scheduled", scope |-> ingest[d].scope]
  OBVIOUS
<1>6. x \in Final /\ x.stage # "none" /\ x.scope = ingest[d].scope
  BY <1>5 DEF Final
<1>7. \/ /\ ingest[d].kind = "upload" /\ UNCHANGED listed
         /\ finalizing' = [finalizing EXCEPT ![d] = x]
      \/ UNCHANGED finalizing /\ listed' = listed \ {d}
  BY DEF IngestReturns, Scheduled
<1>8. finalizing \in [Docs -> Final]
  BY DEF Parts, IndexTyped
<1>9. /\ finalizing' \in [Docs -> Final]
      /\ \A e \in Docs : e # d => finalizing'[e] = finalizing[e]
      /\ finalizing'[d] = x \/ finalizing'[d] = finalizing[d]
  BY <1>6, <1>7, <1>8
<1>10. IndexTyped'
  BY <1>1, <1>7, <1>9 DEF Parts, IndexTyped
<1>11. ListedIsInProgress'
  <2>1. CASE UNCHANGED listed /\ ingest[d].kind = "upload" /\ finalizing' = [finalizing EXCEPT ![d] = x]
    <3>1. finalizing'[d] = x
      BY <1>8, <2>1
    <3>2. QED
      BY <1>3, <1>6, <1>9, <2>1, <3>1 DEF Parts, ListedIsInProgress
  <2>2. CASE UNCHANGED finalizing /\ listed' = listed \ {d}
    BY <1>3, <1>4, <2>2 DEF Parts, ListedIsInProgress
  <2>3. QED
    BY <1>7, <2>1, <2>2
<1>12. ReindexInv'
  BY <1>1, <1>3, <1>4, ReindexKept
<1>13. DocumentsSettle'
  <2>1. IsFiniteSet({e \in Docs : row'[e].state # "absent"})
    BY <1>3, SetOfRows DEF Parts
  <2>2. ASSUME NEW e \in Docs
        PROVE  /\ row'[e].state = "absent" \/ ingest'[e].kind = "none"
               /\ finalizing'[e].stage # "none" \/ reindex'.left[e] # None =>
                    row'[e].state # "absent"
    <3>1. CASE e = d
      BY <1>3, <3>1
    <3>2. CASE e # d
      <4>1. Stays(e) /\ ingest'[e] = ingest[e] /\ finalizing'[e] = finalizing[e]
        BY <1>3, <1>9, <3>2
      <4>2. QED
        BY <1>1, <4>1 DEF Parts, DocumentsSettle, Stays
    <3>3. QED
      BY <3>1, <3>2
  <2>3. QED
    BY <2>1, <2>2 DEF DocumentsSettle
<1>14. HomesAreKnown'
  <2>1. homes' \subseteq Docs \X Scopes
    BY <1>1, <1>5 DEF Parts, HomesAreKnown
  <2>2. ASSUME NEW e \in Docs
        PROVE  /\ row'[e].state = "present" => <<e, row'[e].scope>> \in homes'
               /\ finalizing'[e].stage # "none" => <<e, finalizing'[e].scope>> \in homes'
               /\ reindex'.left[e] # None => <<e, reindex'.left[e]>> \in homes'
    <3>1. CASE e = d
      BY <1>1, <1>3, <1>4, <1>6, <1>9, <3>1
    <3>2. CASE e # d
      <4>1. NoneComesUp(e) /\ row'[e] = row[e] /\ finalizing'[e] = finalizing[e]
        BY <1>1, <1>3, <1>9, <3>2 DEF EmbeddingReturns, Parts, IndInv, StoreTypeOK
      <4>2. QED
        BY <1>1, <4>1 DEF Parts, HomesAreKnown, Present
    <3>3. QED
      BY <3>1, <3>2
  <2>3. QED
    BY <2>1, <2>2 DEF HomesAreKnown, Present
<1>15. VocabularyStaysHome'
  BY <1>1 DEF Parts, VocabularyStaysHome
<1>16. QED
  BY <1>2, <1>10, <1>11, <1>12, <1>13, <1>14, <1>15 DEF Parts

LEMMA IngestRaisesKeeps ==
  ASSUME Parts, NEW d \in Docs, IngestRaises(d)
  PROVE  Parts'
<1>1. /\ IngestFails(d) /\ ingest[d].kind # "none" /\ UNCHANGED row /\ listed' = listed \ {d}
      /\ UNCHANGED <<finalizing, edge, vocabulary, reindex, homes, migrated, uncounted, unread>>
  BY DEF IngestRaises, IngestFails, seenVars
<1>2. IndInv'
  BY <1>1, FailStep DEF Parts
<1>3. /\ \A e \in Docs : Stays(e) /\ NoneComesUp(e)
      /\ \A e \in Docs : e # d => ingest'[e] = ingest[e]
      /\ ingest'[d].kind = "none"
  BY <1>1, FailStays DEF Parts
<1>4. finalizing[d].stage = "none"
  BY <1>1 DEF Parts, DocumentsSettle
<1>5. IndexTyped'
  BY <1>1 DEF Parts, IndexTyped
<1>6. ListedIsInProgress'
  BY <1>1, <1>3, <1>4 DEF Parts, ListedIsInProgress
<1>7. ReindexInv'
  BY <1>1, <1>3, ReindexKept
<1>8. DocumentsSettle' /\ HomesAreKnown' /\ VocabularyStaysHome'
  BY <1>1, <1>3 DEF Parts, DocumentsSettle, HomesAreKnown, VocabularyStaysHome, Present
<1>9. QED
  BY <1>2, <1>5, <1>6, <1>7, <1>8 DEF Parts

(* Where a document was moved to has been recorded.                        *)
LEMMA HomesAfterMove ==
  ASSUME Parts, IndInv', \A d \in Docs : NoneComesUp(d),
         homes' = homes \cup {<<d, row'[d].scope>> : d \in {e \in Docs : Moved(e)}}
  PROVE  /\ homes' \subseteq Docs \X Scopes /\ homes \subseteq homes'
         /\ \A d \in Docs : row'[d].state = "present" => <<d, row'[d].scope>> \in homes'
<1>1. \A d \in Docs : row'[d].state = "present" => row'[d].scope \in Scopes
  BY DEF IndInv, StoreTypeOK
<1>2. homes' \subseteq Docs \X Scopes
  <2>1. \A d \in Docs : Moved(d) => row'[d].scope \in Scopes
    BY <1>1 DEF Moved
  <2>2. QED
    BY <2>1 DEF Parts, HomesAreKnown
<1>3. ASSUME NEW d \in Docs, row'[d].state = "present"
      PROVE  <<d, row'[d].scope>> \in homes'
  <2>1. Present(d)
    BY <1>3 DEF NoneComesUp
  <2>2. CASE row'[d].scope = row[d].scope
    BY <2>1, <2>2 DEF Parts, HomesAreKnown
  <2>3. CASE row'[d].scope # row[d].scope
    <3>1. Moved(d)
      BY <1>3, <2>1, <2>3 DEF Moved
    <3>2. QED
      BY <3>1
  <2>4. QED
    BY <2>2, <2>3
<1>4. QED
  BY <1>2, <1>3

LEMMA RequestKeeps ==
  ASSUME Parts, Request
  PROVE  Parts'
<1>1. /\ StoreRequest
      /\ homes' = homes \cup {<<d, row'[d].scope>> : d \in {e \in Docs : Moved(e)}}
      /\ UNCHANGED <<finalizing, listed, edge, vocabulary, reindex, migrated, uncounted, unread>>
  BY DEF Request, Rehomed
<1>2. IndInv'
  BY <1>1, NextStep DEF Parts, StoreNext
<1>3. \A d \in Docs : Stays(d) /\ NoneComesUp(d)
  BY <1>1, RequestStays DEF Parts
<1>4. \A d \in Docs : /\ ingest'[d].kind = "upload" <=> ingest[d].kind = "upload"
                      /\ ingest'[d].kind = ingest[d].kind \/ row[d].state = "absent"
  BY <1>1, RequestIngests DEF Parts
<1>5. IndexTyped'
  BY <1>1 DEF Parts, IndexTyped
<1>6. ListedIsInProgress'
  BY <1>1, <1>4 DEF Parts, ListedIsInProgress
<1>7. ReindexInv'
  BY <1>1, <1>3, ReindexKept
<1>8. DocumentsSettle'
  <2>1. {e \in Docs : row'[e].state # "absent"} \in SUBSET {e \in Docs : row[e].state # "absent"}
    BY <1>3 DEF Stays
  <2>2. IsFiniteSet({e \in Docs : row'[e].state # "absent"})
    BY <2>1, FS_Subset DEF Parts, DocumentsSettle
  <2>3. QED
    BY <1>1, <1>3, <1>4, <2>2 DEF Parts, DocumentsSettle, Stays
<1>9. /\ homes' \subseteq Docs \X Scopes /\ homes \subseteq homes'
      /\ \A d \in Docs : row'[d].state = "present" => <<d, row'[d].scope>> \in homes'
  BY <1>1, <1>2, <1>3, HomesAfterMove
<1>10. HomesAreKnown' /\ VocabularyStaysHome'
  BY <1>1, <1>9 DEF Parts, HomesAreKnown, VocabularyStaysHome, Present
<1>11. QED
  BY <1>2, <1>5, <1>6, <1>7, <1>8, <1>10 DEF Parts

(* Nothing is under way after a restart.                                   *)
Idle ==
  /\ finalizing = [d \in Docs |-> NoFinal] /\ listed = {} /\ reindex = NoReindex
  /\ uncounted = 0 /\ unread = 0
  /\ \A d \in Docs : ingest[d].kind = "none"

IdleIsTyped ==
  /\ finalizing \in [Docs -> Final] /\ reindex \in Reindex
  /\ \A d \in Docs : finalizing[d].stage = "none" /\ reindex.left[d] = None

LEMMA IdleIsFine == Idle => IdleIsTyped /\ ListedIsInProgress /\ ReindexInv
<1> SUFFICES ASSUME Idle PROVE IdleIsTyped /\ ListedIsInProgress /\ ReindexInv
  OBVIOUS
<1>1. NoFinal \in Final /\ NoFinal.stage = "none"
  BY DEF NoFinal, Final
<1>2. /\ reindex \in Reindex /\ reindex.status = "none" /\ reindex.done = 0 /\ reindex.total = 0
      /\ \A d \in Docs : reindex.left[d] = None
  BY DEF Idle, NoReindex, Reindex
<1>3. ReindexInv
  BY <1>2 DEF Idle, ReindexInv, ReindexProgress, ReindexAddsUp
<1>4. finalizing \in [Docs -> Final] /\ \A d \in Docs : finalizing[d].stage = "none"
  BY <1>1 DEF Idle
<1>5. ListedIsInProgress
  BY <1>4 DEF Idle, ListedIsInProgress
<1>6. QED
  BY <1>2, <1>3, <1>4, <1>5 DEF IdleIsTyped

(* What a crash leaves of the edges and the vocabulary is in order.        *)
LEMMA IndexingCutOffKeeps ==
  ASSUME Parts, IndexingCutOff, homes \subseteq homes'
  PROVE  /\ edge' \subseteq Docs \X (0 .. NumChunks) \X Chunks
         /\ vocabulary' \subseteq Docs \X Scopes
         /\ VocabularyStaysHome'
<1>1. ASSUME NEW d \in Docs, finalizing[d].stage = "extracting", UNCHANGED migrated,
             LinkingCutOff(d, Renumbered(d, Chunks), finalizing[d].scope)
      PROVE  /\ edge' \subseteq Docs \X (0 .. NumChunks) \X Chunks
             /\ vocabulary' \subseteq Docs \X Scopes
             /\ VocabularyStaysHome'
  <2>1. <<d, finalizing[d].scope>> \in homes
    BY <1>1 DEF Parts, HomesAreKnown
  <2>2. Renumbered(d, Chunks) \in SUBSET (Docs \X (0 .. NumChunks) \X Chunks)
    BY LinksTyped
  <2>3. QED
    BY <1>1, <2>1, <2>2, LinkingCutOffKeeps
<1>2. ASSUME reindex.status = "running", UNCHANGED migrated,
             LinkingCutOff(reindex.current, Numbered(reindex.current, reindex.ids),
                           reindex.left[reindex.current])
      PROVE  /\ edge' \subseteq Docs \X (0 .. NumChunks) \X Chunks
             /\ vocabulary' \subseteq Docs \X Scopes
             /\ VocabularyStaysHome'
  <2> PICK d : d = reindex.current
    OBVIOUS
  <2>1. d \in Docs /\ <<d, reindex.left[d]>> \in homes
    BY <1>2 DEF Parts, HomesAreKnown, ReindexInv, ReindexAddsUp, Remaining
  <2>2. Numbered(d, reindex.ids) \in SUBSET (Docs \X (0 .. NumChunks) \X Chunks)
    BY <2>1, LinksTyped DEF Parts, IndexTyped, Reindex
  <2>3. QED
    BY <1>2, <2>1, <2>2, LinkingCutOffKeeps
<1>3. ASSUME NEW part \in SUBSET Everybodys, vocabulary' = vocabulary \cup part,
             migrated' = TRUE, UNCHANGED edge
      PROVE  /\ edge' \subseteq Docs \X (0 .. NumChunks) \X Chunks
             /\ vocabulary' \subseteq Docs \X Scopes
             /\ VocabularyStaysHome'
  <2>1. \A use \in part : use \in Docs \X Scopes /\ use[2] = Global
    BY DEF Everybodys, Parts, IndexTyped, Scopes
  <2>2. QED
    BY <1>3, <2>1 DEF Parts, IndexTyped, VocabularyStaysHome
<1>4. QED
  BY <1>1, <1>2, <1>3 DEF IndexingCutOff

LEMMA CrashKeeps ==
  ASSUME Parts, CrashInMemory
  PROVE  Parts'
<1>1. /\ CrashAnywhere
      /\ finalizing' = [d \in Docs |-> NoFinal] /\ listed' = {} /\ reindex' = NoReindex
      /\ homes' = homes \cup {<<d, row'[d].scope>> : d \in {e \in Docs : Moved(e)}}
      /\ uncounted' = 0 /\ unread' = 0
      /\ UNCHANGED <<edge, vocabulary, migrated>> \/ IndexingCutOff
  BY DEF CrashInMemory, CrashAnywhere, Rehomed
<1>2. IndInv'
  BY <1>1, CrashStep DEF Parts
<1>3. \A d \in Docs : Stays(d) /\ NoneComesUp(d)
  BY <1>1, CrashStays DEF Parts
<1>4. \A d \in Docs : ingest'[d].kind = "none"
  <2>1. Restart
    BY <1>1 DEF CrashAnywhere, Crash, CrashInIngest, CrashInPatch, CrashInDelete,
                CrashInDeleteConversation
  <2>2. QED
    BY <2>1 DEF Restart, NoIngest
<1>5. Idle'
  BY <1>1, <1>4 DEF Idle
<1>6. /\ finalizing' \in [Docs -> Final] /\ reindex' \in Reindex
      /\ ListedIsInProgress' /\ ReindexInv'
      /\ \A d \in Docs : finalizing'[d].stage = "none" /\ reindex'.left[d] = None
  <2>1. IdleIsTyped' /\ ListedIsInProgress' /\ ReindexInv'
    BY <1>5, IdleIsFine, PTL
  <2>2. QED
    BY <2>1 DEF IdleIsTyped
<1>7. DocumentsSettle'
  <2>1. {e \in Docs : row'[e].state # "absent"} \in SUBSET {e \in Docs : row[e].state # "absent"}
    BY <1>3 DEF Stays
  <2>2. IsFiniteSet({e \in Docs : row'[e].state # "absent"})
    BY <2>1, FS_Subset DEF Parts, DocumentsSettle
  <2>3. QED
    BY <1>4, <1>6, <2>2 DEF DocumentsSettle
<1>8. /\ homes' \subseteq Docs \X Scopes /\ homes \subseteq homes'
      /\ \A d \in Docs : row'[d].state = "present" => <<d, row'[d].scope>> \in homes'
  BY <1>1, <1>2, <1>3, HomesAfterMove
<1>9. HomesAreKnown'
  BY <1>6, <1>8 DEF HomesAreKnown, Present
<1>10. /\ edge' \subseteq Docs \X (0 .. NumChunks) \X Chunks
       /\ vocabulary' \subseteq Docs \X Scopes
       /\ VocabularyStaysHome'
  <2>1. CASE UNCHANGED <<edge, vocabulary, migrated>>
    BY <1>8, <2>1 DEF Parts, IndexTyped, VocabularyStaysHome
  <2>2. CASE IndexingCutOff
    BY <1>8, <2>2, IndexingCutOffKeeps
  <2>3. QED
    BY <1>1, <2>1, <2>2
<1>11. IndexTyped'
  BY <1>1, <1>6, <1>10 DEF IndexTyped
<1>12. QED
  BY <1>2, <1>6, <1>11, <1>7, <1>9, <1>10 DEF Parts

-----------------------------------------------------------------------------
(* The inductive invariant.                                                *)

LEMMA IndexInit == Init => Parts
<1> SUFFICES ASSUME Init PROVE Parts
  OBVIOUS
<1>1. IndInv /\ StoreInit
  BY InitInv DEF Init
<1>2. \A d \in Docs : row[d] = NoRow /\ ingest[d].kind = "none"
  BY <1>1 DEF StoreInit, NoIngest
<1>3. Idle
  BY <1>2 DEF Init, Idle
<1>4. \A d \in Docs : row[d].state = "absent" /\ ~Present(d)
  <2>1. NoRow.state = "absent"
    BY DEF NoRow
  <2>2. QED
    BY <1>2, <2>1 DEF Present
<1>5. IndexTyped
  BY <1>3, IdleIsFine DEF IdleIsTyped, Init, IndexTyped
<1>6. DocumentsSettle
  <2>1. {d \in Docs : row[d].state # "absent"} = {}
    BY <1>4
  <2>2. QED
    BY <1>2, <1>3, <2>1, IdleIsFine, FS_EmptySet DEF IdleIsTyped, DocumentsSettle
<1>7. HomesAreKnown /\ VocabularyStaysHome
  BY <1>3, <1>4, IdleIsFine DEF IdleIsTyped, Init, HomesAreKnown, VocabularyStaysHome
<1>8. QED
  BY <1>1, <1>3, <1>5, <1>6, <1>7, IdleIsFine DEF Parts

LEMMA IndexNext == Parts /\ [Next]_vars => Parts'
<1> SUFFICES ASSUME Parts, [Next]_vars PROVE Parts'
  OBVIOUS
<1>1. CASE IndexStep /\ UNCHANGED storeVars
  BY <1>1, StageKeeps, ExtractionKeeps, BeginReindexKeeps, StartReindexKeeps, ReindexReturnsKeeps,
     ReindexRaisesKeeps, MigrationKeeps DEF IndexStep
<1>2. CASE UNCHANGED vars
  <2>1. UNCHANGED storeVars /\ UNCHANGED <<finalizing, listed, edge, vocabulary, reindex, homes, migrated, uncounted, unread>>
    BY <1>2 DEF vars, indexVars, seenVars
  <2>2. ReindexInv'
    <3>1. \A e \in Docs : Stays(e)
      BY <2>1, StoreStill, UntouchedStays
    <3>2. QED
      BY <2>1, <3>1, ReindexKept
  <2>3. VocabularyStaysHome'
    BY <2>1 DEF Parts, VocabularyStaysHome
  <2>4. QED
    BY <2>1, <2>2, <2>3, RunKeeps, RunFacts DEF Parts, IndexTyped, DocumentsSettle, HomesAreKnown
<1>3. QED
  BY <1>1, <1>2, UploadKeeps, IngestReturnsKeeps, IngestRaisesKeeps, RequestKeeps, CrashKeeps DEF Next

(* The store's invariant and the inductive invariant of the background     *)
(* work hold throughout.                                                   *)
THEOREM IndexInvariance == Spec => [](IndInv /\ IndexIndInv)
<1>1. Spec => []Parts
  BY IndexInit, IndexNext, PTL DEF Spec
<1>2. QED
  BY <1>1, PartsOfInv, PTL

(* The store, the finalizations, the graph's edges, the vocabulary and the *)
(* reindex run keep their types: an edge names a chunk id in the range of  *)
(* the text's chunks.                                                      *)
THEOREM IndexTypeCorrect == Spec => []IndexTypeOK
<1>1. IndexIndInv => IndexTypeOK
  BY DEF IndexIndInv
<1>2. QED
  BY <1>1, IndexInvariance, PTL

(* The dashboard's list of uploads holds those that are being embedded or  *)
(* finalized and no others.                                                *)
THEOREM ListIsExact == Spec => []ListedIsInProgress
<1>1. IndexIndInv => ListedIsInProgress
  BY DEF IndexIndInv
<1>2. QED
  BY <1>1, IndexInvariance, PTL

(* A reindex run never counts more chunks than it announced; when it       *)
(* completes it has counted them all and has nothing left, unless a        *)
(* document was deleted: but for the chunks of reads that failed, of the   *)
(* count or of the run.                                                    *)
THEOREM ReindexCountsUp == Spec => []ReindexProgress
<1>1. IndexIndInv => ReindexProgress
  BY DEF IndexIndInv
<1>2. QED
  BY <1>1, IndexInvariance, PTL

(* Concepts are recorded only for scopes that their document has been in,  *)
(* or for everybody by the migration.                                      *)
THEOREM VocabularyIsHome == Spec => []VocabularyStaysHome
<1>1. IndexIndInv => VocabularyStaysHome
  BY DEF IndexIndInv
<1>2. QED
  BY <1>1, IndexInvariance, PTL
=============================================================================
