---------------------------- MODULE MFilesIndexer ----------------------------
(***************************************************************************)
(* The M-Files vault indexer: connectors/mfiles_indexer.py over the client *)
(* connectors/mfiles.py, the endpoints of routers/connections.py that      *)
(* configure, start and watch it, and the rows and files it leaves.        *)
(*                                                                         *)
(* A run walks the vault page by page and awaits every page, every list of *)
(* files, every download and every ingest.  The vault, the connection and  *)
(* the library change during these awaits.  The vault is outside this      *)
(* source.                                                                 *)
(***************************************************************************)
EXTENDS Naturals, Sequences, FiniteSets, SequencesExt

CONSTANTS
  Objects,     \* ids of the documents of the vault
  Contents,    \* contents of files; a checksum stands for the content it is of
  Paths,       \* a file name below the directory named after an object's title
  FilesOf,     \* the files of an object
  Vaults,      \* what the vault may hold: sequences of objects
  FirstConnections,  \* the settings the process may start with
  Items,       \* ids of rows of library_items
  Runs,        \* slots for calls of run_indexer: a bound of the model
  None,
  PageSize,    \* PAGE_SIZE
  MaxEdits,    \* bound: changes of the vault
  MaxPuts,     \* bound: changes of the connection
  MaxCrashes   \* bound: crashes of the process

(* "other": a file of another type, or too large; "blank": no text.        *)
File == [kind: {"text", "blank", "other"}, content: Contents, path: Paths]

(* "masked": complete, but with the placeholder the browser shows for a    *)
(* password, or no password; "malformed": a vault that is not a string.    *)
Configs == {"absent", "empty", "malformed", "masked", "good"}

Connection == [config: Configs, enabled: BOOLEAN]

ASSUME IndexerAssumption ==
  /\ FilesOf \in [Objects -> Seq(File)]
  /\ Vaults \subseteq Seq(Objects)
  /\ FirstConnections \subseteq Connection
  /\ PageSize \in Nat \ {0}
  /\ MaxEdits \in Nat /\ MaxPuts \in Nat /\ MaxCrashes \in Nat
  /\ None \notin Items \cup Contents \cup Paths

VARIABLES
  connection,  \* the row mfiles of the table connections
  active,      \* _active
  run,         \* calls of run_indexer
  row,         \* the rows of library_items the indexer inserts
  disk,        \* the content at every path
  vault,
  watch,       \* a browser at /connections/mfiles/index/stream
  (* what an observer has seen *)
  jammed,      \* a run began with a configuration it cannot read
  rowless,     \* paths last written by a run that died before the row
  edits, puts, crashes

libVars == <<row, disk, rowless>>
envVars == <<connection, vault, edits, puts, crashes>>
vars == <<connection, active, run, row, disk, vault, watch, jammed, rowless, edits, puts, crashes>>

-----------------------------------------------------------------------------
Stages == {"idle", "scheduled", "listing", "asking", "downloading",
           "embedding", "extracting"}

(* objects and files: what is left of the page and of its first object.    *)
(* last: the page was short.  unseen: objects of the vault that have not   *)
(* come up on a page; once the vault changes nothing is claimed of them.   *)
Run == [stage: Stages, config: Configs, offset: Nat, last: BOOLEAN,
        objects: Seq(Objects), files: Seq(File), item: Items \cup {None},
        unseen: SUBSET Objects]
NoRun == [stage |-> "idle", config |-> "absent", offset |-> 0, last |-> FALSE,
          objects |-> <<>>, files |-> <<>>, item |-> None, unseen |-> {}]

Live(r) == run[r].stage \notin {"idle", "scheduled"}

(* chunks: what the vector store holds of the row's text.  The ingest is   *)
(* "pending", has "stored" chunks, or found "none" to store.  gone: the    *)
(* ingest raised, or a crash ended it; what it had stored by then is not   *)
(* told apart.                                                             *)
Row == [state: {"absent", "present", "deleted"}, content: Contents \cup {None},
        path: Paths \cup {None}, chunks: {"pending", "stored", "none"},
        indexed: BOOLEAN, gone: BOOLEAN]
NoRow == [state |-> "absent", content |-> None, path |-> None,
          chunks |-> "pending", indexed |-> FALSE, gone |-> FALSE]

Present(i) == row[i].state = "present"

(* A stream of events is "told" when its queue holds an event that ends    *)
(* it, and has "lost" it when the queue was full.                          *)
Watches == {"closed", "open", "told", "lost"}

(* The types of the tables, of the registry flag and of the runs; and of a *)
(* row that was deleted, during its ingest even, nothing comes back.       *)
IndexerTypeOK ==
  /\ connection \in Connection
  /\ active \in BOOLEAN /\ jammed \in BOOLEAN
  /\ run \in [Runs -> Run]
  /\ row \in [Items -> Row]
  /\ \A i \in Items : ~Present(i) => /\ row[i].content = None /\ row[i].chunks = "pending"
                                     /\ ~row[i].indexed /\ ~row[i].gone
  /\ disk \in [Paths -> Contents \cup {None}]
  /\ rowless \subseteq Paths
  /\ vault \in Vaults
  /\ watch \in Watches
  /\ edits \in 0 .. MaxEdits /\ puts \in 0 .. MaxPuts /\ crashes \in 0 .. MaxCrashes

-----------------------------------------------------------------------------
(* routers/connections.py: the settings.                                   *)

(* A placeholder is replaced by the password stored so far, if there is a  *)
(* row.  A request that changes nothing is left out.                       *)
Preserved(new) ==
  IF new = "masked" /\ connection.config = "good" THEN "good" ELSE new

PutConnection(new) ==
  /\ puts < MaxPuts
  /\ Preserved(new) # connection.config
  /\ puts' = puts + 1
  /\ connection' = [config |-> Preserved(new), enabled |-> connection.enabled]
  /\ UNCHANGED <<active, run, libVars, vault, watch, jammed, edits, crashes>>

SetEnabled(enabled) ==
  /\ enabled => connection.config # "absent"
  /\ connection.enabled # enabled
  /\ puts < MaxPuts
  /\ puts' = puts + 1
  /\ connection' = [connection EXCEPT !.enabled = enabled]
  /\ UNCHANGED <<active, run, libVars, vault, watch, jammed, edits, crashes>>

-----------------------------------------------------------------------------
(* The stream of events.                                                   *)

(* Mutant: the end of a run is not published.                              *)
Unpublished == {watch}

(* put_nowait of an event that ends the stream.  The queue is full when    *)
(* the browser has not read a hundred events.  The events that end nothing *)
(* are left out.                                                           *)
Published == IF watch = "open" THEN {"told", "lost"} ELSE {watch}

OpenStream ==
  /\ watch = "closed"
  /\ watch' = "open"
  /\ UNCHANGED <<active, run, libVars, envVars, jammed>>

(* The stream delivers the event and ends.                                 *)
ReadEvent ==
  /\ watch = "told"
  /\ watch' = "closed"
  /\ UNCHANGED <<active, run, libVars, envVars, jammed>>

-----------------------------------------------------------------------------
(* Starting a run.                                                         *)

(* POST /connections/mfiles/index.  The run begins after the response.     *)
StartIndex ==
  /\ connection.config \notin {"absent", "empty"}
  /\ connection.enabled
  /\ ~active
  /\ LET idle == {r \in Runs : run[r].stage = "idle"} IN
       /\ idle # {}
       /\ run' = [run EXCEPT ![CHOOSE r \in idle : TRUE] = [NoRun EXCEPT !.stage = "scheduled"]]
  /\ UNCHANGED <<active, libVars, envVars, watch, jammed>>

(* Mutant: the flag is looked at when the run is scheduled only.           *)
NeverRefused == FALSE

(* Two requests may both have found the flag down.                         *)
Refused == active

BeginRefused(r) ==
  /\ run[r].stage = "scheduled"
  /\ Refused
  /\ run' = [run EXCEPT ![r] = NoRun]
  /\ watch' \in Published
  /\ UNCHANGED <<active, libVars, envVars, jammed>>

(* The connection is read again; whether it is enabled is not.  The        *)
(* connector is built outside the try: with settings it cannot read the    *)
(* flag stays up.                                                          *)
Begin(r) ==
  /\ run[r].stage = "scheduled"
  /\ ~Refused
  /\ CASE connection.config \in {"absent", "empty"} ->
            /\ run' = [run EXCEPT ![r] = NoRun]
            /\ watch' \in Published
            /\ UNCHANGED <<active, jammed>>
       [] connection.config = "malformed" ->
            /\ run' = [run EXCEPT ![r] = NoRun]
            /\ active' = TRUE /\ jammed' = TRUE
            /\ UNCHANGED watch
       [] OTHER ->
            /\ run' = [run EXCEPT ![r] = [NoRun EXCEPT !.stage = "listing",
                                                      !.config = connection.config,
                                                      !.unseen = ToSet(vault)]]
            /\ active' = TRUE
            /\ UNCHANGED <<watch, jammed>>
  /\ UNCHANGED <<libVars, envVars>>

-----------------------------------------------------------------------------
(* The walk.                                                               *)

Supported(f) == f.kind # "other"

LastPage(page) == Len(page) < PageSize

(* The files from the next one that is not skipped.                        *)
NextFiles(files) ==
  LET supported == {k \in DOMAIN files : Supported(files[k])} IN
  IF supported = {} THEN <<>> ELSE SubSeq(files, Min(supported), Len(files))

(* The run after its files and objects have been shortened: the next       *)
(* supported file, the next object, the next page, or the end.             *)
Onward(s) ==
  LET files == NextFiles(s.files) IN
  CASE files # <<>> -> [s EXCEPT !.stage = "downloading", !.files = files, !.item = None]
    [] files = <<>> /\ s.objects # <<>> ->
         [s EXCEPT !.stage = "asking", !.files = <<>>, !.item = None]
    [] files = <<>> /\ s.objects = <<>> /\ ~s.last ->
         [s EXCEPT !.stage = "listing", !.offset = @ + PageSize, !.files = <<>>, !.item = None]
    [] OTHER -> [NoRun EXCEPT !.unseen = s.unseen]

(* The flag comes down with the end of the run, which is published.        *)
Proceed(r, s) ==
  /\ run' = [run EXCEPT ![r] = Onward(s)]
  /\ active' = (Onward(s).stage # "idle")
  /\ watch' \in IF Onward(s).stage = "idle" THEN Published ELSE {watch}
  /\ UNCHANGED <<envVars, jammed>>

(* An error is published, and then the completion.                         *)
Aborted(r) ==
  /\ run' = [run EXCEPT ![r] = NoRun]
  /\ active' = FALSE
  /\ watch' \in Published
  /\ UNCHANGED <<envVars, jammed>>

Page(offset) ==
  SubSeq(vault, offset + 1, IF offset + PageSize < Len(vault) THEN offset + PageSize
                            ELSE Len(vault))

(* A login with a wrong password fails, and so does every call when the    *)
(* server cannot be reached.                                               *)
ListFails(r) ==
  /\ run[r].stage = "listing"
  /\ Aborted(r)
  /\ UNCHANGED libVars

ListObjects(r) ==
  LET page == Page(run[r].offset) IN
  /\ run[r].stage = "listing"
  /\ run[r].config = "good"
  /\ Proceed(r, [run[r] EXCEPT !.objects = page, !.last = LastPage(page),
                              !.unseen = @ \ ToSet(page)])
  /\ UNCHANGED libVars

FilesListed(r) ==
  /\ run[r].stage = "asking"
  /\ Proceed(r, [run[r] EXCEPT !.objects = Tail(@), !.files = FilesOf[Head(run[r].objects)]])
  /\ UNCHANGED libVars

(* Counted as an error; the walk goes on.                                  *)
FilesFail(r) ==
  /\ run[r].stage = "asking"
  /\ Proceed(r, [run[r] EXCEPT !.objects = Tail(@)])
  /\ UNCHANGED libVars

DownloadFails(r) ==
  /\ run[r].stage = "downloading"
  /\ Proceed(r, [run[r] EXCEPT !.files = Tail(@)])
  /\ UNCHANGED libVars

-----------------------------------------------------------------------------
(* One file.                                                               *)

ChecksumExists(content) == \E i \in Items : Present(i) /\ row[i].content = content

SkipKnown(r) ==
  /\ run[r].stage = "downloading"
  /\ ChecksumExists(Head(run[r].files).content)
  /\ Proceed(r, [run[r] EXCEPT !.files = Tail(@)])
  /\ UNCHANGED libVars

(* The file is written, over what an object of the same title had under    *)
(* the same name, and the row is inserted before the text is ingested.  No *)
(* await comes between the two; a process that dies there is FileCutOff.   *)
FileNew(r) ==
  LET f == Head(run[r].files)
      i == CHOOSE j \in Items : row[j].state = "absent"
  IN
  /\ run[r].stage = "downloading"
  /\ ~ChecksumExists(f.content)
  /\ \E j \in Items : row[j].state = "absent"
  /\ row' = [row EXCEPT ![i] = [NoRow EXCEPT !.state = "present", !.content = f.content,
                     !.path = f.path, !.chunks = IF f.kind = "blank" THEN "none" ELSE @]]
  /\ disk' = [disk EXCEPT ![f.path] = f.content]
  /\ rowless' = rowless \ {f.path}
  /\ IF f.kind = "blank"
     THEN Proceed(r, [run[r] EXCEPT !.files = Tail(@)])
     ELSE /\ run' = [run EXCEPT ![r].stage = "embedding", ![r].files = Tail(@),
                                ![r].item = i]
          /\ UNCHANGED <<active, envVars, watch, jammed>>

(* Mutant: a row that was deleted meanwhile is inserted again.             *)
InsertedAgain(i, chunks, indexed, gone) ==
  [row EXCEPT ![i].chunks = chunks, ![i].indexed = indexed, ![i].gone = gone]

(* An UPDATE that finds no row changes nothing.                            *)
Settled(i, chunks, indexed, gone) ==
  IF Present(i)
  THEN [row EXCEPT ![i].chunks = chunks, ![i].indexed = indexed, ![i].gone = gone]
  ELSE row

(* rag.ingest has embedded some chunk and stored it, and waits for the     *)
(* extraction of concepts.                                                 *)
Embedded(r) ==
  /\ run[r].stage = "embedding"
  /\ row' = Settled(run[r].item, "stored", FALSE, FALSE)
  /\ run' = [run EXCEPT ![r].stage = "extracting"]
  /\ UNCHANGED <<active, disk, rowless, envVars, watch, jammed>>

(* Mutant: the mark is forgotten.                                          *)
LeftUnmarked(i, chunks) == Settled(i, chunks, FALSE, FALSE)

MarkedIndexed(i, chunks) == Settled(i, chunks, TRUE, FALSE)

(* No chunk could be embedded: rag.ingest returns 0, which is not looked   *)
(* at.                                                                     *)
NothingEmbedded(r) ==
  /\ run[r].stage = "embedding"
  /\ row' = MarkedIndexed(run[r].item, "none")
  /\ Proceed(r, run[r])
  /\ UNCHANGED <<disk, rowless>>

Extracted(r) ==
  /\ run[r].stage = "extracting"
  /\ row' = MarkedIndexed(run[r].item, "stored")
  /\ Proceed(r, run[r])
  /\ UNCHANGED <<disk, rowless>>

(* rag.ingest raises: the whole run ends.                                  *)
IngestRaises(r) ==
  /\ run[r].stage \in {"embedding", "extracting"}
  /\ row' = Settled(run[r].item, row[run[r].item].chunks, FALSE, TRUE)
  /\ Aborted(r)
  /\ UNCHANGED <<disk, rowless>>

-----------------------------------------------------------------------------
(* What happens meanwhile.                                                 *)

Without(i) == [row EXCEPT ![i] = [NoRow EXCEPT !.state = "deleted", !.path = row[i].path]]

(* DELETE of tech_library.py: the row and then the file at its path.  The  *)
(* chunks stay in the vector store.                                        *)
DeleteItem(i) ==
  /\ Present(i)
  /\ row' = Without(i)
  /\ disk' = [disk EXCEPT ![row[i].path] = None]
  /\ rowless' = rowless \ {row[i].path}
  /\ UNCHANGED <<active, run, envVars, watch, jammed>>

VaultChanges ==
  /\ edits < MaxEdits
  /\ edits' = edits + 1
  /\ vault' \in Vaults \ {vault}
  /\ run' = [r \in Runs |-> [run[r] EXCEPT !.unseen = {}]]
  /\ UNCHANGED <<connection, active, libVars, watch, jammed, puts, crashes>>

(* The process dies after a run wrote the file, before the row.            *)
FileCutOff(r) ==
  LET f == Head(run[r].files) IN
  /\ run[r].stage = "downloading"
  /\ ~ChecksumExists(f.content)
  /\ disk' = [disk EXCEPT ![f.path] = f.content]
  /\ rowless' = rowless \cup {f.path}

(* The ingests under way in the rows of a table are ended by a crash.      *)
Orphaned(rows) ==
  [i \in Items |-> [rows[i] EXCEPT !.gone = @ \/
                      (rows[i].state = "present" /\ \E r \in Runs : run[r].item = i)]]

(* A crash may cut off a step between its two writes: a file of a run is   *)
(* there without its row, or a row is deleted and its file is not.         *)
Crash ==
  /\ crashes < MaxCrashes
  /\ crashes' = crashes + 1
  /\ run' = [r \in Runs |-> NoRun]
  /\ active' = FALSE
  /\ jammed' = FALSE
  /\ watch' = "closed"
  /\ \/ row' = Orphaned(row) /\ UNCHANGED <<disk, rowless>>
     \/ row' = Orphaned(row) /\ \E r \in Runs : FileCutOff(r)
     \/ /\ \E i \in Items : Present(i) /\ row' = Orphaned(Without(i))
        /\ UNCHANGED <<disk, rowless>>
  /\ UNCHANGED <<connection, vault, edits, puts>>

-----------------------------------------------------------------------------
Init ==
  /\ connection \in FirstConnections
  /\ active = FALSE /\ jammed = FALSE
  /\ run = [r \in Runs |-> NoRun]
  /\ row = [i \in Items |-> NoRow]
  /\ disk = [p \in Paths |-> None]
  /\ rowless = {}
  /\ vault \in Vaults
  /\ watch = "closed"
  /\ edits = 0 /\ puts = 0 /\ crashes = 0

RunStep(r) ==
  \/ BeginRefused(r) \/ Begin(r)
  \/ ListObjects(r) \/ ListFails(r) \/ FilesListed(r) \/ FilesFail(r)
  \/ DownloadFails(r) \/ SkipKnown(r)
  \/ FileNew(r)
  \/ Embedded(r) \/ NothingEmbedded(r) \/ Extracted(r) \/ IngestRaises(r)

Next ==
  \/ \E new \in Configs \ {"absent"} : PutConnection(new)
  \/ \E enabled \in BOOLEAN : SetEnabled(enabled)
  \/ OpenStream \/ ReadEvent
  \/ StartIndex
  \/ \E r \in Runs : RunStep(r)
  \/ \E i \in Items : DeleteItem(i)
  \/ VaultChanges \/ Crash

(* Every await of a run ends: the calls have timeouts, and the ingest      *)
(* returns.                                                                *)
Spec == Init /\ [][Next]_vars /\ WF_vars(\E r \in Runs : RunStep(r))

-----------------------------------------------------------------------------
(* At most one run walks the vault, however many were started together,    *)
(* and the flag is up exactly while it does; except that a run which could *)
(* not read its settings leaves it up.                                     *)
OneRunAtATime ==
  /\ Cardinality({r \in Runs : Live(r)}) <= 1
  /\ (\E r \in Runs : Live(r)) => active
  /\ active => jammed \/ \E r \in Runs : Live(r)

(* A run that comes to its end has come across every object of the vault,  *)
(* unless the vault changed under its pages.                               *)
NothingSkipped ==
  \A r \in Runs : Live(r) \/ run[r].unseen = {}

(* No two rows have the same content.  A row is marked only when its       *)
(* chunks are stored, or none could be; and a row that is not marked is    *)
(* blank, being ingested, or was left behind by an ingest that raised or   *)
(* by a crash.                                                             *)
RowsAreIndexed ==
  \A i \in Items : Present(i) =>
    /\ \A j \in Items \ {i} : Present(j) => row[j].content # row[i].content
    /\ row[i].indexed => row[i].chunks # "pending"
    /\ ~row[i].indexed => \/ row[i].chunks = "none" \/ row[i].gone
                          \/ \E r \in Runs : Live(r) /\ run[r].item = i

(* The file at the path of a row is the content of the row, unless another *)
(* row was given the same path, or the process died when it had written a  *)
(* file there and not yet the row of it.                                   *)
FilesMatch ==
  \A i \in Items : Present(i) /\ disk[row[i].path] # row[i].content =>
    \/ \E j \in Items \ {i} : row[j].path = row[i].path
    \/ row[i].path \in rowless

VaultIndexed == NothingSkipped /\ RowsAreIndexed /\ FilesMatch

(* A stream that is open while a run is under way is told of its end,      *)
(* unless its queue was full then or the process crashed.                  *)
WatchersServed == (watch = "open" /\ \E r \in Runs : Live(r)) ~> watch # "open"

-----------------------------------------------------------------------------
(* The inductive invariant behind the safety properties.                   *)

(* A run has a row while the ingest of its file goes on.                   *)
RunsWellFormed ==
  \A r \in Runs :
    /\ run[r].stage \notin {"embedding", "extracting"} => run[r].item = None
    /\ run[r].stage \in {"embedding", "extracting"} =>
         run[r].item \in Items /\ row[run[r].item].state # "absent"
    /\ run[r].stage = "asking" => run[r].objects # <<>>
    /\ run[r].stage = "downloading" => run[r].files # <<>>

RowsWellFormed ==
  \A i \in Items :
    /\ Present(i) => row[i].content \in Contents /\ row[i].path \in Paths
    /\ row[i].state = "absent" => row[i].path = None

(* What a run has not come across is on the pages ahead of it; when its    *)
(* page was the last one it has come across everything.                    *)
After(n) == {vault[k] : k \in {j \in DOMAIN vault : j > n}}

UnseenIsAhead ==
  \A r \in Runs :
    /\ run[r].unseen \subseteq
         After(IF run[r].stage = "listing" THEN run[r].offset ELSE run[r].offset + PageSize)
    /\ run[r].last => run[r].unseen = {}

RunsAreAlone == \A r, s \in Runs : Live(r) /\ Live(s) => r = s

IndexerIndInv ==
  /\ IndexerTypeOK /\ RunsWellFormed /\ RowsWellFormed /\ UnseenIsAhead /\ RunsAreAlone
  /\ OneRunAtATime /\ VaultIndexed
=============================================================================
