------------------------------- MODULE MCMFiles -------------------------------
(* The vault indexer on a small vault. *)
EXTENDS MFilesIndexer, TLC

CONSTANTS o1, o2, o3, x1, x2, x3, p1

Of(kind, content, path) == [kind |-> kind, content |-> content, path |-> path]

(* The objects share a title, so that files of theirs have the same path;  *)
(* a file of o2 is skipped for its type, and the one of o3 has no text.    *)
MCFilesOf ==
  (o1 :> <<Of("text", x1, p1)>>) @@
  (o2 :> <<Of("other", x1, p1), Of("text", x2, p1)>>) @@
  (o3 :> <<Of("blank", x3, p1)>>)
MCVaults == {<<o1, o2>>, <<o3>>}

MCFirstConnections ==
  {[config |-> c, enabled |-> c # "absent"] : c \in {"absent", "masked", "good"}}
=============================================================================
