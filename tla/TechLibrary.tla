----------------------------- MODULE TechLibrary -----------------------------
(***************************************************************************)
(* The technical library: the rows of db.py's library_items table and the  *)
(* files under LIBRARY_PATH they point to, with the endpoints of           *)
(* routers/tech_library.py and the two helpers that scrapers use to        *)
(* file what they download.                                                *)
(*                                                                         *)
(* Rows and files are two stores that no transaction spans.                *)
(*                                                                         *)
(* Products here are those whose id has no letters, such as the order      *)
(* numbers of Phoenix Contact: an upload lower-cases the id to name its    *)
(* directory and a scraper upper-cases it, so that for other products the  *)
(* two share the table only.                                               *)
(***************************************************************************)
EXTENDS Naturals, Sequences, SequencesExt

CONSTANTS
  Products,    \* a manufacturer with a product id, and its directory
  Names,       \* file names
  Contents,    \* file contents; a checksum stands for the content it is of
  Absent,      \* no file, no checksum
  MaxRows      \* bound: rows of the table

VARIABLES
  library,     \* the table library_items, in the order of insertion
  disk         \* the content of every path below LIBRARY_PATH

libraryVars == <<library, disk>>

Paths == Products \X Names

LibraryRow == [product: Products, path: Paths, sum: Contents \cup {Absent}]

LibraryTypeOK ==
  /\ library \in Seq(LibraryRow)
  /\ disk \in [Paths -> Contents \cup {Absent}]

LibraryInit ==
  /\ library = <<>>
  /\ disk = [path \in Paths |-> Absent]

HasRow(rows, product, path) ==
  \E k \in DOMAIN rows : rows[k].product = product /\ rows[k].path = path

-----------------------------------------------------------------------------
(* Endpoints.  A row made by hand has no checksum.                         *)

AddRow(product, path) ==
  /\ Len(library) < MaxRows
  /\ library' = Append(library, [product |-> product, path |-> path, sum |-> Absent])

(* A name that is taken on disk gets a random suffix.                      *)
UploadFile(product, name, content) ==
  \E free \in IF disk[<<product, name>>] = Absent THEN {name} ELSE Names :
    /\ disk[<<product, free>>] = Absent
    /\ disk' = [disk EXCEPT ![<<product, free>>] = content]
    /\ AddRow(product, <<product, free>>)

RegisterFile(product, name) ==
  /\ disk[<<product, name>>] # Absent
  /\ AddRow(product, <<product, name>>)
  /\ UNCHANGED disk

(* The row goes first, then its file, whichever other rows point to it.    *)
RemoveItem(k) ==
  /\ library' = RemoveAt(library, k)
  /\ disk' = [disk EXCEPT ![library[k].path] = Absent]

LibraryStep ==
  \/ \E product \in Products, name \in Names, content \in Contents :
       UploadFile(product, name, content)
  \/ \E product \in Products, name \in Names : RegisterFile(product, name)
  \/ \E k \in DOMAIN library : RemoveItem(k)

(* What a crash leaves of a step it cuts off: an uploaded file without its *)
(* row, or the file of a row that is gone.                                 *)
LibraryCutOff ==
  \/ /\ \E path \in Paths, content \in Contents :
          disk[path] = Absent /\ disk' = [disk EXCEPT ![path] = content]
     /\ UNCHANGED library
  \/ /\ \E k \in DOMAIN library : library' = RemoveAt(library, k)
     /\ UNCHANGED disk

-----------------------------------------------------------------------------
(* What the scrapers do.                                                   *)

Result == [path: Paths, sum: Contents]

(* Content the table already knows is not written again: the result points *)
(* to the file of one of the rows with this checksum.  Other content is    *)
(* written under the product's directory, over what was there.             *)
KnownPaths(content) ==
  {library[k].path : k \in {j \in DOMAIN library : library[j].sum = content}}

Download(product, name, content, result) ==
  /\ result.sum = content
  /\ IF KnownPaths(content) # {}
     THEN result.path \in KnownPaths(content) /\ UNCHANGED disk
     ELSE result.path = <<product, name>> /\ disk' = [disk EXCEPT ![<<product, name>>] = content]

(* Mutant: a result is filed without a look at the rows there are. *)
FiledBlindly(rows, product, result) ==
  Append(rows, [product |-> product, path |-> result.path, sum |-> result.sum])

(* The results are filed one by one; a path the product already has a row  *)
(* for is passed over.                                                     *)
Filed(rows, product, result) ==
  IF HasRow(rows, product, result.path) THEN rows
  ELSE Append(rows, [product |-> product, path |-> result.path, sum |-> result.sum])

(* The table after the first n results, for every n.                       *)
FiledSoFar(product, results) ==
  LET filed[n \in 0 .. Len(results)] ==
        IF n = 0 THEN library ELSE Filed(filed[n - 1], product, results[n])
  IN  filed

FiledAll(product, results) == FiledSoFar(product, results)[Len(results)]
=============================================================================
