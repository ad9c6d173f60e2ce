----------------------------- MODULE MFilesProofs -----------------------------
(***************************************************************************)
(* Proofs about the vault indexer, for every vault, library and settings,  *)
(* any number of runs, and every bound.                                    *)
(***************************************************************************)
EXTENDS MFilesIndexer, TLAPS, SequenceTheorems, FiniteSetTheorems, WellFoundedInduction

-----------------------------------------------------------------------------
(* Operators.                                                              *)

LEMMA MinIsThere ==
  ASSUME NEW S \in SUBSET Nat, S # {}
  PROVE  Min(S) \in S
<1>1. PICK n \in S : \A m \in S : ~(<<m, n>> \in OpToRel(<, Nat))
  BY WFMin, NatLessThanWellFounded
<1>2. \A m \in S : n <= m
  <2>1. ASSUME NEW m \in S, m < n PROVE FALSE
    <3>1. <<m, n>> \in OpToRel(<, Nat)
      BY <2>1 DEF OpToRel
    <3>2. QED
      BY <1>1, <3>1
  <2>2. QED
    BY <2>1
<1>3. \E x \in S : \A y \in S : x <= y
  BY <1>2
<1>4. QED
  BY <1>3 DEF Min

LEMMA SubSeqType ==
  ASSUME NEW S, NEW s \in Seq(S), NEW m \in Nat \ {0}, NEW n \in Nat, n <= Len(s)
  PROVE  /\ SubSeq(s, m, n) \in Seq(S)
         /\ Len(SubSeq(s, m, n)) = IF m <= n THEN n - m + 1 ELSE 0
         /\ \A i \in 1 .. n - m + 1 : SubSeq(s, m, n)[i] = s[m + i - 1]
<1>1. m \in Int /\ n \in Int /\ \A i \in m .. n : s[i] \in S
  BY LenProperties
<1>2. QED
  BY <1>1, SubSeqProperties

LEMMA NextFilesType ==
  ASSUME NEW files \in Seq(File)
  PROVE  NextFiles(files) \in Seq(File)
<1> DEFINE supported == {k \in DOMAIN files : Supported(files[k])}
<1>1. Len(files) \in Nat /\ DOMAIN files = 1 .. Len(files)
  BY LenProperties
<1>2. CASE supported = {}
  BY <1>2 DEF NextFiles
<1>3. CASE supported # {}
  <2>1. supported \in SUBSET Nat
    BY <1>1
  <2>2. Min(supported) \in supported
    BY <1>3, <2>1, MinIsThere
  <2>3. Min(supported) \in Nat \ {0}
    BY <1>1, <2>2
  <2> HIDE DEF supported
  <2>4. SubSeq(files, Min(supported), Len(files)) \in Seq(File)
    BY <1>1, <2>3, SubSeqType
  <2>5. QED
    BY <1>3, <2>4 DEF NextFiles, supported
<1>4. QED
  BY <1>2, <1>3

(* A run that is well formed by itself.                                    *)
Walks(x) == x.stage \notin {"idle", "scheduled"}

RunOK(x) ==
  /\ x \in Run
  /\ x.stage \notin {"embedding", "extracting"} => x.item = None
  /\ x.stage \in {"embedding", "extracting"} => x.item \in Items
  /\ x.stage = "asking" => x.objects # <<>>
  /\ x.stage = "downloading" => x.files # <<>>
  /\ x.unseen \subseteq
       After(IF x.stage = "listing" THEN x.offset ELSE x.offset + PageSize)
  /\ x.last => x.unseen = {}
  /\ ~Walks(x) => x.unseen = {}

LEMMA NoRunOK == RunOK(NoRun) /\ RunOK([NoRun EXCEPT !.stage = "scheduled"])
<1>1. <<>> \in Seq(Objects) /\ <<>> \in Seq(File)
  OBVIOUS
<1>2. 0 \in Nat /\ PageSize \in Nat
  BY IndexerAssumption
<1>3. QED
  BY <1>1, <1>2 DEF RunOK, NoRun, Run, Stages, Configs, Walks

(* The run goes on.                                                        *)
LEMMA OnwardOK ==
  ASSUME NEW s \in Run, s.last => s.unseen = {}, s.unseen \subseteq After(s.offset + PageSize)
  PROVE  RunOK(Onward(s)) /\ Onward(s).item = None /\ Onward(s).stage # "scheduled"
<1> DEFINE files == NextFiles(s.files)
<1>1. files \in Seq(File) /\ <<>> \in Seq(File) /\ PageSize \in Nat /\ s.offset + PageSize \in Nat
  BY NextFilesType, IndexerAssumption DEF Run
<1>2. CASE files # <<>>
  <2>1. Onward(s) = [s EXCEPT !.stage = "downloading", !.files = files, !.item = None]
    BY <1>2 DEF Onward
  <2>2. QED
    BY <1>1, <1>2, <2>1 DEF RunOK, Run, Stages, Walks
<1>3. CASE files = <<>> /\ s.objects # <<>>
  <2>1. Onward(s) = [s EXCEPT !.stage = "asking", !.files = <<>>, !.item = None]
    BY <1>3 DEF Onward
  <2>2. QED
    BY <1>1, <1>3, <2>1 DEF RunOK, Run, Stages, Walks
<1>4. CASE files = <<>> /\ s.objects = <<>> /\ ~s.last
  <2>1. Onward(s) = [s EXCEPT !.stage = "listing", !.offset = s.offset + PageSize, !.files = <<>>, !.item = None]
    BY <1>4 DEF Onward
  <2>2. QED
    BY <1>1, <1>4, <2>1 DEF RunOK, Run, Stages, Walks
<1>5. CASE files = <<>> /\ s.objects = <<>> /\ s.last
  <2>1. Onward(s) = [NoRun EXCEPT !.unseen = s.unseen] /\ s.unseen = {}
    BY <1>5 DEF Onward
  <2>2. NoRun \in Run /\ NoRun.item = None /\ NoRun.last = FALSE /\ NoRun.stage = "idle"
    BY NoRunOK DEF RunOK, NoRun
  <2>3. QED
    BY <1>1, <2>1, <2>2 DEF RunOK, Run, Walks
<1>6. QED
  BY <1>2, <1>3, <1>4, <1>5 DEF Run

-----------------------------------------------------------------------------
(* The parts of the inductive invariant.                                   *)

RunsOK == run \in [Runs -> Run] /\ \A r \in Runs : RunOK(run[r])

RowsHeld == \A r \in Runs : run[r].item # None => row[run[r].item].state # "absent"

SettingsOK ==
  /\ connection \in Connection
  /\ active \in BOOLEAN /\ jammed \in BOOLEAN
  /\ vault \in Vaults
  /\ watch \in Watches
  /\ edits \in 0 .. MaxEdits /\ puts \in 0 .. MaxPuts /\ crashes \in 0 .. MaxCrashes

Blank(x) == x.content = None /\ x.chunks = "pending" /\ ~x.indexed /\ ~x.gone

RowsTyped ==
  /\ row \in [Items -> Row]
  /\ \A i \in Items : ~Present(i) => Blank(row[i])
  /\ disk \in [Paths -> Contents \cup {None}]
  /\ rowless \subseteq Paths
  /\ RowsWellFormed

Distinct ==
  \A i, j \in Items : Present(i) /\ Present(j) /\ i # j => row[j].content # row[i].content

MarksStand == \A i \in Items : Present(i) /\ row[i].indexed => row[i].chunks # "pending"

Attended(i) == \E r \in Runs : Walks(run[r]) /\ run[r].item = i

RowsAttended ==
  \A i \in Items : Present(i) /\ ~row[i].indexed =>
    row[i].chunks = "none" \/ row[i].gone \/ Attended(i)

RowsInv == RowsTyped /\ Distinct /\ MarksStand /\ FilesMatch

Alone == \A r, s \in Runs : Walks(run[r]) /\ Walks(run[s]) => r = s

FlagInv ==
  /\ Alone
  /\ (\E r \in Runs : Walks(run[r])) => active
  /\ active => jammed \/ \E r \in Runs : Walks(run[r])

Parts == RunsOK /\ RowsHeld /\ SettingsOK /\ RowsInv /\ RowsAttended /\ FlagInv

LEMMA AloneIsOne ==
  ASSUME Alone
  PROVE  Cardinality({r \in Runs : Live(r)}) <= 1
<1> DEFINE walking == {r \in Runs : Live(r)}
<1>1. \A r \in Runs : Live(r) <=> Walks(run[r])
  BY DEF Live, Walks
<1>2. CASE walking = {}
  BY <1>2, FS_EmptySet
<1>3. CASE walking # {}
  <2>1. PICK r \in walking : TRUE
    BY <1>3
  <2>2. walking = {r}
    BY <1>1, <2>1 DEF Alone
  <2>3. Cardinality({r}) = 1
    BY FS_Singleton
  <2>4. QED
    BY <2>2, <2>3
<1>4. QED
  BY <1>2, <1>3

LEMMA PartsOfInv == IndexerIndInv <=> Parts
<1>1. \A r : Live(r) <=> Walks(run[r])
  BY DEF Live, Walks
<1>2. IndexerTypeOK <=> /\ run \in [Runs -> Run] /\ SettingsOK
                        /\ row \in [Items -> Row] /\ disk \in [Paths -> Contents \cup {None}]
                        /\ rowless \subseteq Paths
                        /\ \A i \in Items : ~Present(i) => Blank(row[i])
  BY DEF IndexerTypeOK, SettingsOK, Blank
<1>3. VaultIndexed <=> NothingSkipped /\ Distinct /\ MarksStand /\ RowsAttended /\ FilesMatch
  BY <1>1 DEF VaultIndexed, RowsAreIndexed, Distinct, MarksStand, RowsAttended, Attended
<1>4. RunsAreAlone <=> Alone
  BY <1>1 DEF RunsAreAlone, Alone
<1>5. RunsAreAlone /\ OneRunAtATime <=> FlagInv
  BY <1>1, <1>4, AloneIsOne DEF FlagInv, OneRunAtATime
<1>6. None \notin Items
  BY IndexerAssumption
<1>7. ASSUME run \in [Runs -> Run]
      PROVE  RunsWellFormed /\ UnseenIsAhead /\ NothingSkipped <=> RunsOK /\ RowsHeld
  <2>1. \A r \in Runs : run[r] \in Run
    BY <1>7
  <2>2. \A r \in Runs : run[r].item # None => run[r].item \in Items
    BY <2>1 DEF Run
  <2>3. RunsOK /\ RowsHeld => RunsWellFormed
    BY <1>6 DEF RunsOK, RunOK, RowsHeld, RunsWellFormed
  <2>4. RunsOK => UnseenIsAhead
    BY DEF RunsOK, RunOK, UnseenIsAhead
  <2>5. RunsOK => NothingSkipped
    BY <1>1 DEF RunsOK, RunOK, NothingSkipped
  <2>6. RunsWellFormed => RowsHeld
    BY DEF RowsHeld, RunsWellFormed
  <2>7. RunsWellFormed /\ UnseenIsAhead /\ NothingSkipped => RunsOK
    BY <1>1, <1>7, <2>1 DEF RunsWellFormed, UnseenIsAhead, NothingSkipped, RunsOK, RunOK
  <2>8. QED
    BY <2>3, <2>4, <2>5, <2>6, <2>7
<1>8. QED
  BY <1>2, <1>3, <1>4, <1>5, <1>7 DEF IndexerIndInv, Parts, RowsInv, RowsTyped, RunsOK

-----------------------------------------------------------------------------
(* Steps of a run.                                                         *)

LEMMA RunReplaced ==
  ASSUME RunsOK, NEW r \in Runs, NEW x, RunOK(x), run' = [run EXCEPT ![r] = x], UNCHANGED vault
  PROVE  /\ RunsOK'
         /\ run'[r] = x /\ \A s \in Runs : s # r => run'[s] = run[s]
<1>1. run'[r] = x /\ \A s \in Runs : s # r => run'[s] = run[s]
  BY DEF RunsOK
<1>2. run' \in [Runs -> Run]
  BY DEF RunsOK, RunOK
<1>3. \A s \in Runs : RunOK(run[s])'
  BY <1>1 DEF RunsOK, RunOK, After, Walks
<1>4. QED
  BY <1>1, <1>2, <1>3 DEF RunsOK

(* A run that walks goes on or ends, and the rows keep their invariant.    *)
LEMMA RunMoves ==
  ASSUME Parts, NEW r \in Runs, Walks(run[r]), NEW x, RunOK(x), run' = [run EXCEPT ![r] = x],
         UNCHANGED vault, SettingsOK', RowsInv', RowsAttended',
         \/ Walks(x) /\ active'
         \/ ~Walks(x) /\ ~active',
         x.item # None => row'[x.item].state # "absent",
         \A i \in Items : row[i].state # "absent" => row'[i].state # "absent"
  PROVE  Parts'
<1>1. /\ RunsOK'
      /\ run'[r] = x /\ \A s \in Runs : s # r => run'[s] = run[s]
  BY RunReplaced DEF Parts
<1>2. RowsHeld'
  <2>1. ASSUME NEW s \in Runs, NEW i, i = run'[s].item, i # None
        PROVE  row'[i].state # "absent"
    <3>1. CASE s = r
      BY <1>1, <2>1, <3>1
    <3>2. CASE s # r
      <4>1. i \in Items /\ row[i].state # "absent"
        BY <1>1, <2>1, <3>2 DEF Parts, RowsHeld, RunsOK, Run
      <4>2. QED
        BY <4>1
    <3>3. QED
      BY <3>1, <3>2
  <2>2. QED
    BY <2>1 DEF RowsHeld
<1>3. FlagInv'
  <2>1. \A s \in Runs : Walks(run[s]) => s = r
    BY DEF Parts, FlagInv, Alone
  <2>2. \A s \in Runs : Walks(run'[s]) => s = r
    BY <1>1, <2>1
  <2>3. Walks(run'[r]) <=> active'
    BY <1>1
  <2>4. QED
    BY <2>2, <2>3 DEF FlagInv, Alone, Walks
<1>4. QED
  BY <1>1, <1>2, <1>3 DEF Parts

LEMMA PublishedOK ==
  ASSUME SettingsOK, NEW w, w \in Published \/ w = watch
  PROVE  w \in Watches
BY DEF SettingsOK, Published, Watches

(* The rows keep their invariant while nothing is written.                 *)
LEMMA RowsUnchanged ==
  ASSUME RowsInv, UNCHANGED libVars
  PROVE  RowsInv'
BY DEF RowsInv, RowsTyped, RowsWellFormed, Blank, Distinct, MarksStand, FilesMatch, libVars, Present

LEMMA AttendedKept ==
  ASSUME RunsOK, NEW r \in Runs, NEW x, run' = [run EXCEPT ![r] = x],
         run[r].item = None \/ ~Walks(run[r]) \/ (Walks(x) /\ x.item = run[r].item)
  PROVE  \A i \in Items : Attended(i) => Attended(i)'
<1>1. run'[r] = x /\ \A s \in Runs : s # r => run'[s] = run[s]
  BY DEF RunsOK
<1>2. ASSUME NEW i \in Items, NEW s \in Runs, Walks(run[s]), run[s].item = i
      PROVE  Walks(run'[s]) /\ run'[s].item = i
  BY <1>1, <1>2, IndexerAssumption
<1>3. QED
  BY <1>2 DEF Attended, Walks

LEMMA RowsAttendedKept ==
  ASSUME RowsAttended, UNCHANGED row, \A i \in Items : Attended(i) => Attended(i)'
  PROVE  RowsAttended'
BY DEF RowsAttended, Present

(* The walk goes on with nothing written.                                  *)
LEMMA ProceedKeeps ==
  ASSUME Parts, NEW r \in Runs, Walks(run[r]), NEW s \in Run, s.last => s.unseen = {},
         s.unseen \subseteq After(s.offset + PageSize), Proceed(r, s),
         RowsInv', RowsAttended', \A i \in Items : row[i].state # "absent" => row'[i].state # "absent"
  PROVE  Parts'
<1> PICK x : x = Onward(s)
  OBVIOUS
<1>1. RunOK(x) /\ x.item = None /\ x.stage # "scheduled"
  BY OnwardOK
<1>2. /\ run' = [run EXCEPT ![r] = x] /\ UNCHANGED envVars /\ UNCHANGED jammed
      /\ active' = (x.stage # "idle")
      /\ watch' \in Published \/ watch' = watch
  BY DEF Proceed
<1>3. SettingsOK'
  <2>1. watch' \in Watches
    BY <1>2, PublishedOK DEF Parts
  <2>2. active' \in BOOLEAN
    BY <1>2
  <2>3. QED
    BY <1>2, <2>1, <2>2 DEF Parts, SettingsOK, envVars
<1>4. \/ Walks(x) /\ active'
      \/ ~Walks(x) /\ ~active'
  BY <1>1, <1>2 DEF Walks
<1>5. UNCHANGED vault
  BY <1>2 DEF envVars
<1>6. QED
  BY <1>1, <1>2, <1>3, <1>4, <1>5, RunMoves

(* A run ends with an error.                                               *)
LEMMA AbortedKeeps ==
  ASSUME Parts, NEW r \in Runs, Walks(run[r]), Aborted(r),
         RowsInv', RowsAttended', \A i \in Items : row[i].state # "absent" => row'[i].state # "absent"
  PROVE  Parts'
<1> PICK x : x = NoRun
  OBVIOUS
<1>1. RunOK(x) /\ x.item = None /\ ~Walks(x)
  BY NoRunOK DEF NoRun, Walks
<1>2. /\ run' = [run EXCEPT ![r] = x] /\ UNCHANGED envVars /\ UNCHANGED jammed
      /\ active' = FALSE /\ watch' \in Published
  BY DEF Aborted
<1>3. SettingsOK'
  <2>1. watch' \in Watches
    BY <1>2, PublishedOK DEF Parts
  <2>2. QED
    BY <1>2, <2>1 DEF Parts, SettingsOK, envVars
<1>4. UNCHANGED vault /\ ~active'
  BY <1>2 DEF envVars
<1>5. QED
  BY <1>1, <1>2, <1>3, <1>4, RunMoves

-----------------------------------------------------------------------------
(* The walk.                                                               *)

(* A page takes the objects after its offset, and a short page is the last.*)
LEMMA PagesCover ==
  ASSUME vault \in Seq(Objects), NEW n \in Nat
  PROVE  /\ Page(n) \in Seq(Objects)
         /\ After(n) \ ToSet(Page(n)) \subseteq After(n + PageSize)
         /\ LastPage(Page(n)) => After(n) \ ToSet(Page(n)) = {}
<1> PICK len : len = Len(vault)
  OBVIOUS
<1>1. len \in Nat /\ DOMAIN vault = 1 .. len /\ PageSize \in Nat /\ PageSize > 0
  BY IndexerAssumption, LenProperties
<1> PICK top : top = IF n + PageSize < len THEN n + PageSize ELSE len
  OBVIOUS
<1>2. top \in Nat /\ top <= len
  BY <1>1
<1> PICK page : page = Page(n)
  OBVIOUS
<1>3. /\ page \in Seq(Objects)
      /\ Len(page) = IF n + 1 <= top THEN top - (n + 1) + 1 ELSE 0
      /\ \A i \in 1 .. top - (n + 1) + 1 : page[i] = vault[n + 1 + i - 1]
  <2>1. page = SubSeq(vault, n + 1, top)
    BY DEF Page
  <2>2. n + 1 \in Nat \ {0}
    OBVIOUS
  <2>3. QED
    BY <1>2, <2>1, <2>2, SubSeqType
<1>4. DOMAIN page = 1 .. Len(page) /\ Len(page) \in Nat
  BY <1>3, LenProperties
<1>5. ASSUME NEW k \in 1 .. len, k > n, vault[k] \notin ToSet(page)
      PROVE  k > top
  <2>1. SUFFICES ASSUME k <= top PROVE FALSE
    BY <1>1, <1>2
  <2>2. k - n \in 1 .. top - (n + 1) + 1 /\ n + 1 + (k - n) - 1 = k /\ n + 1 <= top
    BY <1>1, <1>2, <1>5, <2>1
  <2>3. page[k - n] = vault[k] /\ k - n \in DOMAIN page
    BY <1>3, <1>4, <2>2
  <2>4. QED
    BY <1>5, <2>3 DEF ToSet
<1>6. After(n) \ ToSet(page) \subseteq After(n + PageSize)
  <2>1. ASSUME NEW k \in 1 .. len, k > n, vault[k] \notin ToSet(page)
        PROVE  k > n + PageSize
    BY <1>1, <1>5, <2>1
  <2>2. QED
    BY <1>1, <2>1 DEF After
<1>7. LastPage(page) => After(n) \ ToSet(page) = {}
  <2>1. ASSUME LastPage(page) PROVE top = len
    <3>1. Len(page) < PageSize
      BY <2>1 DEF LastPage
    <3>2. QED
      BY <1>1, <1>3, <3>1
  <2>2. ASSUME top = len, NEW k \in 1 .. len, k > n, vault[k] \notin ToSet(page)
        PROVE  FALSE
    BY <1>1, <1>5, <2>2
  <2>3. QED
    BY <1>1, <2>1, <2>2 DEF After
<1>8. QED
  BY <1>3, <1>6, <1>7

LEMMA VaultIsSeq == SettingsOK => vault \in Seq(Objects)
BY IndexerAssumption DEF SettingsOK

LEMMA WalkKeeps ==
  ASSUME Parts, NEW r \in Runs, NEW s \in Run, Walks(run[r]), run[r].item = None,
         s.last => s.unseen = {}, s.unseen \subseteq After(s.offset + PageSize),
         Proceed(r, s), UNCHANGED libVars
  PROVE  Parts'
<1>1. RowsInv' /\ UNCHANGED row
  BY RowsUnchanged DEF Parts, libVars
<1> PICK x : x = Onward(s)
  OBVIOUS
<1>2. run' = [run EXCEPT ![r] = x]
  BY DEF Proceed
<1>3. \A i \in Items : Attended(i) => Attended(i)'
  BY <1>2, AttendedKept DEF Parts
<1>4. RowsAttended'
  BY <1>1, <1>3, RowsAttendedKept DEF Parts
<1>5. QED
  BY <1>1, <1>4, ProceedKeeps

LEMMA ListObjectsKeeps ==
  ASSUME Parts, NEW r \in Runs, ListObjects(r)
  PROVE  Parts'
<1>1. run[r] \in Run /\ run[r].stage = "listing" /\ RunOK(run[r])
  BY DEF ListObjects, Parts, RunsOK
<1> PICK n \in Nat : n = run[r].offset
  BY <1>1 DEF Run
<1> PICK page : page = Page(n)
  OBVIOUS
<1> PICK s : s = [run[r] EXCEPT !.objects = page, !.last = LastPage(page), !.unseen = run[r].unseen \ ToSet(page)]
  OBVIOUS
<1>2. /\ page \in Seq(Objects)
      /\ After(n) \ ToSet(page) \subseteq After(n + PageSize)
      /\ LastPage(page) => After(n) \ ToSet(page) = {}
  BY PagesCover, VaultIsSeq DEF Parts
<1>3. run[r].unseen \subseteq After(n)
  BY <1>1 DEF RunOK
<1>4. LastPage(page) \in BOOLEAN
  BY DEF LastPage
<1>5. s \in Run /\ s.offset = n /\ s.last = LastPage(page) /\ s.unseen = run[r].unseen \ ToSet(page)
  BY <1>1, <1>2, <1>4 DEF Run
<1>6. s.last => s.unseen = {}
  BY <1>2, <1>3, <1>5
<1>7. s.unseen \subseteq After(s.offset + PageSize)
  BY <1>2, <1>3, <1>5
<1>8. Proceed(r, s) /\ UNCHANGED libVars
  BY DEF ListObjects
<1>9. Walks(run[r]) /\ run[r].item = None
  BY <1>1 DEF Walks, RunOK
<1>10. QED
  BY <1>5, <1>6, <1>7, <1>8, <1>9, WalkKeeps

(* A run between two pages.                                                *)
LEMMA BetweenPages ==
  ASSUME RunsOK, NEW r \in Runs, run[r].stage # "listing",
         NEW s, s.last = run[r].last, s.unseen = run[r].unseen, s.offset = run[r].offset
  PROVE  (s.last => s.unseen = {}) /\ s.unseen \subseteq After(s.offset + PageSize)
BY DEF RunsOK, RunOK

LEMMA AfterObject ==
  ASSUME Parts, NEW r \in Runs, NEW s \in Run,
         run[r].stage \in {"asking", "downloading"},
         s.last = run[r].last, s.unseen = run[r].unseen, s.offset = run[r].offset,
         Proceed(r, s), UNCHANGED libVars
  PROVE  Parts'
<1>1. (s.last => s.unseen = {}) /\ s.unseen \subseteq After(s.offset + PageSize)
  BY BetweenPages DEF Parts
<1>2. Walks(run[r]) /\ run[r].item = None
  BY DEF Walks, RunOK, RunsOK, Parts
<1>3. QED
  BY <1>1, <1>2, WalkKeeps

LEMMA FilesListedKeeps ==
  ASSUME Parts, NEW r \in Runs, FilesListed(r) \/ FilesFail(r)
  PROVE  Parts'
<1>1. run[r] \in Run /\ run[r].stage = "asking" /\ run[r].objects # <<>> /\ UNCHANGED libVars
  BY DEF FilesListed, FilesFail, Parts, RunsOK, RunOK
<1>2. run[r].objects \in Seq(Objects)
  BY <1>1 DEF Run
<1>3. Tail(run[r].objects) \in Seq(Objects) /\ Head(run[r].objects) \in Objects
  BY <1>1, <1>2
<1>4. CASE FilesListed(r)
  <2> PICK s : s = [run[r] EXCEPT !.objects = Tail(run[r].objects), !.files = FilesOf[Head(run[r].objects)]]
    OBVIOUS
  <2>1. FilesOf[Head(run[r].objects)] \in Seq(File)
    BY <1>3, IndexerAssumption
  <2>2. s \in Run /\ s.last = run[r].last /\ s.unseen = run[r].unseen /\ s.offset = run[r].offset
    BY <1>1, <1>3, <2>1 DEF Run
  <2>3. Proceed(r, s)
    BY <1>4 DEF FilesListed
  <2>4. QED
    BY <1>1, <2>2, <2>3, AfterObject
<1>5. CASE FilesFail(r)
  <2> PICK s : s = [run[r] EXCEPT !.objects = Tail(run[r].objects)]
    OBVIOUS
  <2>1. s \in Run /\ s.last = run[r].last /\ s.unseen = run[r].unseen /\ s.offset = run[r].offset
    BY <1>1, <1>3 DEF Run
  <2>2. Proceed(r, s)
    BY <1>5 DEF FilesFail
  <2>3. QED
    BY <1>1, <2>1, <2>2, AfterObject
<1>6. QED
  BY <1>4, <1>5

(* The file a run is at.                                                   *)
LEMMA FileAtHand ==
  ASSUME RunsOK, NEW r \in Runs, run[r].stage = "downloading"
  PROVE  LET s == [run[r] EXCEPT !.files = Tail(run[r].files)]
         IN  /\ run[r] \in Run /\ Head(run[r].files) \in File /\ Tail(run[r].files) \in Seq(File)
             /\ s \in Run /\ s.last = run[r].last /\ s.unseen = run[r].unseen
             /\ s.offset = run[r].offset
<1>1. run[r] \in Run /\ run[r].files # <<>>
  BY DEF RunsOK, RunOK
<1>2. run[r].files \in Seq(File)
  BY <1>1 DEF Run
<1>3. Tail(run[r].files) \in Seq(File) /\ Head(run[r].files) \in File
  BY <1>1, <1>2
<1>4. QED
  BY <1>1, <1>3 DEF Run

LEMMA FileSkippedKeeps ==
  ASSUME Parts, NEW r \in Runs, DownloadFails(r) \/ SkipKnown(r)
  PROVE  Parts'
<1> PICK s : s = [run[r] EXCEPT !.files = Tail(run[r].files)]
  OBVIOUS
<1>1. run[r].stage = "downloading" /\ Proceed(r, s) /\ UNCHANGED libVars
  BY DEF DownloadFails, SkipKnown
<1>2. s \in Run /\ s.last = run[r].last /\ s.unseen = run[r].unseen /\ s.offset = run[r].offset
  BY <1>1, FileAtHand DEF Parts
<1>3. QED
  BY <1>1, <1>2, AfterObject

LEMMA ListFailsKeeps ==
  ASSUME Parts, NEW r \in Runs, ListFails(r)
  PROVE  Parts'
<1>1. run[r].stage = "listing" /\ Aborted(r) /\ UNCHANGED libVars
  BY DEF ListFails
<1>2. Walks(run[r]) /\ run[r].item = None
  BY <1>1 DEF Walks, Parts, RunsOK, RunOK
<1>3. RowsInv' /\ UNCHANGED row
  BY <1>1, RowsUnchanged DEF Parts, libVars
<1> PICK x : x = NoRun
  OBVIOUS
<1>4. run' = [run EXCEPT ![r] = x]
  BY <1>1 DEF Aborted
<1>5. \A i \in Items : Attended(i) => Attended(i)'
  BY <1>2, <1>4, AttendedKept DEF Parts
<1>6. RowsAttended'
  BY <1>3, <1>5, RowsAttendedKept DEF Parts
<1>7. QED
  BY <1>1, <1>2, <1>3, <1>6, AbortedKeeps

-----------------------------------------------------------------------------
(* One file.                                                               *)

(* A row is inserted for a content that no row has, and its file written.  *)
Inserts(f, i, x) ==
  /\ f \in File /\ ~ChecksumExists(f.content)
  /\ i \in Items /\ row[i].state = "absent"
  /\ x \in Row /\ x.state = "present" /\ x.content = f.content /\ x.path = f.path /\ ~x.indexed
  /\ row' = [row EXCEPT ![i] = x]
  /\ disk' = [disk EXCEPT ![f.path] = f.content]
  /\ rowless' = rowless \ {f.path}

LEMMA InsertedRow ==
  ASSUME RowsInv, NEW f, NEW i, NEW x, Inserts(f, i, x)
  PROVE  RowsInv'
<1>0. /\ f \in File /\ ~ChecksumExists(f.content)
      /\ i \in Items /\ row[i].state = "absent"
      /\ x \in Row /\ x.state = "present" /\ x.content = f.content /\ x.path = f.path /\ ~x.indexed
      /\ row' = [row EXCEPT ![i] = x]
      /\ disk' = [disk EXCEPT ![f.path] = f.content]
      /\ rowless' = rowless \ {f.path}
  BY DEF Inserts
<1>1. f.content \in Contents /\ f.path \in Paths
  BY <1>0 DEF File
<1>2. /\ row' \in [Items -> Row] /\ row'[i] = x
      /\ \A j \in Items : j # i => row'[j] = row[j]
  BY <1>0 DEF RowsInv, RowsTyped
<1>3. /\ disk' \in [Paths -> Contents \cup {None}] /\ disk'[f.path] = f.content
      /\ \A p \in Paths : p # f.path => disk'[p] = disk[p]
  BY <1>0, <1>1 DEF RowsInv, RowsTyped
<1>4. RowsTyped'
  BY <1>0, <1>1, <1>2, <1>3 DEF RowsInv, RowsTyped, RowsWellFormed, Present, Blank
<1>5. Distinct'
  BY <1>0, <1>2 DEF RowsInv, Distinct, ChecksumExists, Present
<1>6. MarksStand'
  BY <1>0, <1>2 DEF RowsInv, MarksStand, Present
<1>7. FilesMatch'
  <2>1. ASSUME NEW k \in Items, row'[k].state = "present", disk'[row'[k].path] # row'[k].content
        PROVE  \/ \E j \in Items \ {k} : row'[j].path = row'[k].path
               \/ row'[k].path \in rowless'
    <3>1. k # i
      BY <1>0, <1>2, <1>3, <2>1
    <3>2. row[k].path \in Paths /\ Present(k) /\ row'[k] = row[k]
      BY <1>0, <1>2, <2>1, <3>1 DEF RowsInv, RowsTyped, RowsWellFormed, Present
    <3>3. CASE row[k].path = f.path
      BY <1>0, <1>2, <3>1, <3>2, <3>3
    <3>4. CASE row[k].path \in rowless /\ row[k].path # f.path
      BY <1>0, <3>2, <3>4
    <3>5. CASE row[k].path \notin rowless /\ row[k].path # f.path
      <4>1. PICK j \in Items \ {k} : row[j].path = row[k].path
        BY <1>0, <1>3, <2>1, <3>2, <3>5 DEF RowsInv, FilesMatch
      <4>2. row[i].path = None /\ None \notin Paths
        BY <1>0, IndexerAssumption DEF RowsInv, RowsTyped, RowsWellFormed
      <4>3. j # i
        BY <3>2, <4>1, <4>2
      <4>4. QED
        BY <1>0, <1>2, <3>2, <4>1, <4>3
    <3>6. QED
      BY <3>3, <3>4, <3>5
  <2>2. QED
    BY <2>1 DEF FilesMatch, Present
<1>8. QED
  BY <1>4, <1>5, <1>6, <1>7 DEF RowsInv

(* The marks of a row change.                                              *)
LEMMA SettledRow ==
  ASSUME RowsInv, NEW i \in Items, NEW chunks \in {"pending", "stored", "none"},
         NEW indexed \in BOOLEAN, NEW gone \in BOOLEAN,
         Present(i) /\ indexed => chunks # "pending",
         row' = Settled(i, chunks, indexed, gone), UNCHANGED <<disk, rowless>>
  PROVE  /\ RowsInv'
         /\ \A j \in Items : /\ row'[j].state = row[j].state
                             /\ j # i => row'[j] = row[j]
         /\ Present(i) => row'[i].chunks = chunks /\ row'[i].indexed = indexed /\ row'[i].gone = gone
<1>1. CASE ~Present(i)
  <2>1. UNCHANGED libVars /\ UNCHANGED row
    BY <1>1 DEF Settled, libVars
  <2>2. QED
    BY <1>1, <2>1, RowsUnchanged
<1>2. CASE Present(i)
  <2>1. row \in [Items -> Row] /\ row[i] \in Row
    BY DEF RowsInv, RowsTyped
  <2> PICK x : x = [row[i] EXCEPT !.chunks = chunks, !.indexed = indexed, !.gone = gone]
    OBVIOUS
  <2>2. /\ x \in Row /\ x.state = row[i].state /\ x.content = row[i].content /\ x.path = row[i].path
        /\ x.chunks = chunks /\ x.indexed = indexed /\ x.gone = gone
    BY <2>1 DEF Row
  <2>3. row' = [row EXCEPT ![i] = x]
    BY <1>2, <2>1 DEF Settled
  <2>4. row' \in [Items -> Row] /\ row'[i] = x /\ \A j \in Items : j # i => row'[j] = row[j]
    BY <2>1, <2>2, <2>3
  <2>5. \A j \in Items : /\ row'[j].state = row[j].state /\ row'[j].content = row[j].content
                         /\ row'[j].path = row[j].path
    BY <2>2, <2>4
  <2>6. RowsTyped'
    BY <1>2, <2>4, <2>5 DEF RowsInv, RowsTyped, RowsWellFormed, Present, Blank
  <2>7. Distinct' /\ FilesMatch'
    BY <2>5 DEF RowsInv, Distinct, FilesMatch, Present
  <2>8. MarksStand'
    BY <1>2, <2>2, <2>4 DEF RowsInv, MarksStand, Present
  <2>9. QED
    BY <2>2, <2>4, <2>5, <2>6, <2>7, <2>8 DEF RowsInv
<1>3. QED
  BY <1>1, <1>2

LEMMA WalkerIsActive ==
  ASSUME Parts, NEW r \in Runs, Walks(run[r])
  PROVE  active
BY DEF Parts, FlagInv

LEMMA FileNewKeeps ==
  ASSUME Parts, NEW r \in Runs, FileNew(r)
  PROVE  Parts'
<1>0. run[r].stage = "downloading" /\ RunsOK /\ RowsInv /\ RunOK(run[r])
  BY DEF FileNew, Parts, RunsOK
<1> PICK f : f = Head(run[r].files)
  OBVIOUS
<1> PICK i : i = CHOOSE j \in Items : row[j].state = "absent"
  OBVIOUS
<1>1. i \in Items /\ row[i].state = "absent"
  BY DEF FileNew
<1>2. f \in File /\ run[r] \in Run /\ Tail(run[r].files) \in Seq(File)
  BY <1>0, FileAtHand
<1> PICK chunks : chunks = IF f.kind = "blank" THEN "none" ELSE "pending"
  OBVIOUS
<1> PICK x : x = [NoRow EXCEPT !.state = "present", !.content = f.content, !.path = f.path, !.chunks = chunks]
  OBVIOUS
<1>3. /\ x \in Row /\ x.state = "present" /\ x.content = f.content /\ x.path = f.path /\ ~x.indexed
      /\ x.chunks = chunks
  BY <1>2 DEF NoRow, Row, File
<1>4. /\ row' = [row EXCEPT ![i] = x] /\ disk' = [disk EXCEPT ![f.path] = f.content]
      /\ rowless' = rowless \ {f.path} /\ ~ChecksumExists(f.content)
  BY DEF FileNew, NoRow
<1>5. RowsInv'
  <2>1. Inserts(f, i, x)
    BY <1>1, <1>2, <1>3, <1>4 DEF Inserts
  <2>2. QED
    BY <1>0, <2>1, InsertedRow
<1>6. row'[i] = x /\ \A j \in Items : j # i => row'[j] = row[j]
  BY <1>0, <1>1, <1>4 DEF RowsInv, RowsTyped
<1>7. \A j \in Items : row[j].state # "absent" => row'[j].state # "absent"
  BY <1>3, <1>6
<1>8. Walks(run[r]) /\ run[r].item = None
  BY <1>0 DEF Walks, RunOK
<1>9. ASSUME \A j \in Items : Attended(j) => Attended(j)', chunks = "none" \/ Attended(i)'
      PROVE  RowsAttended'
  <2>1. ASSUME NEW j \in Items, row'[j].state = "present", ~row'[j].indexed
        PROVE  row'[j].chunks = "none" \/ row'[j].gone \/ Attended(j)'
    <3>1. CASE j = i
      BY <1>3, <1>6, <1>9, <3>1
    <3>2. CASE j # i
      BY <1>6, <1>9, <2>1, <3>2 DEF Parts, RowsAttended, Present
    <3>3. QED
      BY <3>1, <3>2
  <2>2. QED
    BY <2>1 DEF RowsAttended, Present
<1>10. CASE f.kind = "blank"
  <2> PICK s : s = [run[r] EXCEPT !.files = Tail(run[r].files)]
    OBVIOUS
  <2>1. s \in Run /\ s.last = run[r].last /\ s.unseen = run[r].unseen /\ s.offset = run[r].offset
    BY <1>0, FileAtHand
  <2>2. Proceed(r, s)
    BY <1>10 DEF FileNew
  <2>3. (s.last => s.unseen = {}) /\ s.unseen \subseteq After(s.offset + PageSize)
    BY <1>0, <2>1, BetweenPages
  <2> PICK y : y = Onward(s)
    OBVIOUS
  <2>4. run' = [run EXCEPT ![r] = y]
    BY <2>2 DEF Proceed
  <2>5. \A j \in Items : Attended(j) => Attended(j)'
    BY <1>0, <1>8, <2>4, AttendedKept
  <2>6. RowsAttended'
    BY <1>9, <1>10, <2>5
  <2>7. QED
    BY <1>5, <1>7, <1>8, <2>1, <2>2, <2>3, <2>6, ProceedKeeps
<1>11. CASE f.kind # "blank"
  <2> PICK y : y = [run[r] EXCEPT !.stage = "embedding", !.files = Tail(run[r].files), !.item = i]
    OBVIOUS
  <2>1. /\ run' = [run EXCEPT ![r] = y] /\ UNCHANGED <<active, envVars, watch, jammed>>
    BY <1>0, <1>11 DEF FileNew, RunsOK
  <2>2. /\ y \in Run /\ y.last = run[r].last /\ y.unseen = run[r].unseen /\ y.offset = run[r].offset
        /\ y.stage = "embedding" /\ y.item = i
    BY <1>1, <1>2 DEF Run, Stages
  <2>3. (y.last => y.unseen = {}) /\ y.unseen \subseteq After(y.offset + PageSize)
    BY <1>0, <2>2, BetweenPages
  <2>4. RunOK(y) /\ Walks(y)
    BY <1>1, <2>2, <2>3 DEF RunOK, Walks
  <2>5. \A j \in Items : Attended(j) => Attended(j)'
    BY <1>0, <1>8, <2>1, AttendedKept
  <2>6. Attended(i)'
    <3>1. run'[r] = y
      BY <1>0, <2>1 DEF RunsOK
    <3>2. QED
      BY <2>2, <2>4, <3>1 DEF Attended, Walks
  <2>7. RowsAttended'
    BY <1>9, <2>5, <2>6
  <2>8. SettingsOK' /\ active' /\ UNCHANGED vault
    BY <1>8, <2>1, WalkerIsActive DEF Parts, SettingsOK, envVars
  <2>9. y.item # None => row'[y.item].state # "absent"
    BY <1>3, <1>6, <2>2
  <2>10. QED
    BY <1>5, <1>7, <1>8, <2>1, <2>4, <2>7, <2>8, <2>9, RunMoves
<1>12. QED
  BY <1>10, <1>11

(* The row of a run that ingests a file.                                   *)
LEMMA RowAtHand ==
  ASSUME Parts, NEW r \in Runs, run[r].stage \in {"embedding", "extracting"}
  PROVE  /\ run[r].item \in Items /\ Walks(run[r]) /\ run[r] \in Run
         /\ row[run[r].item] \in Row /\ row[run[r].item].state # "absent"
         /\ (run[r].last => run[r].unseen = {})
         /\ run[r].unseen \subseteq After(run[r].offset + PageSize)
         /\ \A s \in Runs : s # r => ~Walks(run[s])
<1>1. RunOK(run[r]) /\ run[r] \in Run /\ run[r].stage # "listing"
  BY DEF Parts, RunsOK
<1>2. run[r].item \in Items /\ Walks(run[r])
  BY <1>1 DEF RunOK, Walks
<1>3. row[run[r].item] \in Row /\ row[run[r].item].state # "absent"
  BY <1>2, IndexerAssumption DEF Parts, RowsInv, RowsTyped, RowsHeld
<1>4. (run[r].last => run[r].unseen = {}) /\ run[r].unseen \subseteq After(run[r].offset + PageSize)
  BY <1>1 DEF RunOK
<1>5. \A s \in Runs : s # r => ~Walks(run[s])
  BY <1>2 DEF Parts, FlagInv, Alone
<1>6. QED
  BY <1>1, <1>2, <1>3, <1>4, <1>5

(* A row that is settled needs its run no longer.                          *)
LEMMA SettledAttended ==
  ASSUME Parts, NEW r \in Runs, run[r].stage \in {"embedding", "extracting"},
         NEW i, i = run[r].item,
         row'[i].state = "present" => \/ row'[i].indexed \/ row'[i].gone
                                      \/ run'[r].item = i /\ Walks(run'[r]),
         \A j \in Items : j # i => row'[j] = row[j]
  PROVE  RowsAttended'
<1>1. ASSUME NEW j \in Items, row'[j].state = "present", ~row'[j].indexed
      PROVE  row'[j].chunks = "none" \/ row'[j].gone \/ Attended(j)'
  <2>1. CASE j = i
    <3>1. CASE row'[j].gone
      BY <3>1
    <3>2. CASE run'[r].item = i /\ Walks(run'[r])
      BY <2>1, <3>2 DEF Attended, Walks
    <3>3. QED
      BY <1>1, <2>1, <3>1, <3>2
  <2>2. CASE j # i
    <3>1. ~Attended(j)
      BY <2>2, RowAtHand DEF Attended
    <3>2. QED
      BY <1>1, <2>2, <3>1 DEF Parts, RowsAttended, Present
  <2>3. QED
    BY <2>1, <2>2
<1>2. QED
  BY <1>1 DEF RowsAttended, Present

LEMMA IngestKeeps ==
  ASSUME Parts, NEW r \in Runs,
         Embedded(r) \/ NothingEmbedded(r) \/ Extracted(r) \/ IngestRaises(r)
  PROVE  Parts'
<1>0. run[r].stage \in {"embedding", "extracting"} /\ UNCHANGED <<disk, rowless>> /\ RowsInv /\ RunsOK
  BY DEF Embedded, NothingEmbedded, Extracted, IngestRaises, Parts
<1> PICK i \in Items : i = run[r].item
  BY <1>0, RowAtHand
<1>1. CASE Embedded(r)
  <2>1. row' = Settled(i, "stored", FALSE, FALSE)
    BY <1>1 DEF Embedded
  <2>2. /\ RowsInv'
        /\ \A j \in Items : row'[j].state = row[j].state /\ (j # i => row'[j] = row[j])
    BY <1>0, <2>1, SettledRow
  <2> PICK y : y = [run[r] EXCEPT !.stage = "extracting"]
    OBVIOUS
  <2>3. run' = [run EXCEPT ![r] = y] /\ UNCHANGED <<active, envVars, watch, jammed>>
    BY <1>0, <1>1 DEF Embedded, RunsOK
  <2>4. /\ y \in Run /\ y.last = run[r].last /\ y.unseen = run[r].unseen /\ y.offset = run[r].offset
        /\ y.stage = "extracting" /\ y.item = i
    BY <1>0, RowAtHand DEF Run, Stages
  <2>5. RunOK(y) /\ Walks(y)
    BY <1>0, <2>4, RowAtHand DEF RunOK, Walks
  <2>6. run'[r] = y
    <3>1. run \in [Runs -> Run]
      BY <1>0 DEF RunsOK
    <3>2. QED
      BY <2>3, <3>1, ZenonT(30)
  <2>7. RowsAttended'
    <3>1. run'[r].item = i /\ Walks(run'[r])
      BY <2>4, <2>5, <2>6
    <3>2. \A j \in Items : j # i => row'[j] = row[j]
      BY <2>2
    <3>3. QED
      BY <1>0, <3>1, <3>2, SettledAttended
  <2>8. SettingsOK' /\ active' /\ UNCHANGED vault
    BY <1>0, <2>3, RowAtHand, WalkerIsActive DEF Parts, SettingsOK, envVars
  <2>9. y.item # None => row'[y.item].state # "absent"
    BY <1>0, <2>2, <2>4, RowAtHand
  <2>10. QED
    BY <1>0, <2>2, <2>3, <2>5, <2>7, <2>8, <2>9, RowAtHand, RunMoves
<1>2. ASSUME NEW chunks \in {"stored", "none"}, row' = MarkedIndexed(i, chunks), Proceed(r, run[r])
      PROVE  Parts'
  <2>1. /\ RowsInv'
        /\ \A j \in Items : row'[j].state = row[j].state /\ (j # i => row'[j] = row[j])
        /\ Present(i) => row'[i].indexed
    BY <1>0, <1>2, SettledRow DEF MarkedIndexed
  <2>2. row'[i].state = "present" => row'[i].indexed
    BY <2>1 DEF Present
  <2>3. RowsAttended'
    BY <1>0, <2>1, <2>2, SettledAttended
  <2> PICK s : s = run[r]
    OBVIOUS
  <2>4. s \in Run /\ Walks(run[r]) /\ (s.last => s.unseen = {}) /\ s.unseen \subseteq After(s.offset + PageSize)
    BY <1>0, RowAtHand
  <2>5. QED
    BY <1>2, <2>1, <2>3, <2>4, ProceedKeeps
<1>3. CASE NothingEmbedded(r) \/ Extracted(r)
  BY <1>2, <1>3 DEF NothingEmbedded, Extracted
<1>4. CASE IngestRaises(r)
  <2> PICK chunks : chunks = row[i].chunks
    OBVIOUS
  <2>1. row' = Settled(i, chunks, FALSE, TRUE) /\ Aborted(r)
    BY <1>4 DEF IngestRaises
  <2>2. chunks \in {"pending", "stored", "none"}
    BY <1>0, RowAtHand DEF Row
  <2>3. /\ RowsInv'
        /\ \A j \in Items : row'[j].state = row[j].state /\ (j # i => row'[j] = row[j])
        /\ Present(i) => row'[i].gone
    BY <1>0, <2>1, <2>2, SettledRow
  <2>4. row'[i].state = "present" => row'[i].gone
    BY <2>3 DEF Present
  <2>5. RowsAttended'
    BY <1>0, <2>3, <2>4, SettledAttended
  <2>6. QED
    BY <1>0, <2>1, <2>3, <2>5, RowAtHand, AbortedKeeps
<1>5. QED
  BY <1>1, <1>3, <1>4

-----------------------------------------------------------------------------
(* The settings, the browser, and the start of a run.                      *)

LEMMA QuietKeeps ==
  ASSUME Parts, UNCHANGED <<active, run, libVars, vault, jammed>>, SettingsOK'
  PROVE  Parts'
<1>1. RowsInv'
  BY RowsUnchanged DEF Parts
<1>2. RunsOK'
  BY DEF Parts, RunsOK, RunOK, After, Walks
<1>3. RowsHeld'
  BY DEF Parts, RowsHeld, libVars
<1>4. RowsAttended'
  BY DEF Parts, RowsAttended, Present, Attended, Walks, libVars
<1>5. FlagInv'
  BY DEF Parts, FlagInv, Alone, Walks
<1>6. QED
  BY <1>1, <1>2, <1>3, <1>4, <1>5 DEF Parts

LEMMA SettingsKeep ==
  ASSUME Parts,
         \/ \E new \in Configs \ {"absent"} : PutConnection(new)
         \/ \E enabled \in BOOLEAN : SetEnabled(enabled)
         \/ OpenStream \/ ReadEvent
         \/ UNCHANGED vars
  PROVE  Parts'
<1>0. SettingsOK /\ MaxPuts \in Nat
  BY IndexerAssumption DEF Parts
<1>1. ASSUME NEW new \in Configs \ {"absent"}, PutConnection(new)
      PROVE  Parts'
  <2>1. Preserved(new) \in Configs
    BY DEF Preserved, Configs
  <2>2. SettingsOK'
    BY <1>0, <1>1, <2>1 DEF PutConnection, SettingsOK, Connection
  <2>3. QED
    BY <1>1, <2>2, QuietKeeps DEF PutConnection
<1>2. ASSUME NEW enabled \in BOOLEAN, SetEnabled(enabled)
      PROVE  Parts'
  <2>1. SettingsOK'
    BY <1>0, <1>2 DEF SetEnabled, SettingsOK, Connection
  <2>2. QED
    BY <1>2, <2>1, QuietKeeps DEF SetEnabled
<1>3. CASE OpenStream \/ ReadEvent
  <2>1. SettingsOK'
    BY <1>0, <1>3 DEF OpenStream, ReadEvent, SettingsOK, envVars, Watches
  <2>2. QED
    BY <1>3, <2>1, QuietKeeps DEF OpenStream, ReadEvent, envVars
<1>4. CASE UNCHANGED vars
  <2>1. SettingsOK'
    BY <1>0, <1>4 DEF SettingsOK, vars
  <2>2. QED
    BY <1>4, <2>1, QuietKeeps DEF vars, libVars
<1>5. QED
  BY <1>1, <1>2, <1>3, <1>4

(* A slot whose call does not walk is given to another.                    *)
LEMMA SlotKeeps ==
  ASSUME Parts, NEW r \in Runs, ~Walks(run[r]), NEW x, RunOK(x), x.item = None,
         run' = [run EXCEPT ![r] = x], UNCHANGED libVars, UNCHANGED vault, SettingsOK',
         \/ ~Walks(x) /\ UNCHANGED <<active, jammed>>
         \/ ~active /\ active' /\ (Walks(x) \/ jammed')
  PROVE  Parts'
<1>1. /\ RunsOK'
      /\ run'[r] = x /\ \A s \in Runs : s # r => run'[s] = run[s]
  BY RunReplaced DEF Parts
<1>2. RowsInv' /\ UNCHANGED row
  BY RowsUnchanged DEF Parts, libVars
<1>3. RowsHeld'
  BY <1>1, <1>2 DEF Parts, RowsHeld
<1>4. \A i \in Items : Attended(i) => Attended(i)'
  BY AttendedKept DEF Parts
<1>5. RowsAttended'
  BY <1>2, <1>4, RowsAttendedKept DEF Parts
<1>6. FlagInv'
  <2>1. CASE ~Walks(x) /\ UNCHANGED <<active, jammed>>
    <3>1. \A s \in Runs : Walks(run'[s]) <=> Walks(run[s])
      BY <1>1, <2>1
    <3>2. QED
      BY <2>1, <3>1 DEF Parts, FlagInv, Alone, Walks
  <2>2. CASE ~active /\ active' /\ (Walks(x) \/ jammed')
    <3>1. \A s \in Runs : ~Walks(run[s])
      BY <2>2 DEF Parts, FlagInv
    <3>2. \A s \in Runs : Walks(run'[s]) => s = r
      BY <1>1, <3>1
    <3>3. Walks(run'[r]) \/ jammed'
      BY <1>1, <2>2
    <3>4. QED
      BY <2>2, <3>2, <3>3 DEF FlagInv, Alone, Walks
  <2>3. QED
    BY <2>1, <2>2
<1>7. QED
  BY <1>1, <1>2, <1>3, <1>5, <1>6 DEF Parts

LEMMA StartIndexKeeps ==
  ASSUME Parts, StartIndex
  PROVE  Parts'
<1> PICK r : r = CHOOSE s \in {s \in Runs : run[s].stage = "idle"} : TRUE
  OBVIOUS
<1> PICK x : x = [NoRun EXCEPT !.stage = "scheduled"]
  OBVIOUS
<1>1. r \in Runs /\ run[r].stage = "idle"
  BY DEF StartIndex
<1>2. ~Walks(run[r]) /\ ~Walks(x) /\ RunOK(x) /\ x.item = None
  BY <1>1, NoRunOK DEF Walks, NoRun
<1>3. /\ run' = [run EXCEPT ![r] = x]
      /\ UNCHANGED <<active, libVars, envVars, watch, jammed>>
  BY DEF StartIndex
<1>4. SettingsOK' /\ UNCHANGED libVars /\ UNCHANGED vault /\ UNCHANGED <<active, jammed>>
  BY <1>3 DEF Parts, SettingsOK, envVars
<1>5. QED
  BY <1>1, <1>2, <1>3, <1>4, SlotKeeps

LEMMA BeginKeeps ==
  ASSUME Parts, NEW r \in Runs, BeginRefused(r) \/ Begin(r)
  PROVE  Parts'
<1>1. run[r].stage = "scheduled" /\ UNCHANGED libVars /\ UNCHANGED envVars /\ ~Walks(run[r])
  BY DEF BeginRefused, Begin, Walks
<1>2. UNCHANGED vault
  BY <1>1 DEF envVars
<1>3. ASSUME active' \in BOOLEAN, jammed' \in BOOLEAN, watch' \in Published \/ watch' = watch
      PROVE  SettingsOK'
  <2>1. watch' \in Watches
    BY <1>3, PublishedOK DEF Parts
  <2>2. QED
    BY <1>1, <1>3, <2>1 DEF Parts, SettingsOK, envVars
<1>4. active \in BOOLEAN /\ jammed \in BOOLEAN
  BY DEF Parts, SettingsOK
<1> PICK none : none = NoRun
  OBVIOUS
<1>5. RunOK(none) /\ none.item = None /\ ~Walks(none)
  BY NoRunOK DEF NoRun, Walks
<1>6. CASE run' = [run EXCEPT ![r] = none] /\ watch' \in Published /\ UNCHANGED <<active, jammed>>
  <2>1. SettingsOK'
    BY <1>3, <1>4, <1>6
  <2>2. QED
    BY <1>1, <1>2, <1>5, <1>6, <2>1, SlotKeeps
<1>7. CASE ~active /\ run' = [run EXCEPT ![r] = none] /\ active' = TRUE /\ jammed' = TRUE /\ watch' = watch
  <2>1. SettingsOK'
    BY <1>3, <1>7
  <2>2. ~active /\ active' /\ jammed'
    BY <1>7
  <2>3. QED
    BY <1>1, <1>2, <1>5, <1>7, <2>1, <2>2, SlotKeeps
<1> PICK x : x = [NoRun EXCEPT !.stage = "listing", !.config = connection.config, !.unseen = ToSet(vault)]
  OBVIOUS
<1>8. CASE ~active /\ run' = [run EXCEPT ![r] = x] /\ active' = TRUE /\ UNCHANGED <<watch, jammed>>
  <2>1. vault \in Seq(Objects) /\ connection.config \in Configs
    BY VaultIsSeq DEF Parts, SettingsOK, Connection
  <2>2. ToSet(vault) \subseteq Objects /\ ToSet(vault) \subseteq After(0)
    <3>1. Len(vault) \in Nat /\ DOMAIN vault = 1 .. Len(vault) /\ \A k \in 1 .. Len(vault) : vault[k] \in Objects
      BY <2>1, LenProperties
    <3>2. QED
      BY <3>1 DEF ToSet, After
  <2>3. <<>> \in Seq(Objects) /\ <<>> \in Seq(File) /\ 0 \in Nat
    OBVIOUS
  <2>4. /\ x \in Run /\ x.stage = "listing" /\ x.item = None /\ ~x.last
        /\ x.offset = 0 /\ x.unseen = ToSet(vault)
    BY <2>1, <2>2, <2>3 DEF NoRun, Run, Stages
  <2>5. RunOK(x) /\ Walks(x)
    BY <2>2, <2>4 DEF RunOK, Walks
  <2>6. SettingsOK'
    BY <1>3, <1>4, <1>8
  <2>7. QED
    BY <1>1, <1>2, <1>8, <2>4, <2>5, <2>6, SlotKeeps
<1>9. CASE BeginRefused(r)
  BY <1>6, <1>9 DEF BeginRefused
<1>10. CASE Begin(r)
  <2>1. ~active
    BY <1>10 DEF Begin, Refused
  <2>2. CASE connection.config \in {"absent", "empty"}
    BY <1>6, <1>10, <2>2 DEF Begin
  <2>3. CASE connection.config = "malformed"
    BY <1>7, <1>10, <2>1, <2>3 DEF Begin
  <2>4. CASE connection.config \notin {"absent", "empty", "malformed"}
    BY <1>8, <1>10, <2>1, <2>4 DEF Begin
  <2>5. QED
    BY <2>2, <2>3, <2>4
<1>11. QED
  BY <1>9, <1>10

-----------------------------------------------------------------------------
(* What happens meanwhile.                                                 *)

LEMMA DeleteItemKeeps ==
  ASSUME Parts, NEW i \in Items, DeleteItem(i)
  PROVE  Parts'
<1>1. RowsInv /\ row \in [Items -> Row] /\ disk \in [Paths -> Contents \cup {None}]
  BY DEF Parts, RowsInv, RowsTyped
<1>2. Present(i) /\ row[i].path \in Paths /\ row[i] \in Row
  BY <1>1 DEF DeleteItem, RowsInv, RowsTyped, RowsWellFormed
<1> PICK p \in Paths : p = row[i].path
  BY <1>2
<1> PICK x : x = [NoRow EXCEPT !.state = "deleted", !.path = row[i].path]
  OBVIOUS
<1>3. x \in Row /\ x.state = "deleted" /\ x.path = p /\ Blank(x)
  BY DEF NoRow, Row, Blank
<1>4. /\ row' = [row EXCEPT ![i] = x] /\ disk' = [disk EXCEPT ![p] = None]
      /\ rowless' = rowless \ {p}
      /\ UNCHANGED <<active, run, envVars, watch, jammed>>
  BY DEF DeleteItem, Without
<1>5. /\ row' \in [Items -> Row] /\ row'[i] = x
      /\ \A j \in Items : j # i => row'[j] = row[j]
  BY <1>1, <1>3, <1>4
<1>6. /\ disk' \in [Paths -> Contents \cup {None}]
      /\ \A q \in Paths : q # p => disk'[q] = disk[q]
      /\ rowless' \subseteq Paths
  BY <1>1, <1>4 DEF RowsInv, RowsTyped
<1>7. \A j \in Items : /\ row'[j].path = row[j].path
                       /\ row[j].state # "absent" => row'[j].state # "absent"
                       /\ row'[j].state = "present" => j # i /\ row'[j] = row[j]
  BY <1>2, <1>3, <1>5
<1>8. RowsTyped'
  <2>1. \A j \in Items : row'[j].state # "present" => Blank(row'[j])
    BY <1>1, <1>3, <1>5 DEF RowsInv, RowsTyped, Present
  <2>2. RowsWellFormed'
    BY <1>1, <1>3, <1>5 DEF RowsInv, RowsTyped, RowsWellFormed, Present
  <2>3. QED
    BY <1>5, <1>6, <2>1, <2>2 DEF RowsTyped, Present, Blank
<1>9. Distinct'
  BY <1>1, <1>7 DEF RowsInv, Distinct, Present
<1>10. MarksStand'
  BY <1>1, <1>7 DEF RowsInv, MarksStand, Present
<1>11. FilesMatch'
  <2>1. ASSUME NEW k \in Items, row'[k].state = "present", disk'[row'[k].path] # row'[k].content
        PROVE  \/ \E j \in Items \ {k} : row'[j].path = row'[k].path
               \/ row'[k].path \in rowless'
    <3>1. k # i /\ row'[k] = row[k] /\ Present(k) /\ row[k].path \in Paths
      BY <1>1, <1>7, <2>1 DEF RowsInv, RowsTyped, RowsWellFormed, Present
    <3>2. CASE row[k].path = p
      BY <1>3, <1>5, <3>1, <3>2
    <3>3. CASE row[k].path # p /\ row[k].path \in rowless
      BY <1>4, <3>1, <3>3
    <3>4. CASE row[k].path # p /\ row[k].path \notin rowless
      <4>1. PICK j \in Items \ {k} : row[j].path = row[k].path
        BY <1>1, <1>6, <2>1, <3>1, <3>4 DEF RowsInv, FilesMatch
      <4>2. QED
        BY <1>7, <3>1, <4>1
    <3>5. QED
      BY <3>2, <3>3, <3>4
  <2>2. QED
    BY <2>1 DEF FilesMatch, Present
<1>12. RowsInv'
  BY <1>8, <1>9, <1>10, <1>11 DEF RowsInv
<1>13. RunsOK' /\ FlagInv' /\ SettingsOK'
  BY <1>4 DEF Parts, RunsOK, RunOK, After, Walks, FlagInv, Alone, SettingsOK, envVars
<1>14. RowsHeld'
  <2>1. \A r \in Runs : run[r].item # None => run[r].item \in Items
    BY DEF Parts, RunsOK, RunOK, Run
  <2>2. QED
    BY <1>4, <1>7, <2>1 DEF Parts, RowsHeld
<1>15. RowsAttended'
  BY <1>4, <1>7 DEF Parts, RowsAttended, Attended, Present, Walks
<1>16. QED
  BY <1>12, <1>13, <1>14, <1>15 DEF Parts

(* Nothing is claimed any more of what a run has not come across.          *)
LEMMA VaultChangesKeeps ==
  ASSUME Parts, VaultChanges
  PROVE  Parts'
<1>1. /\ run' = [r \in Runs |-> [run[r] EXCEPT !.unseen = {}]]
      /\ UNCHANGED <<connection, active, libVars, watch, jammed, puts, crashes>>
      /\ edits < MaxEdits /\ edits' = edits + 1 /\ vault' \in Vaults
  BY DEF VaultChanges
<1>2. \A r \in Runs : RunOK(run[r]) /\ run[r] \in Run
  BY DEF Parts, RunsOK
<1>3. \A r \in Runs : /\ run'[r] \in Run /\ run'[r].unseen = {} /\ run'[r].stage = run[r].stage
                      /\ run'[r].item = run[r].item /\ run'[r].objects = run[r].objects
                      /\ run'[r].files = run[r].files
  BY <1>1, <1>2 DEF Run
<1>4. RunsOK'
  <2>1. \A r \in Runs : RunOK(run[r])'
    BY <1>2, <1>3 DEF RunOK, Walks
  <2>2. run' \in [Runs -> Run]
    BY <1>1, <1>3
  <2>3. QED
    BY <2>1, <2>2 DEF RunsOK
<1>5. RowsInv' /\ UNCHANGED row
  BY <1>1, RowsUnchanged DEF Parts, libVars
<1>6. RowsHeld'
  BY <1>3, <1>5 DEF Parts, RowsHeld
<1>7. \A i \in Items : Attended(i) => Attended(i)'
  BY <1>3 DEF Attended, Walks
<1>8. RowsAttended'
  BY <1>5, <1>7, RowsAttendedKept DEF Parts
<1>9. FlagInv'
  BY <1>1, <1>3 DEF Parts, FlagInv, Alone, Walks
<1>10. SettingsOK'
  BY <1>1, IndexerAssumption DEF Parts, SettingsOK
<1>11. QED
  BY <1>4, <1>5, <1>6, <1>8, <1>9, <1>10 DEF Parts

(* The rows whose ingest ends with the process are left behind, one row    *)
(* may be gone without its file, and one file there without its row.       *)
LEMMA CrashKeeps ==
  ASSUME Parts, Crash
  PROVE  Parts'
<1>1. /\ run' = [r \in Runs |-> NoRun] /\ active' = FALSE /\ jammed' = FALSE /\ watch' = "closed"
      /\ crashes < MaxCrashes /\ crashes' = crashes + 1
      /\ UNCHANGED <<connection, vault, edits, puts>>
  BY DEF Crash
<1>2. \/ row' = Orphaned(row)
      \/ \E i \in Items : Present(i) /\ row' = Orphaned(Without(i))
  BY DEF Crash
<1>3. /\ row \in [Items -> Row] /\ RowsInv /\ rowless \subseteq Paths
      /\ disk \in [Paths -> Contents \cup {None}]
  BY DEF Parts, RowsInv, RowsTyped
<1>a. /\ disk' \in [Paths -> Contents \cup {None}]
      /\ rowless \subseteq rowless' /\ rowless' \subseteq Paths
      /\ \A q \in Paths : q \notin rowless' => disk'[q] = disk[q]
  <2>1. CASE UNCHANGED <<disk, rowless>>
    BY <1>3, <2>1
  <2>2. ASSUME NEW r \in Runs, FileCutOff(r)
        PROVE  /\ disk' \in [Paths -> Contents \cup {None}]
               /\ rowless \subseteq rowless' /\ rowless' \subseteq Paths
               /\ \A q \in Paths : q \notin rowless' => disk'[q] = disk[q]
    <3> PICK f : f = Head(run[r].files)
      OBVIOUS
    <3>1. RunsOK /\ run[r].stage = "downloading"
      BY <2>2 DEF FileCutOff, Parts
    <3>a. f \in File
      BY <3>1, FileAtHand
    <3>2. f.path \in Paths /\ f.content \in Contents
      BY <3>a DEF File
    <3>3. disk' = [disk EXCEPT ![f.path] = f.content] /\ rowless' = rowless \cup {f.path}
      BY <2>2 DEF FileCutOff
    <3>4. QED
      BY <1>3, <3>2, <3>3
  <2>3. QED
    BY <2>1, <2>2 DEF Crash
<1>b. ASSUME NEW rows \in [Items -> Row], row' = Orphaned(rows), NEW i \in Items
      PROVE  /\ row'[i] \in Row
             /\ row'[i].state = rows[i].state /\ row'[i].content = rows[i].content
             /\ row'[i].path = rows[i].path /\ row'[i].chunks = rows[i].chunks
             /\ row'[i].indexed = rows[i].indexed
             /\ row'[i].gone <=> rows[i].gone \/
                                (rows[i].state = "present" /\ \E r \in Runs : run[r].item = i)
  <2> PICK g \in BOOLEAN :
        g = (rows[i].gone \/ (rows[i].state = "present" /\ \E r \in Runs : run[r].item = i))
    BY <1>b DEF Row
  <2>1. row'[i] = [rows[i] EXCEPT !.gone = g]
    BY <1>b DEF Orphaned
  <2>2. rows[i] \in Row
    BY <1>b
  <2>3. QED
    BY <2>1, <2>2 DEF Row
<1> DEFINE Left(k) ==
      /\ row'[k] \in Row /\ row'[k].path = row[k].path
      /\ row'[k].state = "absent" => row[k].state = "absent"
      /\ row'[k].state # "present" => Blank(row'[k])
      /\ row'[k].state = "present" =>
           /\ Present(k)
           /\ row'[k].content = row[k].content /\ row'[k].chunks = row[k].chunks
           /\ row'[k].indexed = row[k].indexed
           /\ row'[k].gone <=> row[k].gone \/ \E r \in Runs : run[r].item = k
<1>4. ASSUME NEW k \in Items PROVE Left(k)
  <2>1. CASE row' = Orphaned(row)
    <3>1. row[k].state # "present" => Blank(row[k])
      BY <1>3 DEF RowsInv, RowsTyped, Present
    <3>2. QED
      BY <1>3, <1>b, <2>1, <3>1 DEF Present, Blank
  <2>2. ASSUME NEW i \in Items, Present(i), row' = Orphaned(Without(i))
        PROVE  Left(k)
    <3> PICK x : x = [NoRow EXCEPT !.state = "deleted", !.path = row[i].path]
      OBVIOUS
    <3>1. row[i].path \in Paths
      BY <1>3, <2>2 DEF RowsInv, RowsTyped, RowsWellFormed
    <3>2. x \in Row /\ x.state = "deleted" /\ x.path = row[i].path /\ Blank(x)
      BY <3>1 DEF NoRow, Row, Blank
    <3>3. Without(i) = [row EXCEPT ![i] = x]
      BY DEF Without
    <3> PICK rows : rows = Without(i)
      OBVIOUS
    <3>4. /\ rows \in [Items -> Row] /\ rows[i] = x /\ row' = Orphaned(rows)
          /\ k # i => rows[k] = row[k]
      BY <1>3, <2>2, <3>2, <3>3
    <3>5. row[k].state # "present" => Blank(row[k])
      BY <1>3 DEF RowsInv, RowsTyped, Present
    <3>6. CASE k = i
      <4>a. rows[k] = x /\ x.state # "present"
        BY <3>2, <3>4, <3>6
      <4>b. /\ row'[k] \in Row /\ row'[k].state = rows[k].state
            /\ row'[k].content = rows[k].content /\ row'[k].path = rows[k].path
            /\ row'[k].chunks = rows[k].chunks /\ row'[k].indexed = rows[k].indexed
            /\ row'[k].gone <=> rows[k].gone \/
                               (rows[k].state = "present" /\ \E r \in Runs : run[r].item = k)
        BY <1>b, <3>4
      <4>1. row'[k] \in Row /\ row'[k].state = "deleted" /\ row'[k].path = x.path
        BY <3>2, <4>a, <4>b
      <4>2. Blank(row'[k])
        BY <3>2, <4>a, <4>b, Zenon DEF Blank
      <4>3. QED
        BY <3>2, <3>6, <4>1, <4>2
    <3>7. CASE k # i
      BY <1>b, <3>4, <3>5, <3>7 DEF Present, Blank
    <3>8. QED
      BY <3>6, <3>7
  <2>3. QED
    BY <1>2, <2>1, <2>2
<1>5. row' \in [Items -> Row]
  BY <1>2, <1>4 DEF Orphaned
<1>6. RowsTyped'
  <2>1. RowsWellFormed'
    BY <1>3, <1>4 DEF RowsInv, RowsTyped, RowsWellFormed, Present
  <2>2. QED
    BY <1>4, <1>5, <1>a, <2>1 DEF RowsTyped, Present, Blank
<1>7. Distinct' /\ MarksStand'
  BY <1>3, <1>4 DEF RowsInv, Distinct, MarksStand, Present
<1>8. FilesMatch'
  <2>1. ASSUME NEW k \in Items, row'[k].state = "present", disk'[row'[k].path] # row'[k].content,
               row'[k].path \notin rowless'
        PROVE  \E j \in Items \ {k} : row'[j].path = row'[k].path
    <3>1. Present(k) /\ row'[k].content = row[k].content /\ row'[k].path = row[k].path
      BY <1>4, <2>1
    <3>2. row[k].path \in Paths
      BY <1>3, <3>1 DEF RowsInv, RowsTyped, RowsWellFormed
    <3>3. disk[row[k].path] # row[k].content /\ row[k].path \notin rowless
      BY <1>a, <2>1, <3>1, <3>2
    <3>4. PICK j \in Items \ {k} : row[j].path = row[k].path
      BY <1>3, <3>1, <3>3 DEF RowsInv, FilesMatch
    <3>5. QED
      BY <1>4, <3>1, <3>4
  <2>2. QED
    BY <2>1 DEF FilesMatch, Present
<1>9. \A r \in Runs : run'[r] = NoRun
  BY <1>1
<1>10. RunsOK'
  <2>1. NoRun \in Run /\ NoRun.stage = "idle" /\ NoRun.item = None /\ NoRun.unseen = {}
    BY NoRunOK DEF RunOK, NoRun
  <2>2. run' \in [Runs -> Run]
    BY <1>1, <2>1
  <2>3. \A r \in Runs : RunOK(run[r])'
    BY <1>9, <2>1 DEF RunOK, Walks
  <2>4. QED
    BY <2>2, <2>3 DEF RunsOK
<1>11. RowsHeld' /\ FlagInv'
  BY <1>1, <1>9 DEF RowsHeld, FlagInv, Alone, Walks, NoRun
<1>12. RowsAttended'
  BY <1>4 DEF Parts, RowsAttended, Attended, Present
<1>13. SettingsOK'
  <2>1. MaxCrashes \in Nat /\ SettingsOK
    BY IndexerAssumption DEF Parts
  <2>2. crashes' \in 0 .. MaxCrashes
    BY <1>1, <2>1 DEF SettingsOK
  <2>3. active' \in BOOLEAN /\ jammed' \in BOOLEAN /\ watch' \in Watches
    BY <1>1 DEF Watches
  <2>4. QED
    BY <1>1, <2>1, <2>2, <2>3 DEF SettingsOK
<1>14. QED
  BY <1>6, <1>7, <1>8, <1>10, <1>11, <1>12, <1>13 DEF Parts, RowsInv

-----------------------------------------------------------------------------
(* The inductive invariant.                                                *)

LEMMA IndexerInit == Init => IndexerIndInv
<1> SUFFICES ASSUME Init PROVE Parts
  BY PartsOfInv
<1>1. /\ run = [r \in Runs |-> NoRun] /\ row = [i \in Items |-> NoRow] /\ disk = [p \in Paths |-> None]
      /\ rowless = {} /\ connection \in Connection /\ vault \in Vaults /\ watch = "closed"
      /\ active = FALSE /\ jammed = FALSE /\ edits = 0 /\ puts = 0 /\ crashes = 0
  BY IndexerAssumption DEF Init
<1>2. RunsOK /\ RowsHeld /\ FlagInv
  <2>1. RunOK(NoRun)
    BY NoRunOK
  <2>2. \A r \in Runs : run[r] = NoRun
    BY <1>1
  <2>3. run \in [Runs -> Run]
    BY <1>1, <2>1 DEF RunOK
  <2>4. RunsOK
    BY <2>1, <2>2, <2>3 DEF RunsOK
  <2>5. RowsHeld /\ FlagInv
    BY <1>1, <2>2 DEF RowsHeld, FlagInv, Alone, Walks, NoRun
  <2>6. QED
    BY <2>4, <2>5
<1>3. SettingsOK
  <2>1. MaxEdits \in Nat /\ MaxPuts \in Nat /\ MaxCrashes \in Nat
    BY IndexerAssumption
  <2>2. edits \in 0 .. MaxEdits /\ puts \in 0 .. MaxPuts /\ crashes \in 0 .. MaxCrashes
    BY <1>1, <2>1
  <2>3. active \in BOOLEAN /\ jammed \in BOOLEAN /\ watch \in Watches
    BY <1>1 DEF Watches
  <2>4. QED
    BY <1>1, <2>2, <2>3 DEF SettingsOK
<1>4. NoRow \in Row /\ NoRow.state = "absent" /\ NoRow.path = None /\ Blank(NoRow)
  BY DEF NoRow, Row, Blank
<1>5. \A i \in Items : row[i] = NoRow /\ ~Present(i)
  BY <1>1, <1>4 DEF Present
<1>6. RowsInv /\ RowsAttended
  BY <1>1, <1>4, <1>5 DEF RowsInv, RowsTyped, RowsWellFormed, Distinct, MarksStand, FilesMatch,
                          RowsAttended
<1>7. QED
  BY <1>2, <1>3, <1>6 DEF Parts

LEMMA IndexerNext == IndexerIndInv /\ [Next]_vars => IndexerIndInv'
<1> SUFFICES ASSUME Parts, [Next]_vars PROVE Parts'
  BY PartsOfInv, PTL
<1>1. ASSUME NEW r \in Runs, RunStep(r) PROVE Parts'
  BY <1>1, BeginKeeps, ListObjectsKeeps, ListFailsKeeps, FilesListedKeeps, FileSkippedKeeps,
     FileNewKeeps, IngestKeeps DEF RunStep
<1>2. ASSUME NEW i \in Items, DeleteItem(i) PROVE Parts'
  BY <1>2, DeleteItemKeeps
<1>3. QED
  BY <1>1, <1>2, SettingsKeep, StartIndexKeeps, VaultChangesKeeps, CrashKeeps DEF Next

(* The inductive invariant of the indexer holds throughout.                *)
THEOREM IndexerInvariance == Spec => []IndexerIndInv
<1>1. QED
  BY IndexerInit, IndexerNext, PTL DEF Spec

(* The rows, the settings, the flag and the runs keep their types, and     *)
(* nothing comes back of a row that was deleted during its ingest.         *)
THEOREM IndexerTypeCorrect == Spec => []IndexerTypeOK
<1>1. IndexerIndInv => IndexerTypeOK
  BY DEF IndexerIndInv
<1>2. QED
  BY <1>1, IndexerInvariance, PTL

(* However many requests start the indexer together, one run walks the     *)
(* vault; the flag of the registry is up while it does, and stays up after *)
(* it only when a run could not read its settings.                         *)
THEOREM RunsAreExclusive == Spec => []OneRunAtATime
<1>1. IndexerIndInv => OneRunAtATime
  BY DEF IndexerIndInv
<1>2. QED
  BY <1>1, IndexerInvariance, PTL

(* A run that ends has come across every object of a vault that stayed as  *)
(* it was; the rows it leaves have contents of their own, are marked only  *)
(* when their ingest was over, and lie on the disk unless their path was   *)
(* taken by another, or by a file whose run died before its row.           *)
THEOREM VaultIsIndexed == Spec => []VaultIndexed
<1>1. IndexerIndInv => VaultIndexed
  BY DEF IndexerIndInv
<1>2. QED
  BY <1>1, IndexerInvariance, PTL
=============================================================================
