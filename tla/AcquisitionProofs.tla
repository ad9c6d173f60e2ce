-------------------------- MODULE AcquisitionProofs --------------------------
(***************************************************************************)
(* Proofs about the acquisition queue on top of its library and its        *)
(* escalations, for every set of requests, products, scrapes and escalation *)
(* items and every bound.                                                  *)
(***************************************************************************)
EXTENDS AcquisitionQueue, EscalationProofs, FiniteSetTheorems, WellFoundedInduction

-----------------------------------------------------------------------------
(* Induction over the natural numbers, with a set in the place of a        *)
(* predicate.                                                              *)
LEMMA Induction ==
  ASSUME NEW T, 0 \in T, \A n \in Nat : n \in T => n + 1 \in T
  PROVE  Nat \subseteq T
<1> DEFINE Bad == Nat \ T
<1>1. SUFFICES ASSUME Bad # {} PROVE FALSE
  OBVIOUS
<1>2. PICK n \in Bad : \A m \in Bad : ~(<<m, n>> \in OpToRel(<, Nat))
  BY <1>1, WFMin, NatLessThanWellFounded
<1>3. n # 0 /\ n - 1 \in Nat /\ n - 1 \in T
  <2>1. n # 0 /\ n \in Nat
    BY <1>2
  <2>2. <<n - 1, n>> \in OpToRel(<, Nat)
    BY <2>1 DEF OpToRel
  <2>3. n - 1 \notin Bad
    BY <1>2, <2>2
  <2>4. QED
    BY <2>1, <2>3
<1>4. QED
  BY <1>3

-----------------------------------------------------------------------------
(* What MapThenSumSet computes over a finite set.                          *)

Pick(s) == CHOOSE x \in s : TRUE

SumOver(f, S) == MapThenSumSet(LAMBDA x : f[x], S)

(* iter holds the sum of f over every member of the set of sets D.         *)
Sums(iter, f, D) ==
  iter = [s \in D |-> IF s = {} THEN 0 ELSE f[Pick(s)] + iter[s \ {Pick(s)}]]

LEMMA PickProperties ==
  ASSUME NEW S, IsFiniteSet(S), NEW s \in SUBSET S, s # {}
  PROVE  /\ Pick(s) \in s /\ s \ {Pick(s)} \in SUBSET S
         /\ Cardinality(s) \in Nat
         /\ Cardinality(s \ {Pick(s)}) = Cardinality(s) - 1
<1>1. IsFiniteSet(s) /\ Pick(s) \in s
  BY FS_Subset DEF Pick
<1>2. QED
  BY <1>1, FS_RemoveElement, FS_CardinalityType

(* The function that MapThenSumSet is defined by exists: it is built up    *)
(* from the subsets of at most n elements, for every n.                    *)
LEMMA SumsExist ==
  ASSUME NEW S, IsFiniteSet(S), NEW f
  PROVE  \E iter : Sums(iter, f, SUBSET S)
<1> DEFINE Small(n) == {s \in SUBSET S : Cardinality(s) <= n}
           T == {n \in Nat : \E g : Sums(g, f, Small(n))}
<1>1. \A s \in SUBSET S : IsFiniteSet(s) /\ Cardinality(s) \in Nat /\ Cardinality(s) <= Cardinality(S)
  BY FS_Subset, FS_CardinalityType
<1>2. 0 \in T
  <2>1. \A s \in Small(0) : s = {}
    BY <1>1, FS_EmptySet
  <2>2. Sums([s \in Small(0) |-> 0], f, Small(0))
    BY <2>1 DEF Sums
  <2>3. QED
    BY <2>2
<1>3. ASSUME NEW n \in Nat, n \in T
      PROVE  n + 1 \in T
  <2>1. PICK g : Sums(g, f, Small(n))
    BY <1>3
  <2> DEFINE h == [s \in Small(n + 1) |-> IF s = {} THEN 0 ELSE f[Pick(s)] + g[s \ {Pick(s)}]]
  <2>2. /\ h = [s \in Small(n + 1) |-> h[s]]
        /\ \A s \in Small(n + 1) : h[s] = IF s = {} THEN 0 ELSE f[Pick(s)] + g[s \ {Pick(s)}]
    OBVIOUS
  <2>3. \A s \in Small(n) : g[s] = IF s = {} THEN 0 ELSE f[Pick(s)] + g[s \ {Pick(s)}]
    BY <2>1 DEF Sums
  <2>4. Small(n) \subseteq Small(n + 1)
    BY <1>1
  <2>5. \A s \in Small(n + 1) : s # {} => s \ {Pick(s)} \in Small(n)
    BY <1>1, PickProperties
  <2> HIDE DEF h, Small
  <2>6. \A s \in Small(n) : h[s] = g[s]
    BY <2>2, <2>3, <2>4
  <2>7. \A s \in Small(n + 1) : h[s] = IF s = {} THEN 0 ELSE f[Pick(s)] + h[s \ {Pick(s)}]
    BY <2>2, <2>5, <2>6
  <2>8. Sums(h, f, Small(n + 1))
    BY <2>2, <2>7 DEF Sums
  <2>9. QED
    BY <2>8
<1>4. Cardinality(S) \in T
  <2> HIDE DEF T
  <2>1. QED
    BY <1>1, <1>2, <1>3, Induction, FS_CardinalityType
<1>5. Small(Cardinality(S)) = SUBSET S
  BY <1>1
<1>6. PICK g : Sums(g, f, Small(Cardinality(S)))
  BY <1>4
<1> HIDE DEF Small
<1>7. QED
  BY <1>5, <1>6

LEMMA SumOverDef ==
  ASSUME NEW S, IsFiniteSet(S), NEW f
  PROVE  \E iter : SumOver(f, S) = iter[S] /\ Sums(iter, f, SUBSET S)
<1>1. SumOver(f, S) = (CHOOSE iter : Sums(iter, f, SUBSET S))[S]
  BY DEF SumOver, MapThenSumSet, MapThenFoldSet, Sums, Pick
<1>2. QED
  BY <1>1, SumsExist

(* A sum whose every term exceeds its counterpart by one at most exceeds   *)
(* the other sum by the number of terms at most.                           *)
LEMMA SumsCompare ==
  ASSUME NEW S, IsFiniteSet(S), NEW f, NEW g,
         \A x \in S : f[x] \in Nat /\ g[x] \in Nat /\ f[x] <= g[x] + 1
  PROVE  /\ SumOver(f, S) \in Nat /\ SumOver(g, S) \in Nat
         /\ SumOver(f, S) <= SumOver(g, S) + Cardinality(S)
<1>1. PICK F : SumOver(f, S) = F[S] /\ Sums(F, f, SUBSET S)
  BY SumOverDef
<1>2. PICK G : SumOver(g, S) = G[S] /\ Sums(G, g, SUBSET S)
  BY SumOverDef
<1> DEFINE Close(s) == F[s] \in Nat /\ G[s] \in Nat /\ F[s] <= G[s] + Cardinality(s)
           T == {n \in Nat : \A s \in SUBSET S : Cardinality(s) = n => Close(s)}
<1>3. \A s \in SUBSET S : IsFiniteSet(s) /\ Cardinality(s) \in Nat
  BY FS_Subset, FS_CardinalityType
<1>4. \A s \in SUBSET S :
        /\ F[s] = IF s = {} THEN 0 ELSE f[Pick(s)] + F[s \ {Pick(s)}]
        /\ G[s] = IF s = {} THEN 0 ELSE g[Pick(s)] + G[s \ {Pick(s)}]
  BY <1>1, <1>2 DEF Sums
<1>5. 0 \in T
  BY <1>3, <1>4, FS_EmptySet
<1>6. ASSUME NEW n \in Nat, n \in T
      PROVE  n + 1 \in T
  <2> SUFFICES ASSUME NEW s \in SUBSET S, Cardinality(s) = n + 1
               PROVE  Close(s)
    OBVIOUS
  <2>1. s # {}
    BY FS_EmptySet
  <2>2. /\ Pick(s) \in S /\ s \ {Pick(s)} \in SUBSET S
        /\ Cardinality(s \ {Pick(s)}) = n
    BY <2>1, PickProperties
  <2>3. Close(s \ {Pick(s)})
    BY <1>6, <2>2
  <2>4. F[s] = f[Pick(s)] + F[s \ {Pick(s)}] /\ G[s] = g[Pick(s)] + G[s \ {Pick(s)}]
    BY <1>4, <2>1
  <2>5. QED
    BY <2>2, <2>3, <2>4
<1> HIDE DEF T
<1>7. Cardinality(S) \in T
  BY <1>3, <1>5, <1>6, Induction
<1>8. QED
  BY <1>1, <1>2, <1>7 DEF T

-----------------------------------------------------------------------------
(* The library.                                                            *)

(* PathsFiledOnce, of any table.                                           *)
FiledOnce(rows) ==
  \A j, k \in DOMAIN rows :
    j < k /\ rows[j].product = rows[k].product /\ rows[j].path = rows[k].path
      => rows[k].sum = Absent

Table(rows) == rows \in Seq(LibraryRow) /\ FiledOnce(rows)

LEMMA LibraryInvIsTable ==
  LibraryInv <=> Table(library) /\ disk \in [Paths -> Contents \cup {Absent}]
BY DEF LibraryInv, LibraryTypeOK, PathsFiledOnce, Table, FiledOnce

(* A row at the end leaves the table as required if it was made by hand or *)
(* if the product had no row for the path.                                 *)
LEMMA AppendTable ==
  ASSUME NEW rows, Table(rows), NEW new \in LibraryRow,
         new.sum = Absent \/ ~HasRow(rows, new.product, new.path)
  PROVE  Table(Append(rows, new))
<1>1. rows \in Seq(LibraryRow) /\ FiledOnce(rows)
  BY DEF Table
<1>2. /\ Append(rows, new) \in Seq(LibraryRow)
      /\ Len(rows) \in Nat /\ DOMAIN rows = 1 .. Len(rows)
      /\ Len(Append(rows, new)) = Len(rows) + 1
      /\ \A i \in 1 .. Len(rows) : Append(rows, new)[i] = rows[i]
      /\ Append(rows, new)[Len(rows) + 1] = new
  BY <1>1, AppendProperties, LenProperties
<1>3. DOMAIN Append(rows, new) = 1 .. Len(rows) + 1
  BY <1>2, LenProperties
<1>4. ASSUME NEW j \in 1 .. Len(rows) + 1, NEW k \in 1 .. Len(rows) + 1, j < k,
             Append(rows, new)[j].product = Append(rows, new)[k].product,
             Append(rows, new)[j].path = Append(rows, new)[k].path
      PROVE  Append(rows, new)[k].sum = Absent
  <2>1. j \in 1 .. Len(rows) /\ Append(rows, new)[j] = rows[j]
    BY <1>2, <1>4
  <2>2. CASE k = Len(rows) + 1
    BY <1>2, <1>4, <2>1, <2>2 DEF HasRow
  <2>3. CASE k # Len(rows) + 1
    <3>1. k \in 1 .. Len(rows) /\ Append(rows, new)[k] = rows[k]
      BY <1>2, <2>3
    <3>2. QED
      BY <1>1, <1>2, <1>4, <2>1, <3>1 DEF FiledOnce
  <2>4. QED
    BY <2>2, <2>3
<1>5. FiledOnce(Append(rows, new))
  BY <1>3, <1>4 DEF FiledOnce
<1>6. QED
  BY <1>2, <1>5 DEF Table

(* Without one of its rows, the others in the same order.                  *)
LEMMA RemoveTable ==
  ASSUME NEW rows, Table(rows), NEW n \in DOMAIN rows
  PROVE  Table(RemoveAt(rows, n))
<1> DEFINE front == SubSeq(rows, 1, n - 1)
           back == SubSeq(rows, n + 1, Len(rows))
           old(i) == IF i < n THEN i ELSE i + 1
           len == Len(rows)
<1>1. rows \in Seq(LibraryRow) /\ FiledOnce(rows)
  BY DEF Table
<1>2. /\ len \in Nat /\ DOMAIN rows = 1 .. len
      /\ \A i \in 1 .. len : rows[i] \in LibraryRow
      /\ n \in 1 .. len
  BY <1>1, LenProperties
<1>3. /\ front \in Seq(LibraryRow) /\ Len(front) = n - 1
      /\ \A i \in 1 .. n - 1 : front[i] = rows[i]
  <2>1. n - 1 \in Int /\ \A i \in 1 .. n - 1 : rows[i] \in LibraryRow
    BY <1>2
  <2>2. /\ front \in Seq(LibraryRow)
        /\ Len(front) = IF 1 <= n - 1 THEN n - 1 - 1 + 1 ELSE 0
        /\ \A i \in 1 .. n - 1 - 1 + 1 : front[i] = rows[1 + i - 1]
    BY <2>1, SubSeqProperties
  <2> HIDE DEF front
  <2>3. Len(front) = n - 1
    BY <1>2, <2>2
  <2>4. ASSUME NEW i \in 1 .. n - 1 PROVE front[i] = rows[i]
    <3>1. i \in 1 .. n - 1 - 1 + 1 /\ 1 + i - 1 = i
      BY <1>2
    <3>2. QED
      BY <2>2, <3>1
  <2>5. QED
    BY <2>2, <2>3, <2>4
<1>4. /\ back \in Seq(LibraryRow) /\ Len(back) = len - n
      /\ \A i \in 1 .. len - n : back[i] = rows[n + i]
  <2>1. n + 1 \in Int /\ len \in Int /\ \A i \in n + 1 .. len : rows[i] \in LibraryRow
    BY <1>2
  <2>2. /\ back \in Seq(LibraryRow)
        /\ Len(back) = IF n + 1 <= len THEN len - (n + 1) + 1 ELSE 0
        /\ \A i \in 1 .. len - (n + 1) + 1 : back[i] = rows[n + 1 + i - 1]
    BY <2>1, SubSeqProperties
  <2> HIDE DEF back
  <2>3. Len(back) = len - n
    BY <1>2, <2>2
  <2>4. ASSUME NEW i \in 1 .. len - n PROVE back[i] = rows[n + i]
    <3>1. i \in 1 .. len - (n + 1) + 1 /\ n + 1 + i - 1 = n + i
      BY <1>2
    <3>2. QED
      BY <2>2, <3>1
  <2>5. QED
    BY <2>2, <2>3, <2>4
<1>5. RemoveAt(rows, n) = front \o back
  BY DEF RemoveAt
<1> HIDE DEF front, back
<1>6. /\ RemoveAt(rows, n) \in Seq(LibraryRow)
      /\ Len(RemoveAt(rows, n)) = len - 1
      /\ \A i \in 1 .. len - 1 : RemoveAt(rows, n)[i] = rows[old(i)]
  <2>1. /\ front \o back \in Seq(LibraryRow)
        /\ Len(front \o back) = Len(front) + Len(back)
        /\ \A i \in 1 .. Len(front) + Len(back) :
             (front \o back)[i] = IF i <= Len(front) THEN front[i] ELSE back[i - Len(front)]
    BY <1>3, <1>4, ConcatProperties
  <2>2. Len(front) + Len(back) = len - 1
    BY <1>2, <1>3, <1>4
  <2>3. ASSUME NEW i \in 1 .. len - 1 PROVE (front \o back)[i] = rows[old(i)]
    <3>1. CASE i < n
      <4>1. i \in 1 .. n - 1 /\ i <= Len(front)
        BY <1>2, <1>3, <3>1
      <4>2. QED
        BY <1>3, <2>1, <2>2, <3>1, <4>1
    <3>2. CASE ~(i < n)
      <4>1. i - Len(front) \in 1 .. len - n /\ ~(i <= Len(front)) /\ n + (i - Len(front)) = i + 1
        BY <1>2, <1>3, <3>2
      <4>2. QED
        BY <1>4, <2>1, <2>2, <3>2, <4>1
    <3>3. QED
      BY <3>1, <3>2
  <2>4. QED
    BY <1>5, <2>1, <2>2, <2>3
<1>7. DOMAIN RemoveAt(rows, n) = 1 .. len - 1
  BY <1>6, LenProperties
<1>8. \A j, k \in 1 .. len - 1 : j < k => old(j) \in 1 .. len /\ old(k) \in 1 .. len /\ old(j) < old(k)
  BY <1>2
<1>9. FiledOnce(RemoveAt(rows, n))
  <2> DEFINE rest == RemoveAt(rows, n)
  <2>1. SUFFICES ASSUME NEW j \in 1 .. len - 1, NEW k \in 1 .. len - 1, j < k,
                        rest[j].product = rest[k].product, rest[j].path = rest[k].path
                 PROVE  rest[k].sum = Absent
    BY <1>7 DEF FiledOnce
  <2>2. /\ rest[j] = rows[old(j)] /\ rest[k] = rows[old(k)]
        /\ old(j) \in DOMAIN rows /\ old(k) \in DOMAIN rows /\ old(j) < old(k)
    BY <1>2, <1>6, <1>8, <2>1
  <2> HIDE DEF old, rest
  <2>3. QED
    BY <1>1, <2>1, <2>2 DEF FiledOnce
<1>10. QED
  BY <1>6, <1>9 DEF Table

LEMMA FiledTable ==
  ASSUME NEW rows, Table(rows), NEW product \in Products, NEW result \in Result
  PROVE  Table(Filed(rows, product, result))
<1> DEFINE new == [product |-> product, path |-> result.path, sum |-> result.sum]
<1>1. new \in LibraryRow /\ new.product = product /\ new.path = result.path
  BY DEF LibraryRow, Result
<1> HIDE DEF new
<1>2. Filed(rows, product, result) =
        IF HasRow(rows, new.product, new.path) THEN rows ELSE Append(rows, new)
  BY <1>1 DEF Filed, new
<1>3. QED
  BY <1>1, <1>2, AppendTable

(* The tables that filing goes through, one result after the other.        *)
LEMMA FiledSoFarDef ==
  ASSUME NEW product, NEW results, Len(results) \in Nat
  PROVE  /\ FiledSoFar(product, results)[0] = library
         /\ \A n \in 1 .. Len(results) :
              FiledSoFar(product, results)[n] =
                Filed(FiledSoFar(product, results)[n - 1], product, results[n])
<1> DEFINE Files(g, n) ==
             g = [m \in 0 .. n |-> IF m = 0 THEN library ELSE Filed(g[m - 1], product, results[m])]
           T == {n \in Nat : \E g : Files(g, n)}
<1>1. 0 \in T
  <2>1. Files([m \in 0 .. 0 |-> library], 0)
    OBVIOUS
  <2>2. QED
    BY <2>1
<1>2. ASSUME NEW n \in Nat, n \in T
      PROVE  n + 1 \in T
  <2>1. PICK g : Files(g, n)
    BY <1>2
  <2> DEFINE h == [m \in 0 .. n + 1 |-> IF m = 0 THEN library ELSE Filed(g[m - 1], product, results[m])]
  <2>2. /\ h = [m \in 0 .. n + 1 |-> h[m]]
        /\ \A m \in 0 .. n + 1 : h[m] = IF m = 0 THEN library ELSE Filed(g[m - 1], product, results[m])
    OBVIOUS
  <2>3. \A m \in 0 .. n : g[m] = IF m = 0 THEN library ELSE Filed(g[m - 1], product, results[m])
    BY <2>1
  <2>4. \A m \in 0 .. n : m \in 0 .. n + 1
    OBVIOUS
  <2>5. \A m \in 0 .. n + 1 : m # 0 => m - 1 \in 0 .. n
    OBVIOUS
  <2> HIDE DEF h
  <2>6. \A m \in 0 .. n : h[m] = g[m]
    BY <2>2, <2>3, <2>4
  <2>7. \A m \in 0 .. n + 1 : h[m] = IF m = 0 THEN library ELSE Filed(h[m - 1], product, results[m])
    BY <2>2, <2>5, <2>6
  <2>8. Files(h, n + 1)
    BY <2>2, <2>7
  <2>9. QED
    BY <2>8
<1>3. Len(results) \in T
  <2> HIDE DEF T
  <2>1. QED
    BY <1>1, <1>2, Induction
<1>4. FiledSoFar(product, results) = CHOOSE g : Files(g, Len(results))
  BY DEF FiledSoFar
<1>5. Files(FiledSoFar(product, results), Len(results))
  BY <1>3, <1>4
<1>6. QED
  BY <1>5

(* Filing the results of a scrape keeps the table as required, however     *)
(* many of them have been filed.                                           *)
LEMMA FiledSoFarTable ==
  ASSUME Table(library), NEW product \in Products, NEW results \in Seq(Result),
         NEW last \in 0 .. Len(results)
  PROVE  Table(FiledSoFar(product, results)[last])
<1> DEFINE filed == FiledSoFar(product, results)
           T == {n \in Nat : n <= Len(results) => Table(filed[n])}
<1>1. Len(results) \in Nat /\ \A n \in 1 .. Len(results) : results[n] \in Result
  BY LenProperties
<1>2. /\ filed[0] = library
      /\ \A n \in 1 .. Len(results) : filed[n] = Filed(filed[n - 1], product, results[n])
  BY <1>1, FiledSoFarDef
<1>3. 0 \in T
  BY <1>2
<1> HIDE DEF filed
<1>4. ASSUME NEW n \in Nat, n \in T
      PROVE  n + 1 \in T
  <2> SUFFICES ASSUME n + 1 <= Len(results) PROVE Table(filed[n + 1])
    OBVIOUS
  <2>1. Table(filed[n])
    BY <1>1, <1>4
  <2>2. filed[n + 1] = Filed(filed[n], product, results[n + 1]) /\ results[n + 1] \in Result
    BY <1>1, <1>2
  <2>3. QED
    BY <2>1, <2>2, FiledTable
<1>5. last \in T
  <2> HIDE DEF T
  <2>1. last \in Nat
    BY <1>1
  <2>2. QED
    BY <1>3, <1>4, <2>1, Induction
<1>6. QED
  BY <1>1, <1>5 DEF filed

LEMMA FiledAllTable ==
  ASSUME Table(library), NEW product \in Products, NEW results \in Seq(Result)
  PROVE  Table(FiledAll(product, results))
<1>1. Len(results) \in 0 .. Len(results)
  BY LenProperties
<1>2. QED
  BY <1>1, FiledSoFarTable DEF FiledAll

LEMMA LibraryStepKeeps ==
  ASSUME LibraryInv, LibraryStep
  PROVE  LibraryInv'
<1>1. Table(library) /\ disk \in [Paths -> Contents \cup {Absent}]
  BY LibraryInvIsTable
<1>2. ASSUME NEW product \in Products, NEW path \in Paths, AddRow(product, path)
      PROVE  Table(library')
  <2> DEFINE new == [product |-> product, path |-> path, sum |-> Absent]
  <2>1. new \in LibraryRow /\ new.sum = Absent /\ library' = Append(library, new)
    BY <1>2 DEF AddRow, LibraryRow
  <2> HIDE DEF new
  <2>2. QED
    BY <1>1, <2>1, AppendTable
<1>3. ASSUME NEW product \in Products, NEW name \in Names, NEW content \in Contents,
             UploadFile(product, name, content)
      PROVE  Table(library') /\ disk' \in [Paths -> Contents \cup {Absent}]
  <2>1. PICK free \in Names :
          /\ disk' = [disk EXCEPT ![<<product, free>>] = content]
          /\ AddRow(product, <<product, free>>)
    BY <1>3 DEF UploadFile
  <2>2. <<product, free>> \in Paths
    BY DEF Paths
  <2>3. QED
    BY <1>1, <1>2, <2>1, <2>2
<1>4. ASSUME NEW product \in Products, NEW name \in Names, RegisterFile(product, name)
      PROVE  Table(library') /\ disk' \in [Paths -> Contents \cup {Absent}]
  <2>1. <<product, name>> \in Paths
    BY DEF Paths
  <2>2. QED
    BY <1>1, <1>2, <1>4, <2>1 DEF RegisterFile
<1>5. ASSUME NEW k \in DOMAIN library, RemoveItem(k)
      PROVE  Table(library') /\ disk' \in [Paths -> Contents \cup {Absent}]
  <2>1. library \in Seq(LibraryRow)
    BY <1>1 DEF Table
  <2>2. library[k] \in LibraryRow
    BY <2>1, LenProperties
  <2>3. library[k].path \in Paths
    BY <2>2 DEF LibraryRow
  <2>4. QED
    BY <1>1, <1>5, <2>3, RemoveTable DEF RemoveItem
<1>6. Table(library') /\ disk' \in [Paths -> Contents \cup {Absent}]
  BY <1>3, <1>4, <1>5 DEF LibraryStep
<1>7. QED
  BY <1>6 DEF LibraryInv, LibraryTypeOK, PathsFiledOnce, Table, FiledOnce

LEMMA DownloadKeeps ==
  ASSUME LibraryInv, NEW product \in Products, NEW name \in Names, NEW content \in Contents,
         NEW result, Download(product, name, content, result), library' = library
  PROVE  LibraryInv'
<1>1. <<product, name>> \in Paths
  BY DEF Paths
<1>2. disk' \in [Paths -> Contents \cup {Absent}]
  BY <1>1 DEF Download, LibraryInv, LibraryTypeOK
<1>3. QED
  BY <1>2 DEF LibraryInv, LibraryTypeOK, PathsFiledOnce

-----------------------------------------------------------------------------
(* The queue.                                                              *)

LEMMA AcqInitInv == AcqInit => AcqIndInv
<1> SUFFICES ASSUME AcqInit PROVE AcqIndInv
  OBVIOUS
<1>1. IndInv
  BY InitIndInv DEF AcqInit
<1>2. LibraryInv
  <2>1. library \in Seq(LibraryRow) /\ DOMAIN library = {}
    BY EmptySeq DEF AcqInit, LibraryInit
  <2>2. QED
    BY <2>1 DEF AcqInit, LibraryInit, LibraryInv, LibraryTypeOK, PathsFiledOnce
<1>3. \A q \in Requests : HandedOver(q) = {}
  BY AcquisitionAssumption DEF AcqInit, HandedOver
<1>4. FinitelyHandedOver /\ NetworkApproved
  <2>1. \A q \in Requests : IsFiniteSet(HandedOver(q)) /\ Cardinality(HandedOver(q)) = 0
    BY <1>3, FS_EmptySet
  <2>2. QED
    BY <2>1 DEF FinitelyHandedOver, NetworkApproved, AcqInit
<1>5. QueueTypeOK /\ RequestsNameProducts /\ OneScrapePerRequest /\ ScrapesAccounted
  <2>1. NoScrape \in Scrape
    BY EmptySeq DEF NoScrape, Scrape
  <2>2. QED
    BY <2>1 DEF AcqInit, QueueTypeOK, Request, RequestStatuses, Scraping, NoScrape,
                RequestsNameProducts, OneScrapePerRequest, ScrapesAccounted
<1>6. QED
  BY <1>1, <1>2, <1>4, <1>5 DEF AcqIndInv, QueueInv

(* The request a scrape works on.                                          *)
LEMMA ScrapesRequest ==
  ASSUME QueueInv, NEW s \in Scrapes, Scraping(s)
  PROVE  /\ scrape[s].request \in Requests
         /\ request[scrape[s].request].status \in {"approved", "in_progress", "deleted"}
         /\ ProductOf(s) \in Products
         /\ \A x \in Scrapes : x # s => scrape[x].request # scrape[s].request
BY AcquisitionAssumption
   DEF QueueInv, QueueTypeOK, OneScrapePerRequest, RequestsNameProducts, ProductOf, Scrape

(* One escalation more that comes from a request.                          *)
LEMMA HandOver ==
  ASSUME QueueInv, NEW i \in Items, NEW q \in Requests, origin' = [origin EXCEPT ![i] = q]
  PROVE  /\ origin' \in [Items -> Requests \cup {None}]
         /\ FinitelyHandedOver'
         /\ \A p \in Requests :
              /\ Cardinality(HandedOver(p)) \in Nat /\ Cardinality(HandedOver(p)') \in Nat
              /\ Cardinality(HandedOver(p)') <= Cardinality(HandedOver(p)) + 1
              /\ p # q => Cardinality(HandedOver(p)') <= Cardinality(HandedOver(p))
<1>1. origin \in [Items -> Requests \cup {None}] /\ FinitelyHandedOver
  BY DEF QueueInv, QueueTypeOK
<1>2. ASSUME NEW p \in Requests
      PROVE  /\ HandedOver(p)' \in SUBSET (HandedOver(p) \cup {i})
             /\ p # q => HandedOver(p)' \in SUBSET HandedOver(p)
  BY <1>1 DEF HandedOver
<1>3. ASSUME NEW p \in Requests
      PROVE  /\ IsFiniteSet(HandedOver(p)')
             /\ Cardinality(HandedOver(p)) \in Nat /\ Cardinality(HandedOver(p)') \in Nat
             /\ Cardinality(HandedOver(p)') <= Cardinality(HandedOver(p)) + 1
             /\ p # q => Cardinality(HandedOver(p)') <= Cardinality(HandedOver(p))
  <2>1. IsFiniteSet(HandedOver(p)) /\ Cardinality(HandedOver(p)) \in Nat
    BY <1>1, FS_CardinalityType DEF FinitelyHandedOver
  <2>2. /\ IsFiniteSet(HandedOver(p) \cup {i})
        /\ Cardinality(HandedOver(p) \cup {i}) \in Nat
        /\ Cardinality(HandedOver(p) \cup {i}) <= Cardinality(HandedOver(p)) + 1
    <3>1. /\ IsFiniteSet(HandedOver(p) \cup {i})
          /\ Cardinality(HandedOver(p) \cup {i}) =
               IF i \in HandedOver(p) THEN Cardinality(HandedOver(p)) ELSE Cardinality(HandedOver(p)) + 1
      BY <2>1, FS_AddElement
    <3>2. QED
      BY <2>1, <3>1
  <2>3. /\ IsFiniteSet(HandedOver(p)')
        /\ Cardinality(HandedOver(p)') <= Cardinality(HandedOver(p) \cup {i})
    BY <1>2, <2>2, FS_Subset
  <2>4. Cardinality(HandedOver(p)') \in Nat
    BY <2>3, FS_CardinalityType
  <2>5. p # q => Cardinality(HandedOver(p)') <= Cardinality(HandedOver(p))
    BY <1>2, <2>1, FS_Subset
  <2>6. QED
    BY <2>1, <2>2, <2>3, <2>4, <2>5
<1>4. QED
  BY <1>1, <1>3 DEF FinitelyHandedOver

LEMMA HandedOverSame ==
  ASSUME QueueInv, origin' = origin
  PROVE  /\ origin' \in [Items -> Requests \cup {None}]
         /\ FinitelyHandedOver'
         /\ \A p \in Requests : HandedOver(p)' = HandedOver(p)
         /\ \A p \in Requests : Cardinality(HandedOver(p)) \in Nat
BY FS_CardinalityType DEF QueueInv, QueueTypeOK, FinitelyHandedOver, HandedOver

(* A user's decision on a request no scrape works on, or its deletion.     *)
LEMMA RequestKeeps ==
  ASSUME QueueInv, NEW q \in Requests, RequestStep(q)
  PROVE  QueueInv'
<1> USE AcquisitionAssumption DEF QueueInv
<1>1. /\ request \in [Requests -> Request] /\ scrape \in [Scrapes -> Scrape]
      /\ granted \in [Requests -> Nat] /\ started \in [Requests -> Nat]
      /\ \A s \in Scrapes : Scraping(s) <=> scrape[s].request # None
  BY DEF QueueTypeOK
<1>2. CASE RequestDocs(q)
  <2>1. PICK product \in Products :
          request' = [request EXCEPT ![q] = [status |-> "pending_approval", product |-> product]]
    BY <1>2 DEF RequestDocs
  <2>2. request[q].status = "absent" /\ UNCHANGED <<scrape, granted, started, origin>>
    BY <1>2 DEF RequestDocs
  <2>3. QueueTypeOK' /\ RequestsNameProducts'
    BY <2>1, <2>2 DEF QueueTypeOK, RequestsNameProducts, Request, RequestStatuses, Scraping
  <2>4. NetworkApproved' /\ ScrapesAccounted' /\ FinitelyHandedOver'
    BY <1>1, <2>1, <2>2, HandedOverSame DEF NetworkApproved, ScrapesAccounted, HandedOver
  <2>5. OneScrapePerRequest'
    BY <1>1, <2>1, <2>2 DEF OneScrapePerRequest, Scraping, Scrape
  <2>6. QED
    BY <2>3, <2>4, <2>5
<1>3. CASE (ApproveRequest(q) \/ RetryRequest(q))
  <2>1. /\ request[q].status \in {"pending_approval", "failed"}
        /\ granted' = [granted EXCEPT ![q] = @ + 1]
        /\ request' = [request EXCEPT ![q].status = "approved"]
        /\ UNCHANGED <<started, origin>>
    BY <1>3 DEF ApproveRequest, RetryRequest, Grantable, Grant, WithRequestStatus
  <2>2. PICK s \in Scrapes :
          /\ ~Scraping(s)
          /\ scrape' = [scrape EXCEPT ![s] = [NoScrape EXCEPT !.stage = "scheduled", !.request = q]]
    BY <1>3 DEF ApproveRequest, RetryRequest, Grant
  <2>3. /\ scrape'[s] \in Scrape /\ scrape'[s].stage = "scheduled" /\ scrape'[s].request = q
        /\ \A x \in Scrapes : x # s => scrape'[x] = scrape[x]
        /\ scrape' \in [Scrapes -> Scrape]
    BY <1>1, <2>2, EmptySeq DEF NoScrape, Scrape
  <2>4. \A x \in Scrapes : scrape[x].request # q
    BY <1>1, <2>1 DEF OneScrapePerRequest
  <2>5. /\ request' \in [Requests -> Request]
        /\ request'[q].status = "approved" /\ request'[q].product = request[q].product
        /\ \A p \in Requests : p # q => request'[p] = request[p]
    BY <1>1, <2>1 DEF Request, RequestStatuses
  <2>6. QueueTypeOK' /\ RequestsNameProducts'
    BY <1>1, <2>1, <2>3, <2>5 DEF QueueTypeOK, RequestsNameProducts, Scraping
  <2>7. NetworkApproved' /\ FinitelyHandedOver'
    BY <1>1, <2>1, <2>5, HandedOverSame DEF NetworkApproved
  <2>8. ScrapesAccounted'
    <3>1. started[q] <= granted[q]
      BY DEF NetworkApproved
    <3>2. \A p \in Requests : HandedOver(p)' = HandedOver(p)
      BY <2>1, HandedOverSame
    <3>3. ASSUME NEW x \in Scrapes, x # s
          PROVE  /\ scrape'[x] = scrape[x]
                 /\ scrape[x].stage \in {"scheduled", "scraping"} => scrape[x].request \in Requests \ {q}
      BY <1>1, <2>3, <2>4, <3>3 DEF Scrape, Scraping
    <3>4. granted'[q] = granted[q] + 1 /\ \A p \in Requests \ {q} : granted'[p] = granted[p]
      BY <1>1, <2>1
    <3>5. QED
      BY <1>1, <2>1, <2>3, <3>1, <3>2, <3>3, <3>4 DEF ScrapesAccounted
  <2>9. OneScrapePerRequest'
    <3>1. ASSUME NEW x \in Scrapes, Scraping(x)'
          PROVE  /\ request'[scrape'[x].request].status \in {"approved", "in_progress", "deleted"}
                 /\ \A other \in Scrapes : scrape'[other].request = scrape'[x].request => other = x
      <4>1. CASE x = s
        BY <2>3, <2>4, <2>5, <4>1
      <4>2. CASE x # s
        <5>1. scrape'[x] = scrape[x] /\ Scraping(x) /\ scrape[x].request \in Requests \ {q}
          BY <1>1, <2>3, <2>4, <3>1, <4>2 DEF Scraping, Scrape
        <5>2. QED
          BY <2>3, <2>5, <4>2, <5>1 DEF OneScrapePerRequest
      <4>3. QED
        BY <4>1, <4>2
    <3>2. QED
      BY <3>1 DEF OneScrapePerRequest
  <2>10. QED
    BY <2>6, <2>7, <2>8, <2>9
<1>4. CASE RejectRequest(q) \/ DeleteRequest(q)
  <2>1. PICK status \in {"rejected", "deleted"} :
          /\ request' = [request EXCEPT ![q].status = status]
          /\ request[q].status # "absent"
          /\ status = "rejected" => request[q].status = "pending_approval"
          /\ UNCHANGED <<scrape, granted, started, origin>>
    BY <1>4 DEF RejectRequest, DeleteRequest, WithRequestStatus
  <2>2. /\ request' \in [Requests -> Request]
        /\ request'[q].status = status /\ request'[q].product = request[q].product
        /\ \A p \in Requests : p # q => request'[p] = request[p]
    BY <1>1, <2>1 DEF Request, RequestStatuses
  <2>3. QueueTypeOK' /\ RequestsNameProducts'
    BY <2>1, <2>2 DEF QueueTypeOK, RequestsNameProducts, Scraping
  <2>4. NetworkApproved' /\ ScrapesAccounted' /\ FinitelyHandedOver'
    <3>1. FinitelyHandedOver' /\ \A p \in Requests : HandedOver(p)' = HandedOver(p)
      BY <2>1, HandedOverSame
    <3>2. \A x \in Scrapes : scrape[x].stage \in {"scheduled", "scraping"} => scrape[x].request \in Requests
      BY <1>1 DEF Scrape, Scraping
    <3>3. NetworkApproved'
      BY <2>1, <2>2, <3>1 DEF NetworkApproved
    <3>4. ScrapesAccounted'
      BY <2>1, <3>1, <3>2 DEF ScrapesAccounted
    <3>5. QED
      BY <3>1, <3>3, <3>4
  <2>5. OneScrapePerRequest'
    BY <1>1, <2>1, <2>2 DEF OneScrapePerRequest, Scraping, Scrape
  <2>6. QED
    BY <2>3, <2>4, <2>5
<1>5. QED
  BY <1>2, <1>3, <1>4 DEF RequestStep

(* A scrape ends and leaves its request failed or complete; it may have    *)
(* handed it over once.                                                    *)
LEMMA ScrapeEnds ==
  ASSUME QueueInv, NEW s \in Scrapes, Scraping(s), EndScrape(s),
         NEW status \in {"failed", "complete"},
         request' = WithRequestStatus(scrape[s].request, status),
         \/ origin' = origin
         \/ scrape[s].stage = "scraping" /\ \E i \in Items : origin' = [origin EXCEPT ![i] = scrape[s].request],
         UNCHANGED <<granted, started>>
  PROVE  QueueInv'
<1> USE AcquisitionAssumption DEF QueueInv
<1>1. PICK q \in Requests : q = scrape[s].request
  BY ScrapesRequest
<1>2. /\ request[q].status \in {"approved", "in_progress", "deleted"}
      /\ \A x \in Scrapes : x # s => scrape[x].request # q
  BY <1>1, ScrapesRequest
<1>3. /\ request \in [Requests -> Request] /\ scrape \in [Scrapes -> Scrape]
      /\ granted \in [Requests -> Nat] /\ started \in [Requests -> Nat]
      /\ \A x \in Scrapes : Scraping(x) <=> scrape[x].request # None
  BY DEF QueueTypeOK
<1>4. /\ request' \in [Requests -> Request]
      /\ request'[q].status = status /\ request'[q].product = request[q].product
      /\ \A p \in Requests : p # q => request'[p] = request[p]
  BY <1>1, <1>3 DEF WithRequestStatus, Request, RequestStatuses
<1>5. /\ scrape' \in [Scrapes -> Scrape]
      /\ scrape'[s].stage = "idle" /\ scrape'[s].request = None
      /\ \A x \in Scrapes : x # s => scrape'[x] = scrape[x]
  BY <1>3, EmptySeq DEF EndScrape, NoScrape, Scrape
<1>6. \A x \in Scrapes : Scraping(x)' => /\ x # s /\ Scraping(x) /\ scrape'[x] = scrape[x]
                                         /\ scrape[x].request \in Requests \ {q}
  BY <1>2, <1>3, <1>5 DEF Scraping, Scrape
<1>7. /\ origin' \in [Items -> Requests \cup {None}] /\ FinitelyHandedOver'
      /\ \A p \in Requests :
           /\ Cardinality(HandedOver(p)) \in Nat /\ Cardinality(HandedOver(p)') \in Nat
           /\ p # q => Cardinality(HandedOver(p)') <= Cardinality(HandedOver(p))
           /\ Cardinality(HandedOver(p)') <= started[p]
  <2>1. CASE origin' = origin
    BY <2>1, HandedOverSame DEF NetworkApproved
  <2>2. CASE scrape[s].stage = "scraping" /\ \E i \in Items : origin' = [origin EXCEPT ![i] = scrape[s].request]
    <3>1. PICK i \in Items : origin' = [origin EXCEPT ![i] = q]
      BY <1>1, <2>2
    <3>2. Cardinality(HandedOver(q)) < started[q]
      BY <1>1, <2>2 DEF ScrapesAccounted
    <3>3. \A p \in Requests : Cardinality(HandedOver(p)) <= started[p]
      BY DEF NetworkApproved
    <3>4. /\ origin' \in [Items -> Requests \cup {None}] /\ FinitelyHandedOver'
          /\ \A p \in Requests :
               /\ Cardinality(HandedOver(p)) \in Nat /\ Cardinality(HandedOver(p)') \in Nat
               /\ Cardinality(HandedOver(p)') <= Cardinality(HandedOver(p)) + 1
               /\ p # q => Cardinality(HandedOver(p)') <= Cardinality(HandedOver(p))
      BY <3>1, HandOver
    <3>5. ASSUME NEW p \in Requests PROVE Cardinality(HandedOver(p)') <= started[p]
      <4>1. CASE p = q
        BY <1>3, <3>2, <3>4, <4>1
      <4>2. CASE p # q
        BY <1>3, <3>3, <3>4, <4>2
      <4>3. QED
        BY <4>1, <4>2
    <3>6. QED
      BY <3>4, <3>5
  <2>3. QED
    BY <2>1, <2>2
<1>8. QueueTypeOK' /\ RequestsNameProducts'
  BY <1>2, <1>3, <1>4, <1>5, <1>7 DEF QueueTypeOK, RequestsNameProducts, Scraping
<1>9. NetworkApproved'
  BY <1>3, <1>4, <1>7 DEF NetworkApproved
<1>10. ScrapesAccounted'
  <2>1. \A x \in Scrapes : scrape'[x].stage \in {"scheduled", "scraping"} => Scraping(x)'
    BY DEF Scraping
  <2>2. QED
    BY <1>3, <1>6, <1>7, <2>1 DEF ScrapesAccounted
<1>11. OneScrapePerRequest'
  <2>1. ASSUME NEW x \in Scrapes, Scraping(x)'
        PROVE  /\ request'[scrape'[x].request].status \in {"approved", "in_progress", "deleted"}
               /\ \A other \in Scrapes : scrape'[other].request = scrape'[x].request => other = x
    BY <1>4, <1>5, <1>6, <2>1 DEF OneScrapePerRequest
  <2>2. QED
    BY <2>1 DEF OneScrapePerRequest
<1>12. QED
  BY <1>7, <1>8, <1>9, <1>10, <1>11

LEMMA BeginKeeps ==
  ASSUME QueueInv, NEW s \in Scrapes, BeginScrape(s)
  PROVE  QueueInv'
<1> USE AcquisitionAssumption DEF QueueInv
<1>1. scrape[s].stage = "scheduled" /\ Scraping(s) /\ UNCHANGED <<granted, origin>>
  BY DEF BeginScrape, Scraping
<1>2. PICK q \in Requests : q = scrape[s].request
  BY <1>1, ScrapesRequest
<1>3. CASE request[q].product \notin Supported
  BY <1>1, <1>2, <1>3, ScrapeEnds DEF BeginScrape
<1>4. CASE request[q].product \in Supported
  <2>1. /\ request' = [request EXCEPT ![q].status = "in_progress"]
        /\ scrape' = [scrape EXCEPT ![s].stage = "scraping"]
        /\ started' = [started EXCEPT ![q] = @ + 1]
    BY <1>2, <1>4 DEF BeginScrape, WithRequestStatus
  <2>2. /\ request \in [Requests -> Request] /\ scrape \in [Scrapes -> Scrape]
        /\ granted \in [Requests -> Nat] /\ started \in [Requests -> Nat]
        /\ \A x \in Scrapes : Scraping(x) <=> scrape[x].request # None
    BY DEF QueueTypeOK
  <2>3. /\ request[q].status \in {"approved", "in_progress", "deleted"}
        /\ \A x \in Scrapes : x # s => scrape[x].request # q
    BY <1>1, <1>2, ScrapesRequest
  <2>4. /\ request' \in [Requests -> Request]
        /\ request'[q].status = "in_progress" /\ request'[q].product = request[q].product
        /\ \A p \in Requests : p # q => request'[p] = request[p]
    BY <2>1, <2>2 DEF Request, RequestStatuses
  <2>5. /\ scrape' \in [Scrapes -> Scrape]
        /\ scrape'[s].stage = "scraping" /\ scrape'[s].request = q
        /\ \A x \in Scrapes : x # s => scrape'[x] = scrape[x]
    BY <1>2, <2>1, <2>2 DEF Scrape
  <2>6. started[q] < granted[q] /\ Cardinality(HandedOver(q)) <= started[q]
    BY <1>1, <1>2 DEF ScrapesAccounted, NetworkApproved
  <2>7. QueueTypeOK' /\ RequestsNameProducts'
    BY <1>1, <1>2, <2>1, <2>2, <2>3, <2>4, <2>5 DEF QueueTypeOK, RequestsNameProducts, Scraping
  <2>8. NetworkApproved' /\ FinitelyHandedOver'
    BY <1>1, <2>1, <2>2, <2>4, <2>6, HandedOverSame DEF NetworkApproved
  <2>9. ScrapesAccounted'
    <3>1. \A p \in Requests : HandedOver(p)' = HandedOver(p) /\ Cardinality(HandedOver(p)) \in Nat
      BY <1>1, HandedOverSame
    <3>2. ASSUME NEW x \in Scrapes, x # s
          PROVE  /\ scrape'[x] = scrape[x]
                 /\ scrape[x].stage \in {"scheduled", "scraping"} => scrape[x].request \in Requests \ {q}
      BY <2>2, <2>3, <2>5, <3>2 DEF Scrape, Scraping
    <3>3. started'[q] = started[q] + 1 /\ \A p \in Requests \ {q} : started'[p] = started[p]
      BY <2>1, <2>2
    <3>4. ASSUME NEW x \in Scrapes
          PROVE  /\ scrape'[x].stage = "scheduled" => started'[scrape'[x].request] < granted'[scrape'[x].request]
                 /\ scrape'[x].stage = "scraping" =>
                      Cardinality(HandedOver(scrape'[x].request)) < started'[scrape'[x].request]
      <4>1. CASE x = s
        BY <1>1, <2>2, <2>5, <2>6, <3>1, <3>3, <4>1
      <4>2. CASE x # s
        BY <1>1, <3>1, <3>2, <3>3, <4>2 DEF ScrapesAccounted
      <4>3. QED
        BY <4>1, <4>2
    <3>5. QED
      BY <1>1, <3>4 DEF ScrapesAccounted, HandedOver
  <2>10. OneScrapePerRequest'
    <3>1. \A x \in Scrapes : scrape'[x].request = scrape[x].request /\ (Scraping(x)' <=> Scraping(x))
      <4>1. scrape'[s].request = scrape[s].request /\ Scraping(s)'
        BY <1>2, <2>5 DEF Scraping
      <4>2. QED
        BY <1>1, <2>5, <4>1 DEF Scraping
    <3>2. \A x \in Scrapes : Scraping(x) => scrape[x].request \in Requests
      BY <2>2 DEF Scrape
    <3>3. QED
      BY <2>4, <3>1, <3>2 DEF OneScrapePerRequest
  <2>11. QED
    BY <2>7, <2>8, <2>9, <2>10
<1>5. QED
  BY <1>3, <1>4

LEMMA DownloadReturnsKeeps ==
  ASSUME QueueInv, LibraryInv, NEW s \in Scrapes, DownloadReturns(s)
  PROVE  QueueInv' /\ LibraryInv'
<1> USE AcquisitionAssumption DEF QueueInv
<1>1. scrape[s].stage = "scraping" /\ Scraping(s)
      /\ UNCHANGED <<library, request, granted, started, origin>>
  BY DEF DownloadReturns, Scraping
<1>2. scrape \in [Scrapes -> Scrape] /\ scrape[s].results \in Seq(Result) /\ ProductOf(s) \in Products
  BY <1>1, ScrapesRequest DEF QueueTypeOK, Scrape
<1>3. /\ \E results \in Seq(Result) :
           scrape' = [scrape EXCEPT ![s].found = TRUE, ![s].results = results]
      /\ LibraryInv'
  <2>1. ASSUME NEW name \in Names, NEW content \in Contents, NEW path \in Paths,
               NEW result, result = [path |-> path, sum |-> content],
               Download(ProductOf(s), name, content, result),
               scrape' = [scrape EXCEPT ![s].found = TRUE, ![s].results = Append(@, result)]
        PROVE  <1>3!1 /\ LibraryInv'
    <3>1. result \in Result
      BY <2>1 DEF Result
    <3>2. Append(scrape[s].results, result) \in Seq(Result)
      BY <1>2, <3>1, AppendProperties
    <3>3. scrape' = [scrape EXCEPT ![s].found = TRUE, ![s].results = Append(scrape[s].results, result)]
      BY <1>2, <2>1 DEF Scrape
    <3>4. LibraryInv'
      BY <1>1, <1>2, <2>1, DownloadKeeps
    <3>5. QED
      BY <3>2, <3>3, <3>4
  <2>2. CASE scrape' = [scrape EXCEPT ![s].found = TRUE] /\ UNCHANGED disk
    <3>1. scrape' = [scrape EXCEPT ![s].found = TRUE, ![s].results = scrape[s].results]
      BY <1>2, <2>2 DEF Scrape
    <3>2. LibraryInv'
      BY <1>1, <2>2 DEF LibraryInv, LibraryTypeOK, PathsFiledOnce
    <3>3. QED
      BY <1>2, <3>1, <3>2
  <2>3. QED
    BY <2>1, <2>2 DEF DownloadReturns
<1>4. PICK results \in Seq(Result) :
        scrape' = [scrape EXCEPT ![s].found = TRUE, ![s].results = results]
  BY <1>3
<1>5. /\ scrape' \in [Scrapes -> Scrape]
      /\ \A x \in Scrapes : scrape'[x].stage = scrape[x].stage /\ scrape'[x].request = scrape[x].request
  <2>1. /\ scrape' = [scrape EXCEPT ![s] = scrape'[s]]
        /\ scrape'[s] \in Scrape
        /\ scrape'[s].stage = scrape[s].stage /\ scrape'[s].request = scrape[s].request
    BY <1>2, <1>4 DEF Scrape
  <2>2. QED
    BY <1>2, <2>1
<1>6. QueueTypeOK' /\ RequestsNameProducts' /\ OneScrapePerRequest'
  <2>1. \A x \in Scrapes : Scraping(x)' <=> Scraping(x)
    BY <1>5 DEF Scraping
  <2>2. QueueTypeOK' /\ RequestsNameProducts'
    BY <1>1, <1>5, <2>1 DEF QueueTypeOK, RequestsNameProducts
  <2>3. OneScrapePerRequest'
    BY <1>1, <1>5, <2>1 DEF OneScrapePerRequest
  <2>4. QED
    BY <2>2, <2>3
<1>7. NetworkApproved' /\ ScrapesAccounted' /\ FinitelyHandedOver'
  BY <1>1, <1>5, HandedOverSame DEF NetworkApproved, ScrapesAccounted, FinitelyHandedOver, HandedOver
<1>8. QED
  BY <1>3, <1>6, <1>7

(* A crash takes the scrapes with it, and may put a request in progress or *)
(* hand one over on the way.                                               *)
LEMMA AcqCrashKeeps ==
  ASSUME QueueInv, AcqCrash
  PROVE  QueueInv'
<1> USE AcquisitionAssumption DEF QueueInv
<1>1. NoScrape \in Scrape
  BY EmptySeq DEF NoScrape, Scrape
<1>2. /\ scrape' \in [Scrapes -> Scrape]
      /\ \A s \in Scrapes : scrape'[s].stage = "idle" /\ scrape'[s].request = None
      /\ UNCHANGED <<granted, started>>
  BY <1>1 DEF AcqCrash, NoScrape
<1>3. /\ request \in [Requests -> Request]
      /\ granted \in [Requests -> Nat] /\ started \in [Requests -> Nat]
  BY DEF QueueTypeOK
<1> DEFINE RequestsKept ==
             /\ request' \in [Requests -> Request]
             /\ \A q \in Requests :
                  \/ request'[q] = request[q]
                  \/ /\ request[q].status \in {"approved", "in_progress", "deleted"}
                     /\ request'[q].status = "in_progress"
                     /\ request'[q].product = request[q].product
           HandedOverOK ==
             /\ origin' \in [Items -> Requests \cup {None}] /\ FinitelyHandedOver'
             /\ \A q \in Requests : Cardinality(HandedOver(q)') <= started[q]
<1>4. RequestsKept
  <2>1. CASE request' = request
    BY <1>3, <2>1
  <2>2. ASSUME NEW s \in Scrapes, scrape[s].stage = "scheduled",
               request' = WithRequestStatus(scrape[s].request, "in_progress")
        PROVE  RequestsKept
    <3>1. PICK q \in Requests :
            /\ q = scrape[s].request
            /\ request[q].status \in {"approved", "in_progress", "deleted"}
      BY <2>2, ScrapesRequest DEF Scraping
    <3>2. request' = [request EXCEPT ![q].status = "in_progress"]
      BY <2>2, <3>1 DEF WithRequestStatus
    <3>3. QED
      BY <1>3, <3>1, <3>2 DEF Request, RequestStatuses
  <2>3. QED
    BY <2>1, <2>2 DEF AcqCrash, ScrapeCutOff
<1>5. HandedOverOK
  <2>1. CASE origin' = origin
    BY <2>1, HandedOverSame DEF NetworkApproved
  <2>2. ASSUME NEW s \in Scrapes, scrape[s].stage = "scraping",
               NEW i \in Items, origin' = [origin EXCEPT ![i] = scrape[s].request]
        PROVE  HandedOverOK
    <3>1. PICK q \in Requests : q = scrape[s].request
      BY <2>2, ScrapesRequest DEF Scraping
    <3>2. Cardinality(HandedOver(q)) < started[q]
      BY <2>2, <3>1 DEF ScrapesAccounted
    <3>3. \A p \in Requests : Cardinality(HandedOver(p)) <= started[p]
      BY DEF NetworkApproved
    <3>4. /\ origin' \in [Items -> Requests \cup {None}] /\ FinitelyHandedOver'
          /\ \A p \in Requests :
               /\ Cardinality(HandedOver(p)) \in Nat /\ Cardinality(HandedOver(p)') \in Nat
               /\ Cardinality(HandedOver(p)') <= Cardinality(HandedOver(p)) + 1
               /\ p # q => Cardinality(HandedOver(p)') <= Cardinality(HandedOver(p))
      BY <2>2, <3>1, HandOver
    <3>5. ASSUME NEW p \in Requests PROVE Cardinality(HandedOver(p)') <= started[p]
      <4>1. CASE p = q
        BY <1>3, <3>2, <3>4, <4>1
      <4>2. CASE p # q
        BY <1>3, <3>3, <3>4, <4>2
      <4>3. QED
        BY <4>1, <4>2
    <3>6. QED
      BY <3>4, <3>5
  <2>3. QED
    BY <2>1, <2>2 DEF AcqCrash, ScrapeCutOff
<1>6. QueueTypeOK' /\ RequestsNameProducts' /\ OneScrapePerRequest' /\ ScrapesAccounted'
  BY <1>2, <1>3, <1>4, <1>5 DEF QueueTypeOK, RequestsNameProducts, OneScrapePerRequest, ScrapesAccounted, Scraping
<1>7. NetworkApproved'
  BY <1>2, <1>3, <1>4, <1>5 DEF NetworkApproved
<1>8. QED
  BY <1>5, <1>6, <1>7

(* What a crash leaves of the library is a table it might have had.        *)
LEMMA LibraryCrashKeeps ==
  ASSUME LibraryInv, QueueInv, AcqCrash
  PROVE  LibraryInv'
<1>1. Table(library) /\ disk \in [Paths -> Contents \cup {Absent}]
  BY LibraryInvIsTable
<1>2. UNCHANGED libraryVars => Table(library') /\ disk' \in [Paths -> Contents \cup {Absent}]
  BY <1>1 DEF libraryVars
<1>3. ASSUME NEW s \in Scrapes, scrape[s].stage = "scraping",
             NEW n \in DOMAIN scrape[s].results,
             library' = FiledSoFar(ProductOf(s), scrape[s].results)[n], UNCHANGED disk
      PROVE  Table(library') /\ disk' \in [Paths -> Contents \cup {Absent}]
  <2>1. ProductOf(s) \in Products /\ scrape[s].results \in Seq(Result)
    BY <1>3, ScrapesRequest DEF Scraping, QueueInv, QueueTypeOK, Scrape
  <2>2. n \in 0 .. Len(scrape[s].results)
    BY <1>3, <2>1, LenProperties
  <2>3. QED
    BY <1>1, <1>3, <2>1, <2>2, FiledSoFarTable
<1>4. ASSUME LibraryCutOff
      PROVE  Table(library') /\ disk' \in [Paths -> Contents \cup {Absent}]
  BY <1>1, <1>4, RemoveTable DEF LibraryCutOff
<1>5. Table(library') /\ disk' \in [Paths -> Contents \cup {Absent}]
  <2>1. ASSUME NEW s \in Scrapes, ScrapeCutOff(s)
        PROVE  Table(library') /\ disk' \in [Paths -> Contents \cup {Absent}]
    BY <1>1, <1>3, <2>1 DEF ScrapeCutOff, libraryVars
  <2>2. QED
    BY <1>1, <1>2, <1>4, <2>1 DEF AcqCrash, libraryVars
<1>6. QED
  BY <1>5 DEF LibraryInv, LibraryTypeOK, PathsFiledOnce, Table, FiledOnce

LEMMA QueueInvFrame ==
  ASSUME QueueInv, UNCHANGED queueVars
  PROVE  QueueInv'
BY DEF queueVars, QueueInv, QueueTypeOK, RequestsNameProducts, OneScrapePerRequest,
       NetworkApproved, ScrapesAccounted, FinitelyHandedOver, HandedOver, Scraping

LEMMA LibraryInvFrame ==
  ASSUME LibraryInv, UNCHANGED libraryVars
  PROVE  LibraryInv'
BY DEF libraryVars, LibraryInv, LibraryTypeOK, PathsFiledOnce

(* What the queue does is, to the escalations, one of their own steps or   *)
(* nothing: a scrape that finds nothing inserts a public item.             *)
LEMMA AcqNextEscalates ==
  ASSUME [AcqNext]_allVars
  PROVE  [Next]_vars
<1>1. ASSUME NEW s \in Scrapes, NothingFound(s) PROVE Next
  BY <1>1 DEF NothingFound, Next, UserStep, AddToQueue
<1>2. ASSUME NEW s \in Scrapes, ScrapeStep(s), ~NothingFound(s) PROVE UNCHANGED vars
  BY <1>2 DEF ScrapeStep, BeginScrape, DownloadReturns, FilesFound, ScrapeRaises
<1>3. ASSUME NEW q \in Requests, RequestStep(q) PROVE UNCHANGED vars
  BY <1>3 DEF RequestStep
<1>4. CASE EscalationStep \/ AcqCrash
  BY <1>4 DEF EscalationStep, AcqCrash, Next
<1>5. QED
  BY <1>1, <1>2, <1>3, <1>4 DEF AcqNext, allVars

LEMMA ScrapeKeeps ==
  ASSUME QueueInv, LibraryInv, NEW s \in Scrapes, ScrapeStep(s)
  PROVE  QueueInv' /\ LibraryInv'
<1>1. CASE BeginScrape(s)
  BY <1>1, BeginKeeps, LibraryInvFrame DEF BeginScrape
<1>2. CASE DownloadReturns(s)
  BY <1>2, DownloadReturnsKeeps
<1>3. CASE NothingFound(s)
  <2>1. Scraping(s) /\ UNCHANGED libraryVars
    BY <1>3 DEF NothingFound, Scraping
  <2>2. QueueInv'
    BY <1>3, <2>1, ScrapeEnds DEF NothingFound
  <2>3. QED
    BY <2>1, <2>2, LibraryInvFrame
<1>4. CASE FilesFound(s)
  <2>1. Scraping(s)
    BY <1>4 DEF FilesFound, Scraping
  <2>2. ProductOf(s) \in Products /\ scrape[s].results \in Seq(Result)
    BY <2>1, ScrapesRequest DEF QueueInv, QueueTypeOK, Scrape
  <2>3. Table(library')
    BY <1>4, <2>2, LibraryInvIsTable, FiledAllTable DEF FilesFound
  <2>4. LibraryInv'
    BY <1>4, <2>3 DEF FilesFound, LibraryInv, LibraryTypeOK, PathsFiledOnce, Table, FiledOnce
  <2>5. QueueInv'
    BY <1>4, <2>1, ScrapeEnds DEF FilesFound
  <2>6. QED
    BY <2>4, <2>5
<1>5. CASE ScrapeRaises(s)
  <2>1. Scraping(s) /\ UNCHANGED libraryVars
    BY <1>5 DEF ScrapeRaises, Scraping
  <2>2. QueueInv'
    BY <1>5, <2>1, ScrapeEnds DEF ScrapeRaises
  <2>3. QED
    BY <2>1, <2>2, LibraryInvFrame
<1>6. QED
  BY <1>1, <1>2, <1>3, <1>4, <1>5 DEF ScrapeStep

LEMMA AcqNextInv ==
  ASSUME AcqIndInv, [AcqNext]_allVars
  PROVE  AcqIndInv'
<1>1. IndInv /\ QueueInv /\ LibraryInv
  BY DEF AcqIndInv
<1>2. IndInv'
  BY <1>1, AcqNextEscalates, NextIndInv
<1>3. QueueInv' /\ LibraryInv'
  <2>1. CASE \E q \in Requests : RequestStep(q)
    BY <1>1, <2>1, RequestKeeps, LibraryInvFrame DEF RequestStep
  <2>2. CASE \E s \in Scrapes : ScrapeStep(s)
    BY <1>1, <2>2, ScrapeKeeps
  <2>3. CASE LibraryStep /\ UNCHANGED <<vars, queueVars>>
    BY <1>1, <2>3, LibraryStepKeeps, QueueInvFrame
  <2>4. CASE EscalationStep \/ UNCHANGED allVars
    BY <1>1, <2>4, LibraryInvFrame, QueueInvFrame DEF EscalationStep, allVars
  <2>5. CASE AcqCrash
    BY <1>1, <2>5, AcqCrashKeeps, LibraryCrashKeeps
  <2>6. QED
    BY <2>1, <2>2, <2>3, <2>4, <2>5 DEF AcqNext
<1>4. QED
  BY <1>2, <1>3 DEF AcqIndInv

-----------------------------------------------------------------------------
(* The inductive invariant of the queue, the library and the escalations   *)
(* holds throughout.                                                       *)
THEOREM AcqInvariance == AcqSpec => []AcqIndInv
BY AcqInitInv, AcqNextInv, PTL DEF AcqSpec

(* The queue, with its library and its scrapes, does nothing to the        *)
(* escalations that the escalation queue by itself could not do: whatever  *)
(* holds of the latter holds here.                                         *)
THEOREM QueueIsEscalationQueue == AcqSpec => Spec
<1>1. AcqInit => Init
  BY DEF AcqInit
<1>2. QED
  BY <1>1, AcqNextEscalates, PTL DEF AcqSpec, Spec, AcqFairness

(* The tables, the background scrapes and the counters stay well typed.    *)
THEOREM AcqTypeCorrect == AcqSpec => []AcqTypeOK
<1>1. AcqIndInv => AcqTypeOK
  BY DEF AcqIndInv, IndInv, LibraryInv, QueueInv, AcqTypeOK
<1>2. QED
  BY <1>1, AcqInvariance, PTL

(* Scrapes go out, and escalations are handed over, only as often as a     *)
(* user approved or retried the request, over crashes and deletions.       *)
THEOREM NetworkIsApproved == AcqSpec => []NetworkApproved
<1>1. AcqIndInv => NetworkApproved
  BY DEF AcqIndInv, QueueInv
<1>2. QED
  BY <1>1, AcqInvariance, PTL

(* No two scrapes work on one request.                                     *)
THEOREM ScrapesAreExclusive == AcqSpec => []OneScrapePerRequest
<1>1. AcqIndInv => OneScrapePerRequest
  BY DEF AcqIndInv, QueueInv
<1>2. QED
  BY <1>1, AcqInvariance, PTL

(* No scrape files a path that its product has a row for.                  *)
THEOREM PathsAreFiledOnce == AcqSpec => []PathsFiledOnce
<1>1. AcqIndInv => PathsFiledOnce
  BY DEF AcqIndInv, LibraryInv
<1>2. QED
  BY <1>1, AcqInvariance, PTL

(* What the approval gate promises of the escalations.                     *)
Gates == INSTANCE ApprovalGateProofs WITH
  private <- [i \in Items |-> row[i].client],
  gate    <- [i \in Items |-> GateOf(i)],
  permits <- approvals

LEMMA EscalationsCovered == AcqSpec => []Gates!Covered
<1>1. Gate!Init => Gates!Init
  BY DEF Gate!Init, Gates!Init
<1>2. [Gate!Next]_(Gate!vars) => [Gates!Next]_(Gates!vars)
  BY DEF Gate!Next, Gates!Next, Gate!vars, Gates!vars, Gate!Submit, Gates!Submit,
         Gate!Permit, Gates!Permit, Gate!Send, Gates!Send, Gate!Lapse, Gates!Lapse,
         Gate!Closed, Gates!Closed, Gate!OpenGates, Gates!OpenGates
<1>3. Gates!Spec => []Gates!Covered
  BY Gates!ItemsAreCovered
<1>4. Gate!Spec => Gates!Spec
  BY <1>1, <1>2, PTL DEF Gate!Spec, Gates!Spec
<1>5. QED
  BY <1>3, <1>4, Refinement, QueueIsEscalationQueue, PTL DEF ImplementsGate

(* AUTO_ESCALATE does not multiply approvals.  By the gate, an escalation  *)
(* makes at most one cloud call more than it was approved for itself; and  *)
(* there are at most as many escalations of a request as it was granted.   *)
THEOREM CloudCallsAreApproved == AcqSpec => []CloudCallsApproved
<1>1. ASSUME AcqIndInv, Gates!Covered
      PROVE  CloudCallsApproved
  <2> SUFFICES ASSUME NEW q \in Requests
               PROVE  MapThenSumSet(LAMBDA i : sent[i], HandedOver(q))
                        <= granted[q] + MapThenSumSet(LAMBDA i : approvals[i], HandedOver(q))
    BY DEF CloudCallsApproved
  <2>1. /\ sent \in [Items -> Nat] /\ approvals \in [Items -> Nat]
        /\ granted[q] \in Nat /\ started[q] \in Nat
    BY <1>1 DEF AcqIndInv, IndInv, TypeOK, QueueInv, QueueTypeOK
  <2>2. /\ IsFiniteSet(HandedOver(q)) /\ Cardinality(HandedOver(q)) \in Nat
        /\ Cardinality(HandedOver(q)) <= started[q] /\ started[q] <= granted[q]
    BY <1>1, FS_CardinalityType DEF AcqIndInv, QueueInv, FinitelyHandedOver, NetworkApproved
  <2>3. ASSUME NEW i \in Items
        PROVE  sent[i] <= approvals[i] + 1
    <3>1. Gates!Exposure(i) <= Gates!Allowance(i)
      BY <1>1 DEF Gates!Covered
    <3>2. QED
      BY <2>1, <3>1 DEF Gates!Exposure, Gates!Allowance
  <2>4. \A i \in HandedOver(q) : sent[i] \in Nat /\ approvals[i] \in Nat /\ sent[i] <= approvals[i] + 1
    BY <2>1, <2>3 DEF HandedOver
  <2>5. /\ SumOver(sent, HandedOver(q)) \in Nat /\ SumOver(approvals, HandedOver(q)) \in Nat
        /\ SumOver(sent, HandedOver(q))
             <= SumOver(approvals, HandedOver(q)) + Cardinality(HandedOver(q))
    BY <2>2, <2>4, SumsCompare
  <2>6. SumOver(sent, HandedOver(q)) <= granted[q] + SumOver(approvals, HandedOver(q))
    BY <2>1, <2>2, <2>5
  <2>7. QED
    BY <2>6 DEF SumOver
<1>2. QED
  BY <1>1, AcqInvariance, EscalationsCovered, PTL

(* A decision on a request stands, whatever scrapes are under way.         *)
THEOREM RequestDecisionsAreFinal == AcqSpec => RequestDecisionsStand
<1> DEFINE Stands ==
      \A q \in Requests : request'[q] # request[q] =>
        /\ request[q].status \in {"complete", "rejected"} => request'[q].status = "deleted"
        /\ request[q].status = "deleted" => \E s \in Scrapes : scrape[s].request = q
<1>1. ASSUME AcqIndInv, [AcqNext]_allVars
      PROVE  [Stands]_allVars
  <2>1. QueueInv /\ request \in [Requests -> Request]
    BY <1>1 DEF AcqIndInv, QueueInv, QueueTypeOK
  <2>2. ASSUME NEW q \in Requests, RequestStep(q) PROVE Stands
    <3>1. \A p \in Requests : p # q => request'[p] = request[p]
      BY <2>1, <2>2 DEF RequestStep, RequestDocs, ApproveRequest, RetryRequest, Grant,
                        RejectRequest, DeleteRequest, WithRequestStatus
    <3>2. CASE DeleteRequest(q)
      <4>1. request'[q] = [request[q] EXCEPT !.status = "deleted"]
        BY <2>1, <3>2 DEF DeleteRequest, WithRequestStatus
      <4>2. request[q].status = "deleted" => request'[q] = request[q]
        BY <2>1, <4>1 DEF Request
      <4>3. request'[q].status = "deleted"
        BY <2>1, <4>1 DEF Request
      <4>4. QED
        BY <3>1, <4>2, <4>3
    <3>3. CASE ~DeleteRequest(q)
      <4>1. request[q].status \in {"absent", "pending_approval", "failed"}
        BY <2>2, <3>3 DEF RequestStep, RequestDocs, ApproveRequest, RetryRequest, Grantable, RejectRequest
      <4>2. QED
        BY <3>1, <4>1
    <3>4. QED
      BY <3>2, <3>3
  <2>3. ASSUME NEW s \in Scrapes, ScrapeStep(s) PROVE Stands
    <3>1. Scraping(s)
      BY <2>3 DEF ScrapeStep, BeginScrape, DownloadReturns, NothingFound, FilesFound, ScrapeRaises, Scraping
    <3>2. \A p \in Requests : p # scrape[s].request => request'[p] = request[p]
      BY <2>1, <2>3 DEF ScrapeStep, BeginScrape, DownloadReturns, NothingFound, FilesFound,
                        ScrapeRaises, WithRequestStatus
    <3>3. request[scrape[s].request].status \notin {"complete", "rejected"}
      BY <2>1, <3>1, ScrapesRequest
    <3>4. QED
      BY <3>2, <3>3
  <2>4. CASE \/ LibraryStep /\ UNCHANGED <<vars, queueVars>>
             \/ EscalationStep \/ UNCHANGED allVars
    BY <2>4 DEF EscalationStep, allVars, queueVars
  <2>5. CASE AcqCrash
    <3>1. CASE request' = request
      BY <3>1
    <3>2. ASSUME NEW s \in Scrapes, scrape[s].stage = "scheduled",
                 request' = WithRequestStatus(scrape[s].request, "in_progress")
          PROVE  Stands
      <4>1. request[scrape[s].request].status \notin {"complete", "rejected"}
        BY <2>1, <3>2, ScrapesRequest DEF Scraping
      <4>2. \A q \in Requests : q # scrape[s].request => request'[q] = request[q]
        BY <2>1, <3>2 DEF WithRequestStatus
      <4>3. QED
        BY <4>1, <4>2
    <3>3. QED
      BY <2>5, <3>1, <3>2 DEF AcqCrash, ScrapeCutOff
  <2>6. QED
    BY <1>1, <2>2, <2>3, <2>4, <2>5 DEF AcqNext
<1>2. QED
  BY <1>1, AcqInvariance, PTL DEF AcqSpec, RequestDecisionsStand
=============================================================================
