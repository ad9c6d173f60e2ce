---------------------------- MODULE ChunkerProofs ----------------------------
(***************************************************************************)
(* Proofs about the chunker, for every text and every choice of its limits. *)
(* What chunk_structured computes is proved by induction over the blocks,  *)
(* the sections and the spans it goes through.                             *)
(***************************************************************************)
EXTENDS Chunker, TLAPS, SequenceTheorems, FiniteSetTheorems, WellFoundedInduction

-----------------------------------------------------------------------------
(* Induction, with a set in the place of a predicate.                      *)

LEMMA Induction ==
  ASSUME NEW T, 0 \in T, \A n \in Nat : n \in T => n + 1 \in T
  PROVE  Nat \subseteq T
<1> DEFINE Bad == Nat \ T
<1>1. SUFFICES ASSUME Bad # {} PROVE FALSE
  OBVIOUS
<1>2. PICK n \in Bad : \A m \in Bad : ~(<<m, n>> \in OpToRel(<, Nat))
  BY <1>1, WFMin, NatLessThanWellFounded
<1>3. n # 0 /\ n - 1 \in Nat /\ n - 1 \in T
  <2>1. n # 0 /\ n \in Nat
    BY <1>2
  <2>2. <<n - 1, n>> \in OpToRel(<, Nat)
    BY <2>1 DEF OpToRel
  <2>3. n - 1 \notin Bad
    BY <1>2, <2>2
  <2>4. QED
    BY <2>1, <2>3
<1>4. QED
  BY <1>3

(* The same up to n.                                                       *)
LEMMA InductionUpTo ==
  ASSUME NEW n \in Nat, NEW T, 0 \in T, \A k \in 1 .. n : k - 1 \in T => k \in T
  PROVE  \A k \in 0 .. n : k \in T
<1> DEFINE U == {k \in Nat : k <= n => k \in T}
<1>1. 0 \in U
  OBVIOUS
<1>2. ASSUME NEW k \in Nat, k \in U PROVE k + 1 \in U
  <2>1. CASE k + 1 <= n
    <3>1. k + 1 \in 1 .. n /\ (k + 1) - 1 = k /\ k \in T
      BY <1>2, <2>1
    <3>2. k + 1 \in T
      BY <3>1
    <3>3. QED
      BY <3>2
  <2>2. CASE ~(k + 1 <= n)
    BY <2>2
  <2>3. QED
    BY <2>1, <2>2
<1>3. Nat \subseteq U
  <2> HIDE DEF U
  <2>1. QED
    BY <1>1, <1>2, Induction
<1>4. QED
  BY <1>3

(* Two functions that begin alike and go on alike are alike.               *)
GoAlike(f, g, n) ==
  /\ f[0] = g[0]
  /\ \A k \in 1 .. n : f[k - 1] = g[k - 1] => f[k] = g[k]

AreAlike(f, g, n) == \A k \in 0 .. n : f[k] = g[k]

LEMMA Agree ==
  ASSUME NEW n \in Nat, NEW f, NEW g, GoAlike(f, g, n)
  PROVE  AreAlike(f, g, n)
<1> DEFINE T == {k \in Nat : k <= n => f[k] = g[k]}
<1>1. 0 \in T
  BY DEF GoAlike
<1>2. ASSUME NEW k \in Nat, k \in T PROVE k + 1 \in T
  <2>1. CASE k + 1 <= n
    <3>1. k + 1 \in 1 .. n /\ (k + 1) - 1 = k /\ f[k] = g[k]
      BY <1>2, <2>1
    <3>2. f[k + 1] = g[k + 1]
      BY <3>1 DEF GoAlike
    <3>3. QED
      BY <3>2
  <2>2. CASE ~(k + 1 <= n)
    BY <2>2
  <2>3. QED
    BY <2>1, <2>2
<1>3. Nat \subseteq T
  <2> HIDE DEF T
  <2>1. QED
    BY <1>1, <1>2, Induction
<1>4. QED
  BY <1>3 DEF AreAlike

(* A function over 0 .. n is defined by its first value and by what leads  *)
(* from each value to the next.                                            *)
Steps(G, n, A) == \A a \in A, k \in 1 .. n : G[<<a, k>>] \in A

Follows(f, n, A, base, G) ==
  /\ f \in [0 .. n -> A] /\ f[0] = base
  /\ \A k \in 1 .. n : f[k] = G[<<f[k - 1], k>>]

(* There is a function that does what a recursion says, so that the CHOOSE *)
(* behind a recursive definition finds one.                                *)
LEMMA Recursion ==
  ASSUME NEW n \in Nat, NEW A, NEW base \in A, NEW G, Steps(G, n, A)
  PROVE  \E f : Follows(f, n, A, base, G)
<1> DEFINE T == {m \in Nat : m <= n => \E f : Follows(f, m, A, base, G)}
<1>1. 0 \in T
  <2>1. Follows([k \in 0 .. 0 |-> base], 0, A, base, G)
    BY DEF Follows
  <2>2. QED
    BY <2>1
<1>2. ASSUME NEW m \in Nat, m \in T PROVE m + 1 \in T
  <2> SUFFICES ASSUME m + 1 <= n PROVE \E f : Follows(f, m + 1, A, base, G)
    OBVIOUS
  <2>1. PICK f : Follows(f, m, A, base, G)
    BY <1>2
  <2> DEFINE next == G[<<f[m], m + 1>>]
             g == [k \in 0 .. m + 1 |-> IF k = m + 1 THEN next ELSE f[k]]
  <2>2. f \in [0 .. m -> A] /\ f[m] \in A /\ m + 1 \in 1 .. n
    BY <2>1 DEF Follows
  <2>3. next \in A
    BY <2>2 DEF Steps
  <2> HIDE DEF next
  <2>4. g \in [0 .. m + 1 -> A] /\ g[0] = base
    BY <2>1, <2>3 DEF Follows
  <2>5. ASSUME NEW k \in 1 .. m + 1 PROVE g[k] = G[<<g[k - 1], k>>]
    <3>1. CASE k = m + 1
      <4>1. m \in 0 .. m + 1 /\ m # m + 1 /\ k \in 0 .. m + 1 /\ k - 1 = m
        BY <3>1
      <4>2. g[k] = next /\ g[m] = f[m]
        BY <3>1, <4>1
      <4> HIDE DEF g
      <4>3. QED
        BY <3>1, <4>1, <4>2 DEF next
    <3>2. CASE k # m + 1
      <4>1. k \in 1 .. m /\ k - 1 \in 0 .. m
        BY <3>2
      <4>2. g[k] = f[k] /\ g[k - 1] = f[k - 1]
        BY <4>1
      <4> HIDE DEF g
      <4>3. QED
        BY <2>1, <4>1, <4>2 DEF Follows
    <3>3. QED
      BY <3>1, <3>2
  <2>6. Follows(g, m + 1, A, base, G)
    <3> HIDE DEF g
    <3>1. QED
      BY <2>4, <2>5 DEF Follows
  <2>7. QED
    BY <2>6
<1>3. Nat \subseteq T
  <2> HIDE DEF T
  <2>1. QED
    BY <1>1, <1>2, Induction
<1>4. n \in T
  <2> HIDE DEF T
  <2>1. QED
    BY <1>3
<1>5. QED
  BY <1>4

-----------------------------------------------------------------------------
(* Sequences.                                                              *)

LEMMA ConcatAppend ==
  ASSUME NEW S, NEW s \in Seq(S), NEW t \in Seq(S), NEW e \in S
  PROVE  s \o Append(t, e) = Append(s \o t, e)
<1>1. Append(t, e) = t \o <<e>> /\ s \o t \in Seq(S) /\ <<e>> \in Seq(S)
  BY AppendIsConcat, ConcatProperties
<1>2. Append(s \o t, e) = (s \o t) \o <<e>>
  BY <1>1, AppendIsConcat
<1>3. QED
  BY <1>1, <1>2, ConcatAssociative

(* A set that has the empty sequence, and each sequence with one element   *)
(* more than one it has, has all.                                          *)
LEMMA SequenceInduction ==
  ASSUME NEW S, NEW T, <<>> \in T,
         \A s \in Seq(S), e \in S : s \in T => Append(s, e) \in T
  PROVE  Seq(S) \subseteq T
<1> DEFINE N == {n \in Nat : \A s \in Seq(S) : Len(s) = n => s \in T}
<1>1. 0 \in N
  <2>1. ASSUME NEW s \in Seq(S), Len(s) = 0 PROVE s = <<>>
    BY <2>1, EmptySeq
  <2>2. QED
    BY <2>1
<1>2. ASSUME NEW n \in Nat, n \in N PROVE n + 1 \in N
  <2> SUFFICES ASSUME NEW s \in Seq(S), Len(s) = n + 1 PROVE s \in T
    OBVIOUS
  <2>1. s # <<>>
    BY EmptySeq
  <2>2. PICK t \in Seq(S), e \in S : s = Append(t, e)
    BY <2>1, SequenceEmptyOrAppend
  <2>3. Len(t) = n
    BY <2>2, AppendProperties, LenProperties
  <2>4. QED
    BY <1>2, <2>2, <2>3
<1>3. Nat \subseteq N
  <2> HIDE DEF N
  <2>1. QED
    BY <1>1, <1>2, Induction
<1>4. QED
  BY <1>3, LenProperties

(* What FlattenSeq computes.                                               *)
Flattens(f, ss, S) ==
  /\ f \in [0 .. Len(ss) -> Seq(S)] /\ f[0] = <<>>
  /\ \A k \in 1 .. Len(ss) : f[k] = f[k - 1] \o ss[k]

(* FlattenSeq puts the sequences behind one another, one at a time.        *)
LEMMA FlattenDef ==
  ASSUME NEW S, NEW ss \in Seq(Seq(S))
  PROVE  \E f : Flattens(f, ss, S) /\ FlattenSeq(ss) = f[Len(ss)]
<1> DEFINE n == Len(ss)
           G == [p \in Seq(S) \X (1 .. n) |-> p[1] \o ss[p[2]]]
           Flat(h) == h = [i \in 1 .. n |-> IF i = 1 THEN ss[i] ELSE h[i - 1] \o ss[i]]
<1>1. n \in Nat
  BY LenProperties
<1>2. \A k \in 1 .. n : ss[k] \in Seq(S)
  BY ElementOfSeq
<1> HIDE DEF n
<1>3. \A a \in Seq(S), k \in 1 .. n : G[<<a, k>>] = a \o ss[k]
  OBVIOUS
<1>4. Steps(G, n, Seq(S))
  <2> HIDE DEF G
  <2>1. QED
    BY <1>2, <1>3, ConcatProperties DEF Steps
<1>5. <<>> \in Seq(S)
  BY EmptySeq
<1>6. PICK f : Follows(f, n, Seq(S), <<>>, G)
  <2> HIDE DEF G
  <2>1. QED
    BY <1>1, <1>4, <1>5, Recursion
<1> HIDE DEF G
<1>7. f \in [0 .. n -> Seq(S)] /\ f[0] = <<>>
  BY <1>6 DEF Follows
<1>8. ASSUME NEW k \in 1 .. n PROVE f[k] = f[k - 1] \o ss[k]
  <2>1. f[k - 1] \in Seq(S)
    BY <1>1, <1>7
  <2>2. f[k] = G[<<f[k - 1], k>>]
    BY <1>6 DEF Follows
  <2>3. QED
    BY <1>3, <2>1, <2>2
<1>9. ASSUME n # 0 PROVE f[1] = ss[1]
  <2>1. 1 \in 1 .. n /\ 1 - 1 = 0
    BY <1>1, <1>9
  <2>2. f[1] = <<>> \o ss[1]
    BY <1>7, <1>8, <2>1
  <2>3. QED
    BY <1>2, <2>1, <2>2, ConcatEmptySeq
<1>10. FlattenSeq(ss) = f[n]
  <2>1. CASE n = 0
    <3>1. ss = <<>>
      BY <2>1, EmptySeq DEF n
    <3>2. QED
      BY <1>7, <2>1, <3>1 DEF FlattenSeq, n
  <2>2. CASE n # 0
    <3> DEFINE h == [i \in 1 .. n |-> f[i]]
               r == CHOOSE g : Flat(g)
    <3>1. ASSUME NEW i \in 1 .. n
          PROVE  h[i] = IF i = 1 THEN ss[i] ELSE h[i - 1] \o ss[i]
      <4>1. CASE i = 1
        BY <1>9, <2>2, <4>1
      <4>2. CASE i # 1
        <5>1. i - 1 \in 1 .. n
          BY <1>1, <4>2
        <5>2. h[i] = f[i] /\ h[i - 1] = f[i - 1]
          BY <5>1
        <5> HIDE DEF h
        <5>3. QED
          BY <1>8, <4>2, <5>2
      <4>3. QED
        BY <4>1, <4>2
    <3>2. Flat(h)
      <4>1. h = [i \in 1 .. n |-> h[i]]
        OBVIOUS
      <4> HIDE DEF h
      <4>2. QED
        BY <3>1, <4>1
    <3> HIDE DEF h
    <3>3. Flat(r)
      BY <3>2
    <3>4. FlattenSeq(ss) = r[n]
      BY <2>2 DEF FlattenSeq, n
    <3> HIDE DEF r
    <3> DEFINE q == [k \in 0 .. n |-> IF k = 0 THEN <<>> ELSE r[k]]
    <3>5. /\ q[0] = <<>>
          /\ \A k \in 1 .. n : q[k] = r[k]
      BY <1>1
    <3>6. ASSUME NEW k \in 1 .. n, f[k - 1] = q[k - 1] PROVE f[k] = q[k]
      <4>1. r[k] = IF k = 1 THEN ss[k] ELSE r[k - 1] \o ss[k]
        BY <3>3
      <4> HIDE DEF q
      <4>2. CASE k = 1
        BY <1>9, <2>2, <3>5, <4>1, <4>2
      <4>3. CASE k # 1
        <5>1. k - 1 \in 1 .. n
          BY <1>1, <4>3
        <5>2. f[k] = f[k - 1] \o ss[k]
          BY <1>8
        <5>3. q[k] = r[k] /\ q[k - 1] = r[k - 1]
          BY <3>5, <5>1
        <5>4. QED
          BY <3>6, <4>1, <4>3, <5>2, <5>3
      <4>4. QED
        BY <4>2, <4>3
    <3> HIDE DEF q
    <3>7. GoAlike(f, q, n)
      BY <1>7, <3>5, <3>6 DEF GoAlike
    <3>8. AreAlike(f, q, n)
      BY <1>1, <3>7, Agree
    <3>9. n \in 1 .. n /\ n \in 0 .. n
      BY <1>1, <2>2
    <3>10. QED
      BY <3>4, <3>5, <3>8, <3>9 DEF AreAlike
  <2>3. QED
    BY <2>1, <2>2
<1>11. Flattens(f, ss, S)
  BY <1>7, <1>8 DEF Flattens, n
<1>12. QED
  BY <1>10, <1>11 DEF n

LEMMA FlattenType ==
  ASSUME NEW S, NEW ss \in Seq(Seq(S))
  PROVE  FlattenSeq(ss) \in Seq(S)
<1>1. PICK f : Flattens(f, ss, S) /\ FlattenSeq(ss) = f[Len(ss)]
  BY FlattenDef
<1>2. Len(ss) \in 0 .. Len(ss)
  BY LenProperties
<1>3. QED
  BY <1>1, <1>2 DEF Flattens

LEMMA FlattenEmpty == FlattenSeq(<<>>) = <<>>
BY DEF FlattenSeq

LEMMA FlattenAppend ==
  ASSUME NEW S, NEW ss \in Seq(Seq(S)), NEW s \in Seq(S)
  PROVE  FlattenSeq(Append(ss, s)) = FlattenSeq(ss) \o s
<1>1. PICK f : Flattens(f, ss, S) /\ FlattenSeq(ss) = f[Len(ss)]
  BY FlattenDef
<1> DEFINE tt == Append(ss, s)
           n == Len(ss)
<1>2. /\ tt \in Seq(Seq(S)) /\ n \in Nat /\ Len(tt) = n + 1
      /\ \A k \in 1 .. n : tt[k] = ss[k]
      /\ tt[n + 1] = s
  BY AppendProperties, LenProperties
<1> HIDE DEF tt
<1>3. PICK g : Flattens(g, tt, S) /\ FlattenSeq(tt) = g[Len(tt)]
  BY <1>2, FlattenDef
<1>4. /\ f[0] = <<>> /\ g[0] = <<>>
      /\ \A k \in 1 .. n : f[k] = f[k - 1] \o ss[k]
      /\ \A k \in 1 .. n + 1 : g[k] = g[k - 1] \o tt[k]
  BY <1>1, <1>2, <1>3 DEF Flattens
<1> HIDE DEF n
<1>5. GoAlike(f, g, n)
  <2>1. \A k \in 1 .. n : k \in 1 .. n + 1
    BY <1>2
  <2>2. ASSUME NEW k \in 1 .. n, f[k - 1] = g[k - 1] PROVE f[k] = g[k]
    BY <1>2, <1>4, <2>1, <2>2
  <2>3. QED
    BY <1>4, <2>2 DEF GoAlike
<1>6. f[n] = g[n]
  BY <1>2, <1>5, Agree DEF AreAlike
<1>7. n + 1 \in 1 .. n + 1 /\ (n + 1) - 1 = n
  BY <1>2
<1>8. g[n + 1] = g[n] \o s
  BY <1>2, <1>4, <1>7
<1>9. QED
  BY <1>1, <1>2, <1>3, <1>6, <1>8 DEF tt, n

(* Flattening goes over concatenation.                                     *)
LEMMA FlattenConcat ==
  ASSUME NEW S, NEW ss \in Seq(Seq(S)), NEW tt \in Seq(Seq(S))
  PROVE  FlattenSeq(ss \o tt) = FlattenSeq(ss) \o FlattenSeq(tt)
<1> DEFINE T == {t \in Seq(Seq(S)) : FlattenSeq(ss \o t) = FlattenSeq(ss) \o FlattenSeq(t)}
<1>1. <<>> \in T
  <2>1. ss \o <<>> = ss /\ FlattenSeq(ss) \o <<>> = FlattenSeq(ss) /\ <<>> \in Seq(Seq(S))
    BY ConcatEmptySeq, FlattenType, EmptySeq
  <2>2. QED
    BY <2>1, FlattenEmpty
<1>2. ASSUME NEW t \in Seq(Seq(S)), NEW e \in Seq(S), t \in T
      PROVE  Append(t, e) \in T
  <2>1. /\ ss \o Append(t, e) = Append(ss \o t, e)
        /\ ss \o t \in Seq(Seq(S)) /\ Append(t, e) \in Seq(Seq(S))
    BY ConcatAppend, ConcatProperties, AppendProperties
  <2>2. FlattenSeq(ss \o Append(t, e)) = FlattenSeq(ss \o t) \o e
    BY <2>1, FlattenAppend
  <2>3. FlattenSeq(ss \o t) = FlattenSeq(ss) \o FlattenSeq(t)
    BY <1>2
  <2>4. FlattenSeq(Append(t, e)) = FlattenSeq(t) \o e
    BY FlattenAppend
  <2>5. (FlattenSeq(ss) \o FlattenSeq(t)) \o e = FlattenSeq(ss) \o (FlattenSeq(t) \o e)
    BY FlattenType, ConcatAssociative
  <2>6. QED
    BY <2>1, <2>2, <2>3, <2>4, <2>5
<1>3. Seq(Seq(S)) \subseteq T
  <2> HIDE DEF T
  <2>1. QED
    BY <1>1, <1>2, SequenceInduction
<1>4. QED
  BY <1>3

LEMMA FlattenOne ==
  ASSUME NEW S, NEW s \in Seq(S)
  PROVE  FlattenSeq(<<s>>) = s
<1>1. <<>> \in Seq(Seq(S)) /\ <<s>> = Append(<<>>, s)
  BY EmptySeq
<1>2. FlattenSeq(Append(<<>>, s)) = FlattenSeq(<<>>) \o s
  BY <1>1, FlattenAppend
<1>3. QED
  BY <1>1, <1>2, FlattenEmpty, ConcatEmptySeq


-----------------------------------------------------------------------------
(* Lengths.                                                                *)

Piece == {s \in [block : Nat, from : Nat, to : Nat] : s.from < s.to}

(* A span behind so much text.                                             *)
Longer(B, x, s) ==
  IF s.block \notin B THEN x
  ELSE x + (IF x = 0 THEN 0 ELSE SepLen) + (s.to - s.from)

(* Two texts with a blank line between them.                               *)
Joint(x, y) == IF x = 0 THEN y ELSE IF y = 0 THEN x ELSE x + SepLen + y

Measures(f, body, B) ==
  /\ f \in [0 .. Len(body) -> Nat] /\ f[0] = 0
  /\ \A k \in 1 .. Len(body) : f[k] = Longer(B, f[k - 1], body[k])

LEMMA PieceType ==
  ASSUME NEW s \in Piece
  PROVE  /\ s.block \in Nat /\ s.from \in Nat /\ s.to \in Nat
         /\ s.from < s.to /\ s.to - s.from \in Nat \ {0}
BY DEF Piece

LEMMA LongerType ==
  ASSUME NEW B, NEW x \in Nat, NEW s \in Piece
  PROVE  /\ Longer(B, x, s) \in Nat
         /\ x <= Longer(B, x, s)
         /\ s.block \in B => Longer(B, x, s) > 0
         /\ Longer(B, x, s) = Joint(x, IF s.block \in B THEN s.to - s.from ELSE 0)
BY PieceType, ChunkerAssumption DEF Longer, Joint

(* The recursion of LengthIn, with a name for its steps.                   *)
LEMMA LengthDef ==
  ASSUME NEW B, NEW body \in Seq(Piece)
  PROVE  \E f : Measures(f, body, B) /\ LengthIn(body, B) = f[Len(body)]
<1> DEFINE n == Len(body)
           G == [p \in Nat \X (1 .. n) |-> Longer(B, p[1], body[p[2]])]
           Eq(u) == u = [k \in 0 .. n |->
                           IF k = 0 THEN 0
                           ELSE IF body[k].block \notin B THEN u[k - 1]
                           ELSE u[k - 1] + (IF u[k - 1] = 0 THEN 0 ELSE SepLen)
                                  + (body[k].to - body[k].from)]
           r == CHOOSE u : Eq(u)
<1>1. n \in Nat
  BY LenProperties
<1>2. \A k \in 1 .. n : body[k] \in Piece
  BY ElementOfSeq
<1>3. LengthIn(body, B) = r[n]
  BY DEF LengthIn
<1> HIDE DEF n
<1>4. \A a \in Nat, k \in 1 .. n : G[<<a, k>>] = Longer(B, a, body[k])
  OBVIOUS
<1> HIDE DEF G
<1>5. Steps(G, n, Nat)
  <2>1. \A a \in Nat, k \in 1 .. n : Longer(B, a, body[k]) \in Nat
    BY <1>2, LongerType
  <2>2. QED
    BY <1>4, <2>1 DEF Steps
<1>6. PICK f : Follows(f, n, Nat, 0, G)
  BY <1>1, <1>5, Recursion
<1>7. f \in [0 .. n -> Nat] /\ f[0] = 0
  BY <1>6 DEF Follows
<1>8. ASSUME NEW k \in 1 .. n PROVE f[k] = Longer(B, f[k - 1], body[k])
  <2>1. f[k - 1] \in Nat
    BY <1>1, <1>7
  <2>2. f[k] = G[<<f[k - 1], k>>]
    BY <1>6 DEF Follows
  <2>3. QED
    BY <1>4, <2>1, <2>2
<1>9. Eq(f)
  <2>1. f = [k \in 0 .. n |-> f[k]]
    BY <1>7
  <2>2. ASSUME NEW k \in 0 .. n
        PROVE  f[k] = IF k = 0 THEN 0 ELSE Longer(B, f[k - 1], body[k])
    BY <1>1, <1>7, <1>8
  <2>3. QED
    BY <2>1, <2>2 DEF Longer
<1>10. Eq(r)
  <2> HIDE DEF Eq
  <2>1. QED
    BY <1>9
<1> HIDE DEF r
<1>11. r[0] = 0 /\ \A k \in 1 .. n : r[k] = Longer(B, r[k - 1], body[k])
  <2>1. 0 \in 0 .. n /\ \A k \in 1 .. n : k \in 0 .. n /\ k # 0
    BY <1>1
  <2>2. QED
    BY <1>10, <2>1 DEF Longer
<1>12. GoAlike(f, r, n)
  <2> HIDE DEF Eq
  <2>1. ASSUME NEW k \in 1 .. n, f[k - 1] = r[k - 1] PROVE f[k] = r[k]
    BY <1>8, <1>11, <2>1
  <2>2. QED
    BY <1>7, <1>11, <2>1 DEF GoAlike
<1>13. f[n] = r[n]
  BY <1>1, <1>12, Agree DEF AreAlike
<1>14. Measures(f, body, B)
  BY <1>7, <1>8 DEF Measures, n
<1>15. QED
  BY <1>3, <1>13, <1>14 DEF n

LEMMA LengthType ==
  ASSUME NEW B, NEW body \in Seq(Piece)
  PROVE  LengthIn(body, B) \in Nat
<1>1. PICK f : Measures(f, body, B) /\ LengthIn(body, B) = f[Len(body)]
  BY LengthDef
<1>2. Len(body) \in 0 .. Len(body)
  BY LenProperties
<1>3. QED
  BY <1>1, <1>2 DEF Measures

LEMMA LengthEmpty == ASSUME NEW B PROVE LengthIn(<<>>, B) = 0
<1>1. <<>> \in Seq(Piece) /\ Len(<<>>) = 0
  BY EmptySeq
<1>2. PICK f : Measures(f, <<>>, B) /\ LengthIn(<<>>, B) = f[Len(<<>>)]
  BY <1>1, LengthDef
<1>3. QED
  BY <1>1, <1>2 DEF Measures

LEMMA LengthAppend ==
  ASSUME NEW B, NEW body \in Seq(Piece), NEW s \in Piece
  PROVE  LengthIn(Append(body, s), B) = Longer(B, LengthIn(body, B), s)
<1>1. PICK f : Measures(f, body, B) /\ LengthIn(body, B) = f[Len(body)]
  BY LengthDef
<1> DEFINE tt == Append(body, s)
           n == Len(body)
<1>2. /\ tt \in Seq(Piece) /\ n \in Nat /\ Len(tt) = n + 1
      /\ \A k \in 1 .. n : tt[k] = body[k]
      /\ tt[n + 1] = s
  BY AppendProperties, LenProperties
<1> HIDE DEF tt
<1>3. PICK g : Measures(g, tt, B) /\ LengthIn(tt, B) = g[Len(tt)]
  BY <1>2, LengthDef
<1>4. /\ f[0] = 0 /\ g[0] = 0
      /\ \A k \in 1 .. n : f[k] = Longer(B, f[k - 1], body[k])
      /\ \A k \in 1 .. n + 1 : g[k] = Longer(B, g[k - 1], tt[k])
  BY <1>1, <1>2, <1>3 DEF Measures
<1> HIDE DEF n
<1>5. GoAlike(f, g, n)
  <2>1. \A k \in 1 .. n : k \in 1 .. n + 1
    BY <1>2
  <2>2. ASSUME NEW k \in 1 .. n, f[k - 1] = g[k - 1] PROVE f[k] = g[k]
    BY <1>2, <1>4, <2>1, <2>2
  <2>3. QED
    BY <1>4, <2>2 DEF GoAlike
<1>6. f[n] = g[n]
  BY <1>2, <1>5, Agree DEF AreAlike
<1>7. n + 1 \in 1 .. n + 1 /\ (n + 1) - 1 = n
  BY <1>2
<1>8. g[n + 1] = Longer(B, g[n], s)
  BY <1>2, <1>4, <1>7
<1>9. QED
  BY <1>1, <1>2, <1>3, <1>6, <1>8 DEF tt, n

(* The length of two bodies together is that of both with a blank line     *)
(* between them, if both have text of B.                                   *)
LEMMA LengthConcat ==
  ASSUME NEW B, NEW body \in Seq(Piece), NEW other \in Seq(Piece)
  PROVE  LengthIn(body \o other, B) = Joint(LengthIn(body, B), LengthIn(other, B))
<1> DEFINE T == {t \in Seq(Piece) :
                   LengthIn(body \o t, B) = Joint(LengthIn(body, B), LengthIn(t, B))}
<1>1. <<>> \in T
  <2>1. body \o <<>> = body /\ <<>> \in Seq(Piece) /\ LengthIn(body, B) \in Nat
    BY ConcatEmptySeq, EmptySeq, LengthType
  <2>2. QED
    BY <2>1, LengthEmpty DEF Joint
<1>2. ASSUME NEW t \in Seq(Piece), NEW e \in Piece, t \in T PROVE Append(t, e) \in T
  <2> DEFINE x == LengthIn(body, B)
             y == LengthIn(t, B)
             z == IF e.block \in B THEN e.to - e.from ELSE 0
  <2>1. /\ body \o Append(t, e) = Append(body \o t, e)
        /\ body \o t \in Seq(Piece) /\ Append(t, e) \in Seq(Piece)
    BY ConcatAppend, ConcatProperties, AppendProperties
  <2>2. x \in Nat /\ y \in Nat /\ LengthIn(body \o t, B) = Joint(x, y)
    BY <1>2, LengthType
  <2>3. z \in Nat
    BY PieceType
  <2>4. LengthIn(body \o Append(t, e), B) = Longer(B, Joint(x, y), e)
    BY <2>1, <2>2, LengthAppend
  <2>5. LengthIn(Append(t, e), B) = Longer(B, y, e)
    BY LengthAppend
  <2> HIDE DEF x, y
  <2>6. Joint(x, y) \in Nat
    BY <2>2, ChunkerAssumption DEF Joint
  <2>7. Longer(B, Joint(x, y), e) = Joint(Joint(x, y), z) /\ Longer(B, y, e) = Joint(y, z)
    BY <2>2, <2>6, LongerType
  <2> HIDE DEF z
  <2>8. Joint(Joint(x, y), z) = Joint(x, Joint(y, z))
    BY <2>2, <2>3, ChunkerAssumption DEF Joint
  <2>9. QED
    BY <2>1, <2>4, <2>5, <2>7, <2>8 DEF x
<1>3. Seq(Piece) \subseteq T
  <2> HIDE DEF T
  <2>1. QED
    BY <1>1, <1>2, SequenceInduction
<1>4. QED
  BY <1>3

(* What is of some blocks is no longer than the whole, and a body that has *)
(* a span of them has a length.                                            *)
LEMMA LengthWithin ==
  ASSUME NEW B, NEW C, B \subseteq C, NEW body \in Seq(Piece)
  PROVE  LengthIn(body, B) <= LengthIn(body, C)
<1> DEFINE T == {t \in Seq(Piece) : LengthIn(t, B) <= LengthIn(t, C)}
<1>1. <<>> \in T
  BY EmptySeq, LengthEmpty
<1>2. ASSUME NEW t \in Seq(Piece), NEW e \in Piece, t \in T PROVE Append(t, e) \in T
  <2>1. /\ LengthIn(Append(t, e), B) = Longer(B, LengthIn(t, B), e)
        /\ LengthIn(Append(t, e), C) = Longer(C, LengthIn(t, C), e)
    BY LengthAppend
  <2>2. LengthIn(t, B) \in Nat /\ LengthIn(t, C) \in Nat /\ LengthIn(t, B) <= LengthIn(t, C)
    BY <1>2, LengthType
  <2>3. \A x \in Nat, y \in Nat : x <= y => Longer(B, x, e) <= Longer(C, y, e)
    BY PieceType, ChunkerAssumption DEF Longer
  <2>4. Append(t, e) \in Seq(Piece)
    BY AppendProperties
  <2>5. QED
    BY <2>1, <2>2, <2>3, <2>4
<1>3. Seq(Piece) \subseteq T
  <2> HIDE DEF T
  <2>1. QED
    BY <1>1, <1>2, SequenceInduction
<1>4. QED
  BY <1>3

LEMMA LengthPositive ==
  ASSUME NEW body \in Seq(Piece), body # <<>>
  PROVE  Length(body) \in Nat /\ Length(body) > 0
<1>1. PICK t \in Seq(Piece), e \in Piece : body = Append(t, e)
  BY SequenceEmptyOrAppend
<1>2. Length(body) = Longer(Nat, LengthIn(t, Nat), e)
  BY <1>1, LengthAppend DEF Length
<1>3. LengthIn(t, Nat) \in Nat /\ e.block \in Nat
  BY LengthType, PieceType
<1>4. QED
  BY <1>2, <1>3, LongerType

(* What a body has no block of adds no length.                             *)
LEMMA LengthAbsent ==
  ASSUME NEW B, NEW body \in Seq(Piece), \A j \in 1 .. Len(body) : body[j].block \notin B
  PROVE  LengthIn(body, B) = 0
<1>1. PICK f : Measures(f, body, B) /\ LengthIn(body, B) = f[Len(body)]
  BY LengthDef
<1> DEFINE n == Len(body)
           g == [k \in 0 .. n |-> 0]
<1>2. n \in Nat
  BY LenProperties
<1>3. \A k \in 1 .. n : g[k] = 0 /\ g[k - 1] = 0
  BY <1>2
<1>4. g[0] = 0 /\ g[n] = 0
  BY <1>2
<1> HIDE DEF g
<1>5. \A k \in 1 .. n : f[k] = f[k - 1]
  BY <1>1 DEF Measures, Longer
<1>6. GoAlike(f, g, n)
  BY <1>1, <1>3, <1>4, <1>5 DEF GoAlike, Measures
<1>7. f[n] = g[n]
  BY <1>2, <1>6, Agree DEF AreAlike
<1>8. QED
  BY <1>1, <1>4, <1>7

LEMMA LengthOne ==
  ASSUME NEW s \in Piece
  PROVE  Length(<<s>>) = s.to - s.from
<1>1. <<s>> = Append(<<>>, s) /\ <<>> \in Seq(Piece)
  BY EmptySeq
<1>2. Length(<<s>>) = Longer(Nat, 0, s)
  BY <1>1, LengthAppend, LengthEmpty DEF Length
<1>3. QED
  BY <1>2, PieceType DEF Longer

-----------------------------------------------------------------------------
(* What a sequence of sections, or of chunks, holds.                       *)

Held(ss) == FlattenSeq([k \in DOMAIN ss |-> ss[k].body])

WithBodies(R) == \A r \in R : r.body \in Seq(Piece)

LEMMA BodiesType ==
  ASSUME NEW R, WithBodies(R), NEW ss \in Seq(R)
  PROVE  /\ [k \in DOMAIN ss |-> ss[k].body] \in Seq(Seq(Piece))
         /\ Len([k \in DOMAIN ss |-> ss[k].body]) = Len(ss)
<1> DEFINE g == [k \in DOMAIN ss |-> ss[k].body]
<1>1. DOMAIN ss = 1 .. Len(ss) /\ Len(ss) \in Nat
  BY LenProperties
<1>2. \A k \in 1 .. Len(ss) : ss[k].body \in Seq(Piece)
  BY ElementOfSeq DEF WithBodies
<1>3. g \in [1 .. Len(ss) -> Seq(Piece)]
  BY <1>1, <1>2
<1>4. g \in Seq(Seq(Piece))
  BY <1>1, <1>3, IsASeq
<1>5. DOMAIN g = 1 .. Len(ss)
  BY <1>1
<1> HIDE DEF g
<1>6. Len(g) = Len(ss)
  <2>1. Len(g) \in Nat /\ 1 .. Len(g) = 1 .. Len(ss)
    BY <1>4, <1>5, LenProperties
  <2>2. QED
    BY <1>1, <2>1
<1>7. QED
  BY <1>4, <1>6 DEF g

LEMMA HeldType ==
  ASSUME NEW R, WithBodies(R), NEW ss \in Seq(R)
  PROVE  Held(ss) \in Seq(Piece)
BY BodiesType, FlattenType DEF Held

LEMMA HeldEmpty == Held(<<>>) = <<>>
<1>1. [k \in DOMAIN <<>> |-> (<<>>)[k].body] = <<>>
  OBVIOUS
<1>2. QED
  BY <1>1, FlattenEmpty DEF Held

(* What two sequences of sections hold is what the one and then the other  *)
(* holds.                                                                  *)
LEMMA HeldConcat ==
  ASSUME NEW R, WithBodies(R), NEW ss \in Seq(R), NEW tt \in Seq(R)
  PROVE  Held(ss \o tt) = Held(ss) \o Held(tt)
<1> DEFINE all == ss \o tt
           f == [k \in DOMAIN ss |-> ss[k].body]
           g == [k \in DOMAIN tt |-> tt[k].body]
           h == [k \in DOMAIN all |-> all[k].body]
<1>1. /\ all \in Seq(R) /\ Len(all) = Len(ss) + Len(tt)
      /\ \A i \in 1 .. Len(ss) + Len(tt) :
           all[i] = IF i <= Len(ss) THEN ss[i] ELSE tt[i - Len(ss)]
  BY ConcatProperties
<1>2. /\ f \in Seq(Seq(Piece)) /\ g \in Seq(Seq(Piece)) /\ h \in Seq(Seq(Piece))
      /\ Len(f) = Len(ss) /\ Len(g) = Len(tt) /\ Len(h) = Len(all)
  BY <1>1, BodiesType
<1>3. /\ DOMAIN ss = 1 .. Len(ss) /\ DOMAIN tt = 1 .. Len(tt) /\ DOMAIN all = 1 .. Len(all)
      /\ Len(ss) \in Nat /\ Len(tt) \in Nat
  BY <1>1, LenProperties
<1>4. /\ \A k \in 1 .. Len(ss) : f[k] = ss[k].body
      /\ \A k \in 1 .. Len(tt) : g[k] = tt[k].body
      /\ \A k \in 1 .. Len(all) : h[k] = all[k].body
  BY <1>3
<1> HIDE DEF f, g, h, all
<1>5. /\ f \o g \in Seq(Seq(Piece)) /\ Len(f \o g) = Len(ss) + Len(tt)
      /\ \A i \in 1 .. Len(ss) + Len(tt) :
           (f \o g)[i] = IF i <= Len(ss) THEN f[i] ELSE g[i - Len(ss)]
  <2>1. /\ f \o g \in Seq(Seq(Piece)) /\ Len(f \o g) = Len(f) + Len(g)
        /\ \A i \in 1 .. Len(f) + Len(g) :
             (f \o g)[i] = IF i <= Len(f) THEN f[i] ELSE g[i - Len(f)]
    BY <1>2, ConcatProperties
  <2>2. QED
    BY <1>2, <2>1
<1>6. ASSUME NEW i \in 1 .. Len(h) PROVE h[i] = (f \o g)[i]
  <2>1. CASE i <= Len(ss)
    <3>1. i \in 1 .. Len(ss) /\ i \in 1 .. Len(ss) + Len(tt) /\ i \in 1 .. Len(all)
      BY <1>1, <1>2, <1>3, <2>1
    <3>2. QED
      BY <1>1, <1>4, <1>5, <2>1, <3>1
  <2>2. CASE ~(i <= Len(ss))
    <3>1. i - Len(ss) \in 1 .. Len(tt) /\ i \in 1 .. Len(ss) + Len(tt) /\ i \in 1 .. Len(all)
      BY <1>1, <1>2, <1>3, <2>2
    <3>2. QED
      BY <1>1, <1>4, <1>5, <2>2, <3>1
  <2>3. QED
    BY <2>1, <2>2
<1>7. h = f \o g
  BY <1>1, <1>2, <1>5, <1>6, SeqEqual
<1>8. FlattenSeq(f \o g) = FlattenSeq(f) \o FlattenSeq(g)
  BY <1>2, FlattenConcat
<1>9. QED
  BY <1>7, <1>8 DEF Held, f, g, h, all

LEMMA HeldOne ==
  ASSUME NEW s, s.body \in Seq(Piece)
  PROVE  Held(<<s>>) = s.body
<1>1. [k \in DOMAIN <<s>> |-> (<<s>>)[k].body] = <<s.body>>
  OBVIOUS
<1>2. QED
  BY <1>1, FlattenOne DEF Held

LEMMA HeldAppend ==
  ASSUME NEW R, WithBodies(R), NEW ss \in Seq(R), NEW s \in R
  PROVE  Held(Append(ss, s)) = Held(ss) \o s.body
<1>1. Append(ss, s) = ss \o <<s>> /\ <<s>> \in Seq(R) /\ s.body \in Seq(Piece)
  BY AppendIsConcat DEF WithBodies
<1>2. QED
  BY <1>1, HeldConcat, HeldOne

-----------------------------------------------------------------------------
(* Spans that follow the text.                                             *)

NextTo(p, q) ==
  /\ p.to = text[p.block].len /\ q.from = 0
  /\ p.block < q.block
  /\ ~\E b \in Bodies : p.block < b /\ b < q.block

Overlaps(p, q) ==
  /\ q.block = p.block
  /\ p.from < q.from /\ q.from <= p.to
  /\ p.to <= q.to

Chained(u) == \A j \in 1 .. Len(u) - 1 : NextTo(u[j], u[j + 1])

Linked(v) == \A j \in 1 .. Len(v) - 1 : Overlaps(v[j], v[j + 1]) \/ NextTo(v[j], v[j + 1])

BlocksOf(v) == {v[j].block : j \in 1 .. Len(v)}

SameEnds(v, u) ==
  /\ v[1].block = u[1].block /\ v[1].from = u[1].from
  /\ v[Len(v)].block = u[Len(u)].block /\ v[Len(v)].to = u[Len(u)].to

(* The spans of v hold what those of u hold.                               *)
Covers(v, u) ==
  /\ v \in Seq(Piece) /\ u \in Seq(Piece)
  /\ v = <<>> <=> u = <<>>
  /\ v # <<>> => SameEnds(v, u)
  /\ BlocksOf(v) \subseteq BlocksOf(u)
  /\ Chained(u) => Linked(v)

(* The ends of a concatenation, and the places where its parts are.        *)
LEMMA ConcatEnds ==
  ASSUME NEW S, NEW v \in Seq(S), NEW w \in Seq(S), v # <<>>, w # <<>>
  PROVE  /\ Len(v) \in Nat \ {0} /\ Len(w) \in Nat \ {0}
         /\ v \o w \in Seq(S) /\ Len(v \o w) = Len(v) + Len(w) /\ v \o w # <<>>
         /\ (v \o w)[1] = v[1] /\ (v \o w)[Len(v \o w)] = w[Len(w)]
         /\ \A j \in 1 .. Len(v) : (v \o w)[j] = v[j]
         /\ \A j \in 1 .. Len(w) : (v \o w)[Len(v) + j] = w[j]
<1>1. Len(v) \in Nat /\ Len(w) \in Nat /\ Len(v) # 0 /\ Len(w) # 0
  BY LenProperties, EmptySeq
<1>2. /\ v \o w \in Seq(S) /\ Len(v \o w) = Len(v) + Len(w)
      /\ \A i \in 1 .. Len(v) + Len(w) :
           (v \o w)[i] = IF i <= Len(v) THEN v[i] ELSE w[i - Len(v)]
  BY ConcatProperties
<1>3. v \o w # <<>>
  BY <1>1, <1>2, EmptySeq
<1>4. \A j \in 1 .. Len(v) : (v \o w)[j] = v[j]
  BY <1>1, <1>2
<1>5. \A j \in 1 .. Len(w) : (v \o w)[Len(v) + j] = w[j]
  BY <1>1, <1>2
<1>6. 1 \in 1 .. Len(v) /\ Len(w) \in 1 .. Len(w)
  BY <1>1
<1>7. QED
  BY <1>1, <1>2, <1>3, <1>4, <1>5, <1>6

LEMMA ChainedParts ==
  ASSUME NEW v \in Seq(Piece), NEW w \in Seq(Piece), v # <<>>, w # <<>>, Chained(v \o w)
  PROVE  Chained(v) /\ Chained(w) /\ NextTo(v[Len(v)], w[1])
<1> DEFINE u == v \o w
<1>1. /\ Len(v) \in Nat \ {0} /\ Len(w) \in Nat \ {0} /\ Len(u) = Len(v) + Len(w)
      /\ \A j \in 1 .. Len(v) : u[j] = v[j]
      /\ \A j \in 1 .. Len(w) : u[Len(v) + j] = w[j]
  BY ConcatEnds
<1> HIDE DEF u
<1>2. \A j \in 1 .. Len(u) - 1 : NextTo(u[j], u[j + 1])
  BY DEF Chained, u
<1>3. ASSUME NEW j \in 1 .. Len(v) - 1 PROVE NextTo(v[j], v[j + 1])
  <2>1. j \in 1 .. Len(v) /\ j + 1 \in 1 .. Len(v) /\ j \in 1 .. Len(u) - 1
    BY <1>1
  <2>2. QED
    BY <1>1, <1>2, <2>1
<1>4. ASSUME NEW j \in 1 .. Len(w) - 1 PROVE NextTo(w[j], w[j + 1])
  <2>1. /\ j \in 1 .. Len(w) /\ j + 1 \in 1 .. Len(w) /\ Len(v) + j \in 1 .. Len(u) - 1
        /\ (Len(v) + j) + 1 = Len(v) + (j + 1)
    BY <1>1
  <2>2. NextTo(u[Len(v) + j], u[Len(v) + (j + 1)])
    BY <1>2, <2>1
  <2>3. QED
    BY <1>1, <2>1, <2>2
<1>5. NextTo(v[Len(v)], w[1])
  <2>1. Len(v) \in 1 .. Len(v) /\ 1 \in 1 .. Len(w) /\ Len(v) \in 1 .. Len(u) - 1
    BY <1>1
  <2>2. QED
    BY <1>1, <1>2, <2>1
<1>6. QED
  BY <1>3, <1>4, <1>5 DEF Chained

LEMMA JoinedSpans ==
  ASSUME NEW v \in Seq(Piece), NEW w \in Seq(Piece), v # <<>>, w # <<>>,
         NextTo(v[Len(v)], w[1])
  PROVE  /\ Linked(v) /\ Linked(w) => Linked(v \o w)
         /\ Chained(v) /\ Chained(w) => Chained(v \o w)
<1> DEFINE u == v \o w
<1>1. /\ Len(v) \in Nat \ {0} /\ Len(w) \in Nat \ {0} /\ Len(u) = Len(v) + Len(w)
      /\ \A j \in 1 .. Len(v) : u[j] = v[j]
      /\ \A j \in 1 .. Len(w) : u[Len(v) + j] = w[j]
  BY ConcatEnds
<1> HIDE DEF u
<1>2. ASSUME NEW j \in 1 .. Len(u) - 1
      PROVE  \/ j \in 1 .. Len(v) - 1 /\ u[j] = v[j] /\ u[j + 1] = v[j + 1]
             \/ NextTo(u[j], u[j + 1])
             \/ \E i \in 1 .. Len(w) - 1 : u[j] = w[i] /\ u[j + 1] = w[i + 1]
  <2>1. CASE j < Len(v)
    <3>1. j \in 1 .. Len(v) - 1 /\ j \in 1 .. Len(v) /\ j + 1 \in 1 .. Len(v)
      BY <1>1, <2>1
    <3>2. QED
      BY <1>1, <3>1
  <2>2. CASE j = Len(v)
    <3>1. 1 \in 1 .. Len(w) /\ j \in 1 .. Len(v)
      BY <1>1, <2>2
    <3>2. u[j] = v[Len(v)] /\ u[j + 1] = w[1]
      BY <1>1, <2>2, <3>1
    <3>3. QED
      BY <3>2
  <2>3. CASE j > Len(v)
    <3> DEFINE i == j - Len(v)
    <3>1. /\ i \in 1 .. Len(w) - 1 /\ i \in 1 .. Len(w) /\ i + 1 \in 1 .. Len(w)
          /\ Len(v) + i = j /\ Len(v) + (i + 1) = j + 1
      BY <1>1, <2>3
    <3> HIDE DEF i
    <3>2. u[j] = w[i] /\ u[j + 1] = w[i + 1]
      BY <1>1, <3>1
    <3>3. QED
      BY <3>1, <3>2
  <2>4. QED
    BY <1>1, <2>1, <2>2, <2>3
<1>3. Linked(v) /\ Linked(w) => Linked(u)
  BY <1>2 DEF Linked
<1>4. Chained(v) /\ Chained(w) => Chained(u)
  BY <1>2 DEF Chained
<1>5. QED
  BY <1>3, <1>4 DEF u

LEMMA BlocksConcat ==
  ASSUME NEW v \in Seq(Piece), NEW w \in Seq(Piece)
  PROVE  BlocksOf(v \o w) = BlocksOf(v) \cup BlocksOf(w)
<1>1. CASE v = <<>>
  <2>1. v \o w = w /\ BlocksOf(v) = {}
    BY <1>1, ConcatEmptySeq DEF BlocksOf
  <2>2. QED
    BY <2>1
<1>2. CASE w = <<>>
  <2>1. v \o w = v /\ BlocksOf(w) = {}
    BY <1>2, ConcatEmptySeq DEF BlocksOf
  <2>2. QED
    BY <2>1
<1>3. CASE v # <<>> /\ w # <<>>
  <2> DEFINE u == v \o w
  <2>1. /\ Len(v) \in Nat /\ Len(w) \in Nat /\ Len(u) = Len(v) + Len(w)
        /\ \A j \in 1 .. Len(v) : u[j] = v[j]
        /\ \A j \in 1 .. Len(w) : u[Len(v) + j] = w[j]
    BY <1>3, ConcatEnds
  <2> HIDE DEF u
  <2>2. ASSUME NEW j \in 1 .. Len(u) PROVE u[j].block \in BlocksOf(v) \cup BlocksOf(w)
    <3>1. CASE j <= Len(v)
      <4>1. j \in 1 .. Len(v)
        BY <2>1, <3>1
      <4>2. QED
        BY <2>1, <4>1 DEF BlocksOf
    <3>2. CASE j > Len(v)
      <4>1. j - Len(v) \in 1 .. Len(w) /\ Len(v) + (j - Len(v)) = j
        BY <2>1, <3>2
      <4>2. u[j] = w[j - Len(v)]
        BY <2>1, <4>1
      <4>3. QED
        BY <4>1, <4>2 DEF BlocksOf
    <3>3. QED
      BY <2>1, <3>1, <3>2
  <2>3. ASSUME NEW j \in 1 .. Len(v) PROVE v[j].block \in BlocksOf(u)
    <3>1. j \in 1 .. Len(u)
      BY <2>1
    <3>2. QED
      BY <2>1, <3>1 DEF BlocksOf
  <2>4. ASSUME NEW j \in 1 .. Len(w) PROVE w[j].block \in BlocksOf(u)
    <3>1. Len(v) + j \in 1 .. Len(u)
      BY <2>1
    <3>2. QED
      BY <2>1, <3>1 DEF BlocksOf
  <2>5. BlocksOf(u) \subseteq BlocksOf(v) \cup BlocksOf(w)
    BY <2>2 DEF BlocksOf
  <2>6. BlocksOf(v) \subseteq BlocksOf(u)
    BY <2>3 DEF BlocksOf
  <2>7. BlocksOf(w) \subseteq BlocksOf(u)
    BY <2>4 DEF BlocksOf
  <2>8. QED
    BY <2>5, <2>6, <2>7 DEF u
<1>4. QED
  BY <1>1, <1>2, <1>3

(* Covering goes over concatenation: pieces that cover the parts of a text *)
(* cover the whole, in order.                                              *)
LEMMA CoversConcat ==
  ASSUME NEW v, NEW u, NEW w, NEW t, Covers(v, u), Covers(w, t)
  PROVE  Covers(v \o w, u \o t)
<1>1. /\ v \in Seq(Piece) /\ u \in Seq(Piece) /\ w \in Seq(Piece) /\ t \in Seq(Piece)
      /\ v = <<>> <=> u = <<>>
      /\ w = <<>> <=> t = <<>>
  BY DEF Covers
<1>2. CASE v = <<>>
  <2>1. v \o w = w /\ u \o t = t
    BY <1>1, <1>2, ConcatEmptySeq
  <2>2. QED
    BY <2>1
<1>3. CASE w = <<>>
  <2>1. v \o w = v /\ u \o t = u
    BY <1>1, <1>3, ConcatEmptySeq
  <2>2. QED
    BY <2>1
<1>4. CASE v # <<>> /\ w # <<>>
  <2> DEFINE x == v \o w
             y == u \o t
  <2>1. /\ x \in Seq(Piece) /\ x # <<>> /\ x[1] = v[1] /\ x[Len(x)] = w[Len(w)]
    BY <1>1, <1>4, ConcatEnds
  <2>2. /\ y \in Seq(Piece) /\ y # <<>> /\ y[1] = u[1] /\ y[Len(y)] = t[Len(t)]
    BY <1>1, <1>4, ConcatEnds
  <2>3. SameEnds(v, u) /\ SameEnds(w, t)
    BY <1>4 DEF Covers
  <2>4. BlocksOf(x) \subseteq BlocksOf(y)
    <3>1. BlocksOf(x) = BlocksOf(v) \cup BlocksOf(w) /\ BlocksOf(y) = BlocksOf(u) \cup BlocksOf(t)
      BY <1>1, BlocksConcat
    <3> HIDE DEF x, y
    <3>2. QED
      BY <3>1 DEF Covers
  <2>5. ASSUME Chained(y) PROVE Linked(x)
    <3>1. Chained(u) /\ Chained(t) /\ NextTo(u[Len(u)], t[1])
      BY <1>1, <1>4, <2>5, ChainedParts
    <3>2. NextTo(v[Len(v)], w[1])
      BY <2>3, <3>1 DEF SameEnds, NextTo
    <3>3. Linked(v) /\ Linked(w)
      BY <3>1 DEF Covers
    <3>4. QED
      BY <1>1, <1>4, <3>2, <3>3, JoinedSpans
  <2> HIDE DEF x, y
  <2>6. SameEnds(x, y)
    BY <2>1, <2>2, <2>3 DEF SameEnds
  <2>7. Covers(x, y)
    BY <2>1, <2>2, <2>4, <2>5, <2>6 DEF Covers
  <2>8. QED
    BY <2>7 DEF x, y
<1>5. QED
  BY <1>2, <1>3, <1>4

(* A body covers itself.                                                   *)
LEMMA CoversSelf ==
  ASSUME NEW u \in Seq(Piece)
  PROVE  Covers(u, u)
BY DEF Covers, SameEnds, Chained, Linked

-----------------------------------------------------------------------------
(* Sections.                                                               *)

Sect == [anchor : Nat, body : Seq(Piece)]

(* What is done, and what waits.                                           *)
Accumulator == [done : Seq(Sect), buffer : Sect]

(* The spans of u are the blocks of the text up to b that are body.        *)
Tiles(u, b) ==
  /\ u \in Seq(Piece) /\ Chained(u)
  /\ BlocksOf(u) \subseteq {c \in Bodies : c <= b}
  /\ u = <<>> => ~\E c \in Bodies : c <= b
  /\ u # <<>> => /\ u[1].from = 0 /\ u[Len(u)].to = text[u[Len(u)].block].len
                 /\ ~\E c \in Bodies : c < u[1].block
                 /\ ~\E c \in Bodies : u[Len(u)].block < c /\ c <= b

InSection(body, a) == \A c \in BlocksOf(body) : SectionOf(c) = a

(* Every section has a body of its own blocks, and they are in order.      *)
Sectioned(ss) ==
  /\ ss \in Seq(Sect)
  /\ \A k \in 1 .. Len(ss) : ss[k].body # <<>> /\ InSection(ss[k].body, ss[k].anchor)
  /\ \A k \in 1 .. Len(ss) - 1 : ss[k].anchor <= ss[k + 1].anchor

LEMMA SectBodies == WithBodies(Sect)
BY DEF WithBodies, Sect

LEMMA TextType ==
  ASSUME text \in Texts
  PROVE  /\ text \in Seq(Block) /\ Len(text) \in Nat /\ DOMAIN text = 1 .. Len(text)
         /\ \A b \in 1 .. Len(text) : text[b].len \in Nat \ {0} /\ Whole(text, b) \in Piece
         /\ Marks \subseteq 1 .. Len(text)
         /\ Bodies = (1 .. Len(text)) \ Marks
<1>1. text \in Seq(Block)
  BY ChunkerAssumption
<1>2. Len(text) \in Nat /\ DOMAIN text = 1 .. Len(text)
  BY <1>1, LenProperties
<1>3. ASSUME NEW b \in 1 .. Len(text)
      PROVE  text[b].len \in Nat \ {0} /\ Whole(text, b) \in Piece
  <2>1. text[b] \in Block
    BY <1>1, ElementOfSeq
  <2>2. text[b].len \in Nat \ {0}
    BY <2>1 DEF Block
  <2>3. QED
    BY <2>2 DEF Whole, Span, Piece
<1>4. QED
  BY <1>1, <1>2, <1>3 DEF Marks, Bodies

LEMMA OneSpan ==
  ASSUME NEW s \in Piece
  PROVE  <<s>> \in Seq(Piece) /\ <<s>> # <<>> /\ Len(<<s>>) = 1 /\ BlocksOf(<<s>>) = {s.block}
BY DEF BlocksOf

(* The next block of a body goes on with the text.                         *)
LEMMA TilesAppend ==
  ASSUME text \in Texts, NEW b \in Bodies, NEW u, Tiles(u, b - 1)
  PROVE  Tiles(u \o <<Whole(text, b)>>, b)
<1> DEFINE s == Whole(text, b)
           t == u \o <<s>>
<1>1. b \in Nat /\ b \in 1 .. Len(text) /\ Bodies \subseteq Nat
  BY TextType
<1>2. s \in Piece /\ s.block = b /\ s.from = 0 /\ s.to = text[b].len
  BY <1>1, TextType DEF Whole, Span
<1> HIDE DEF s
<1>3. /\ <<s>> \in Seq(Piece) /\ Len(<<s>>) = 1 /\ (<<s>>)[1] = s /\ <<s>> # <<>>
      /\ BlocksOf(<<s>>) = {b}
  BY <1>2, OneSpan
<1>4. u \in Seq(Piece) /\ Chained(u) /\ BlocksOf(u) \subseteq {c \in Bodies : c <= b - 1}
  BY DEF Tiles
<1>5. BlocksOf(t) \subseteq {c \in Bodies : c <= b}
  <2>1. BlocksOf(t) = BlocksOf(u) \cup BlocksOf(<<s>>)
    BY <1>3, <1>4, BlocksConcat
  <2> HIDE DEF t
  <2>2. ASSUME NEW c \in BlocksOf(t) PROVE c \in Bodies /\ c <= b
    <3>1. CASE c \in BlocksOf(u)
      <4>1. c \in Bodies /\ c <= b - 1
        BY <1>4, <3>1
      <4>2. c \in Nat
        BY <1>1, <4>1
      <4>3. QED
        BY <1>1, <4>1, <4>2
    <3>2. CASE c = b
      BY <1>1, <3>2
    <3>3. QED
      BY <1>3, <2>1, <3>1, <3>2
  <2>3. QED
    BY <2>2
<1>6. CASE u = <<>>
  <2>1. t = <<s>>
    BY <1>3, <1>6, ConcatEmptySeq
  <2>2. Chained(<<s>>)
    BY <1>3 DEF Chained
  <2>3. ~\E c \in Bodies : c <= b - 1
    BY <1>6 DEF Tiles
  <2> HIDE DEF t
  <2>4. t[1] = s /\ t[Len(t)] = s /\ t # <<>> /\ t \in Seq(Piece) /\ Chained(t)
    BY <1>3, <2>1, <2>2
  <2>5. ~\E c \in Bodies : c < b
    BY <1>1, <2>3
  <2>6. Tiles(t, b)
    BY <1>1, <1>2, <1>5, <2>4, <2>5 DEF Tiles
  <2>7. QED
    BY <2>6 DEF t, s
<1>7. CASE u # <<>>
  <2>1. /\ Len(u) \in Nat \ {0} /\ t \in Seq(Piece) /\ t # <<>>
        /\ t[1] = u[1] /\ t[Len(t)] = s
    BY <1>3, <1>4, <1>7, ConcatEnds
  <2>2. /\ u[1].from = 0 /\ u[Len(u)].to = text[u[Len(u)].block].len
        /\ ~\E c \in Bodies : c < u[1].block
        /\ ~\E c \in Bodies : u[Len(u)].block < c /\ c <= b - 1
    BY <1>7 DEF Tiles
  <2>3. u[Len(u)].block \in BlocksOf(u)
    BY <2>1 DEF BlocksOf
  <2>4. NextTo(u[Len(u)], s)
    BY <1>1, <1>2, <1>4, <2>2, <2>3 DEF NextTo
  <2>5. Chained(<<s>>)
    BY <1>3 DEF Chained
  <2>6. Chained(t)
    BY <1>3, <1>4, <1>7, <2>4, <2>5, JoinedSpans
  <2> HIDE DEF t
  <2>7. ~\E c \in Bodies : b < c /\ c <= b
    BY <1>1
  <2>8. Tiles(t, b)
    BY <1>2, <1>5, <2>1, <2>2, <2>6, <2>7 DEF Tiles
  <2>9. QED
    BY <2>8 DEF t, s
<1>8. QED
  BY <1>6, <1>7

(* A mark is no body and adds nothing.                                     *)
LEMMA TilesSkip ==
  ASSUME text \in Texts, NEW b \in Nat, b \notin Bodies, NEW u, Tiles(u, b - 1)
  PROVE  Tiles(u, b)
<1>1. \A c \in Bodies : c <= b <=> c <= b - 1
  BY TextType
<1>2. QED
  BY <1>1 DEF Tiles

LEMMA TilesNone ==
  ASSUME text \in Texts
  PROVE  Tiles(<<>>, 0)
<1>1. \A c \in Bodies : ~(c <= 0)
  BY TextType
<1>2. <<>> \in Seq(Piece) /\ Len(<<>>) = 0
  BY EmptySeq
<1>3. QED
  BY <1>1, <1>2 DEF Tiles, Chained, BlocksOf

(* A mark opens a section of its own.                                      *)
LEMMA SectionOfMark ==
  ASSUME text \in Texts, NEW b \in Marks
  PROVE  SectionOf(b) = b
<1> DEFINE before == {m \in Marks : m <= b}
<1>1. b \in before /\ before \subseteq Nat /\ \A m \in before : m <= b
  BY TextType
<1> HIDE DEF before
<1>2. Max(before) = b
  <2>1. \A x \in before : (\A y \in before : x >= y) <=> x = b
    BY <1>1
  <2>2. \A y \in before : b >= y
    BY <1>1
  <2> DEFINE m == CHOOSE x \in before : \A y \in before : x >= y
  <2>3. m \in before /\ \A y \in before : m >= y
    BY <1>1, <2>2
  <2>4. m = b
    <3> HIDE DEF m
    <3>1. QED
      BY <2>1, <2>3
  <2>5. QED
    BY <2>4 DEF Max
<1>3. QED
  BY <1>1, <1>2 DEF SectionOf, before

LEMMA SectionOfBody ==
  ASSUME text \in Texts, NEW b \in Nat, b \notin Marks
  PROVE  SectionOf(b) = SectionOf(b - 1)
<1>1. {m \in Marks : m <= b} = {m \in Marks : m <= b - 1}
  BY TextType
<1>2. QED
  BY <1>1 DEF SectionOf

LEMMA SectionOfNone ==
  ASSUME text \in Texts
  PROVE  SectionOf(0) = 0
<1>1. {m \in Marks : m <= 0} = {}
  BY TextType
<1>2. QED
  BY <1>1 DEF SectionOf

(* Closing the section at hand drops nothing, for it is dropped only when  *)
(* its body is empty.                                                      *)
LEMMA ClosedHeld ==
  ASSUME NEW acc \in Accumulator
  PROVE  /\ Closed(acc) \in Seq(Sect)
         /\ Held(Closed(acc)) = Held(acc.done) \o acc.buffer.body
<1>1. acc.done \in Seq(Sect) /\ acc.buffer \in Sect /\ acc.buffer.body \in Seq(Piece)
  BY DEF Accumulator, Sect
<1>2. CASE acc.buffer.body = <<>>
  <2>1. Held(acc.done) \o <<>> = Held(acc.done)
    BY <1>1, SectBodies, HeldType, ConcatEmptySeq
  <2>2. QED
    BY <1>1, <1>2, <2>1 DEF Closed
<1>3. CASE acc.buffer.body # <<>>
  <2>1. Held(Append(acc.done, acc.buffer)) = Held(acc.done) \o acc.buffer.body
    BY <1>1, SectBodies, HeldAppend
  <2>2. Append(acc.done, acc.buffer) \in Seq(Sect)
    BY <1>1, AppendProperties
  <2>3. QED
    BY <1>3, <2>1, <2>2 DEF Closed
<1>4. QED
  BY <1>2, <1>3

(* _split_by_headings and _split_by_numbered_clauses, block after block.   *)
WithBlock(kind, acc, b) ==
  IF text[b].kind = kind THEN [done |-> Closed(acc), buffer |-> Section(b, <<>>)]
  ELSE [acc EXCEPT !.buffer.body = Append(@, Whole(text, b))]

Begun == [done |-> <<>>, buffer |-> Section(0, <<>>)]

LEMMA BegunType == Begun \in Accumulator
<1>1. <<>> \in Seq(Piece) /\ <<>> \in Seq(Sect)
  BY EmptySeq
<1>2. QED
  BY <1>1 DEF Begun, Accumulator, Section, Sect

LEMMA WithBlockType ==
  ASSUME text \in Texts, NEW kind, NEW acc \in Accumulator, NEW b \in 1 .. Len(text)
  PROVE  WithBlock(kind, acc, b) \in Accumulator
<1>1. acc.done \in Seq(Sect) /\ acc.buffer \in Sect /\ acc.buffer.body \in Seq(Piece)
  BY DEF Accumulator, Sect
<1>2. CASE text[b].kind = kind
  <2>1. Section(b, <<>>) \in Sect
    BY EmptySeq DEF Section, Sect
  <2>2. QED
    BY <1>2, <2>1, ClosedHeld DEF WithBlock, Accumulator
<1>3. CASE text[b].kind # kind
  <2> DEFINE longer == Append(acc.buffer.body, Whole(text, b))
  <2>1. longer \in Seq(Piece)
    BY <1>1, TextType, AppendProperties
  <2>2. WithBlock(kind, acc, b) = [acc EXCEPT !.buffer.body = longer]
    BY <1>3 DEF WithBlock
  <2> HIDE DEF longer
  <2>3. QED
    BY <2>1, <2>2 DEF Accumulator, Sect
<1>4. QED
  BY <1>2, <1>3

Splits(f, kind) ==
  /\ f \in [0 .. Len(text) -> Accumulator] /\ f[0] = Begun
  /\ \A b \in 1 .. Len(text) : f[b] = WithBlock(kind, f[b - 1], b)

(* The recursion of SplitAt.                                               *)
LEMMA SplitDef ==
  ASSUME text \in Texts, NEW kind
  PROVE  \E f : Splits(f, kind) /\ SplitAt(text, kind) = Closed(f[Len(text)])
<1> DEFINE n == Len(text)
           G == [p \in Accumulator \X (1 .. n) |-> WithBlock(kind, p[1], p[2])]
           Eq(u) == u = [b \in 0 .. n |->
                      IF b = 0 THEN [done |-> <<>>, buffer |-> Section(0, <<>>)]
                      ELSE IF text[b].kind = kind
                      THEN [done |-> Closed(u[b - 1]), buffer |-> Section(b, <<>>)]
                      ELSE [u[b - 1] EXCEPT !.buffer.body = Append(@, Whole(text, b))]]
           r == CHOOSE u : Eq(u)
<1>1. n \in Nat
  BY TextType
<1>2. \A a \in Accumulator, b \in 1 .. n : WithBlock(kind, a, b) \in Accumulator
  BY WithBlockType
<1>3. SplitAt(text, kind) = Closed(r[n])
  BY DEF SplitAt, SplitSoFar
<1> HIDE DEF n
<1>4. \A a \in Accumulator, k \in 1 .. n : G[<<a, k>>] = WithBlock(kind, a, k)
  OBVIOUS
<1> HIDE DEF G
<1>5. Steps(G, n, Accumulator)
  BY <1>2, <1>4 DEF Steps
<1>6. PICK f : Follows(f, n, Accumulator, Begun, G)
  BY <1>1, <1>5, BegunType, Recursion
<1>7. f \in [0 .. n -> Accumulator] /\ f[0] = Begun
  BY <1>6 DEF Follows
<1>8. ASSUME NEW k \in 1 .. n PROVE f[k] = WithBlock(kind, f[k - 1], k)
  <2>1. f[k - 1] \in Accumulator
    BY <1>1, <1>7
  <2>2. f[k] = G[<<f[k - 1], k>>]
    BY <1>6 DEF Follows
  <2>3. QED
    BY <1>4, <2>1, <2>2
<1>9. Eq(f)
  <2>1. f = [k \in 0 .. n |-> f[k]]
    BY <1>7
  <2>2. ASSUME NEW k \in 0 .. n
        PROVE  f[k] = IF k = 0 THEN Begun ELSE WithBlock(kind, f[k - 1], k)
    BY <1>1, <1>7, <1>8
  <2>3. QED
    BY <2>1, <2>2 DEF WithBlock, Begun
<1>10. Eq(r)
  <2> HIDE DEF Eq
  <2>1. QED
    BY <1>9
<1> HIDE DEF r
<1>11. r[0] = Begun /\ \A k \in 1 .. n : r[k] = WithBlock(kind, r[k - 1], k)
  <2>1. 0 \in 0 .. n /\ \A k \in 1 .. n : k \in 0 .. n /\ k # 0
    BY <1>1
  <2>2. QED
    BY <1>10, <2>1 DEF WithBlock, Begun
<1>12. GoAlike(f, r, n)
  <2> HIDE DEF Eq
  <2>1. ASSUME NEW k \in 1 .. n, f[k - 1] = r[k - 1] PROVE f[k] = r[k]
    BY <1>8, <1>11, <2>1
  <2>2. QED
    BY <1>7, <1>11, <2>1 DEF GoAlike
<1>13. f[n] = r[n]
  BY <1>1, <1>12, Agree DEF AreAlike
<1>14. Splits(f, kind)
  BY <1>7, <1>8 DEF Splits, n
<1>15. QED
  BY <1>3, <1>13, <1>14 DEF n

(* What holds of the sections when the blocks up to b have been read.      *)
Splitting(acc, b) ==
  /\ acc \in Accumulator
  /\ Tiles(Held(acc.done) \o acc.buffer.body, b)
  /\ Sectioned(acc.done)
  /\ \A k \in 1 .. Len(acc.done) : acc.done[k].anchor <= acc.buffer.anchor
  /\ InSection(acc.buffer.body, acc.buffer.anchor)
  /\ acc.buffer.anchor = SectionOf(b) /\ acc.buffer.anchor <= b

(* Closing keeps the sections in their order.                              *)
LEMMA SectionedClosed ==
  ASSUME NEW acc \in Accumulator, Sectioned(acc.done),
         \A k \in 1 .. Len(acc.done) : acc.done[k].anchor <= acc.buffer.anchor,
         InSection(acc.buffer.body, acc.buffer.anchor)
  PROVE  /\ Sectioned(Closed(acc))
         /\ \A k \in 1 .. Len(Closed(acc)) : Closed(acc)[k].anchor <= acc.buffer.anchor
<1>1. CASE acc.buffer.body = <<>>
  BY <1>1 DEF Closed
<1>2. CASE acc.buffer.body # <<>>
  <2> DEFINE d == acc.done
             e == Append(d, acc.buffer)
             n == Len(d)
  <2>1. d \in Seq(Sect) /\ acc.buffer \in Sect /\ acc.buffer.anchor \in Nat
    BY DEF Accumulator, Sect
  <2>2. /\ e \in Seq(Sect) /\ n \in Nat /\ Len(e) = n + 1
        /\ \A k \in 1 .. n : e[k] = d[k]
        /\ e[n + 1] = acc.buffer
    BY <2>1, AppendProperties, LenProperties
  <2>3. Closed(acc) = e
    BY <1>2 DEF Closed
  <2>4. /\ \A k \in 1 .. n : d[k].body # <<>> /\ InSection(d[k].body, d[k].anchor)
        /\ \A k \in 1 .. n - 1 : d[k].anchor <= d[k + 1].anchor
        /\ \A k \in 1 .. n : d[k].anchor <= acc.buffer.anchor
    BY DEF Sectioned
  <2> HIDE DEF d, e, n
  <2>5. ASSUME NEW k \in 1 .. n + 1
        PROVE  /\ e[k].body # <<>> /\ InSection(e[k].body, e[k].anchor)
               /\ e[k].anchor <= acc.buffer.anchor
    <3>1. CASE k \in 1 .. n
      BY <2>2, <2>4, <3>1
    <3>2. CASE k = n + 1
      BY <1>2, <2>1, <2>2, <3>2
    <3>3. QED
      BY <2>2, <3>1, <3>2
  <2>6. ASSUME NEW k \in 1 .. (n + 1) - 1 PROVE e[k].anchor <= e[k + 1].anchor
    <3>1. CASE k \in 1 .. n - 1
      <4>1. k \in 1 .. n /\ k + 1 \in 1 .. n
        BY <2>2, <3>1
      <4>2. QED
        BY <2>2, <2>4, <3>1, <4>1
    <3>2. CASE k = n
      <4>1. k \in 1 .. n
        BY <2>2
      <4>2. QED
        BY <2>2, <2>4, <3>2, <4>1
    <3>3. QED
      BY <2>2, <3>1, <3>2
  <2>7. Sectioned(e)
    BY <2>2, <2>5, <2>6 DEF Sectioned
  <2>8. QED
    BY <2>2, <2>3, <2>5, <2>7
<1>3. QED
  BY <1>1, <1>2

LEMMA SplittingBegins ==
  ASSUME text \in Texts
  PROVE  Splitting(Begun, 0)
<1>1. Begun.done = <<>> /\ Begun.buffer.body = <<>> /\ Begun.buffer.anchor = 0
  BY DEF Begun, Section
<1>2. Held(<<>>) \o <<>> = <<>>
  BY HeldEmpty, EmptySeq, ConcatEmptySeq
<1>3. Sectioned(<<>>) /\ Len(<<>>) = 0
  BY EmptySeq DEF Sectioned
<1>4. InSection(<<>>, 0)
  BY <1>3 DEF InSection, BlocksOf
<1>5. QED
  BY <1>1, <1>2, <1>3, <1>4, BegunType, TilesNone, SectionOfNone DEF Splitting

(* The invariant of the split is kept by every block.                      *)
LEMMA SplittingGoesOn ==
  ASSUME text \in Texts, NEW kind, Marks = {b \in DOMAIN text : text[b].kind = kind},
         NEW b \in 1 .. Len(text), NEW acc, Splitting(acc, b - 1)
  PROVE  Splitting(WithBlock(kind, acc, b), b)
<1> DEFINE new == WithBlock(kind, acc, b)
<1>1. acc \in Accumulator
  BY DEF Splitting
<1>2. new \in Accumulator
  BY <1>1, WithBlockType
<1>3. acc.done \in Seq(Sect) /\ acc.buffer \in Sect /\ acc.buffer.body \in Seq(Piece)
      /\ acc.buffer.anchor \in Nat
  BY <1>1 DEF Accumulator, Sect
<1>4. Held(acc.done) \in Seq(Piece)
  BY <1>3, SectBodies, HeldType
<1>5. b \in Nat /\ b \in DOMAIN text
  BY TextType
<1>6. CASE text[b].kind = kind
  <2>1. b \in Marks /\ b \notin Bodies
    BY <1>5, <1>6, TextType
  <2>2. new.done = Closed(acc) /\ new.buffer.body = <<>> /\ new.buffer.anchor = b
    BY <1>6 DEF WithBlock, Section
  <2>3. Held(Closed(acc)) = Held(acc.done) \o acc.buffer.body /\ Closed(acc) \in Seq(Sect)
    BY <1>1, ClosedHeld
  <2>4. Held(Closed(acc)) \o <<>> = Held(Closed(acc))
    BY <2>3, SectBodies, HeldType, ConcatEmptySeq
  <2>5. Tiles(Held(new.done) \o new.buffer.body, b)
    <3>1. Tiles(Held(acc.done) \o acc.buffer.body, b - 1)
      BY DEF Splitting
    <3>2. Tiles(Held(acc.done) \o acc.buffer.body, b)
      BY <1>5, <2>1, <3>1, TilesSkip
    <3>3. QED
      BY <2>2, <2>3, <2>4, <3>2
  <2>6. /\ Sectioned(Closed(acc))
        /\ \A k \in 1 .. Len(Closed(acc)) : Closed(acc)[k].anchor <= acc.buffer.anchor
    BY <1>1, SectionedClosed DEF Splitting
  <2>7. acc.buffer.anchor <= b - 1
    BY DEF Splitting
  <2>8. ASSUME NEW k \in 1 .. Len(Closed(acc)) PROVE Closed(acc)[k].anchor <= b
    <3>1. Closed(acc)[k] \in Sect
      BY <2>3, ElementOfSeq
    <3>2. Closed(acc)[k].anchor \in Nat
      BY <3>1 DEF Sect
    <3>3. Closed(acc)[k].anchor <= acc.buffer.anchor
      BY <2>6
    <3> DEFINE x == Closed(acc)[k].anchor
               y == acc.buffer.anchor
    <3> HIDE DEF x, y
    <3>4. x \in Nat /\ y \in Nat /\ x <= y /\ y <= b - 1
      BY <1>3, <2>7, <3>2, <3>3 DEF x, y
    <3>5. x <= b
      BY <1>5, <3>4
    <3>6. QED
      BY <3>5 DEF x
  <2>9. SectionOf(b) = b
    BY <2>1, SectionOfMark
  <2>10. InSection(<<>>, b)
    BY EmptySeq DEF InSection, BlocksOf
  <2> HIDE DEF new
  <2>11. Splitting(new, b)
    BY <1>2, <1>5, <2>2, <2>5, <2>6, <2>8, <2>9, <2>10 DEF Splitting
  <2>12. QED
    BY <2>11 DEF new
<1>7. CASE text[b].kind # kind
  <2> DEFINE s == Whole(text, b)
  <2>1. b \notin Marks /\ b \in Bodies
    BY <1>5, <1>7, TextType
  <2>2. s \in Piece /\ s.block = b
    BY TextType DEF Whole, Span
  <2> HIDE DEF s
  <2>3. /\ new.done = acc.done /\ new.buffer.body = Append(acc.buffer.body, s)
        /\ new.buffer.anchor = acc.buffer.anchor
    BY <1>1, <1>7 DEF WithBlock, Accumulator, Sect, s
  <2>4. Append(acc.buffer.body, s) = acc.buffer.body \o <<s>> /\ <<s>> \in Seq(Piece)
    BY <1>3, <2>2, AppendIsConcat
  <2>5. Tiles(Held(new.done) \o new.buffer.body, b)
    <3>1. Tiles(Held(acc.done) \o acc.buffer.body, b - 1)
      BY DEF Splitting
    <3>2. Tiles((Held(acc.done) \o acc.buffer.body) \o <<s>>, b)
      BY <2>1, <3>1, TilesAppend DEF s
    <3>3. (Held(acc.done) \o acc.buffer.body) \o <<s>>
            = Held(acc.done) \o (acc.buffer.body \o <<s>>)
      <4> DEFINE x == Held(acc.done)
                 y == acc.buffer.body
                 z == <<s>>
      <4>1. x \in Seq(Piece) /\ y \in Seq(Piece) /\ z \in Seq(Piece)
        BY <1>3, <1>4, <2>4
      <4> HIDE DEF x, y, z
      <4>2. (x \o y) \o z = x \o (y \o z)
        BY <4>1, ConcatAssociative
      <4>3. QED
        BY <4>2 DEF x, y, z
    <3>4. QED
      BY <2>3, <2>4, <3>2, <3>3
  <2>6. SectionOf(b) = SectionOf(b - 1)
    BY <1>5, <2>1, SectionOfBody
  <2>7. BlocksOf(acc.buffer.body \o <<s>>) = BlocksOf(acc.buffer.body) \cup {b}
    BY <1>3, <2>2, <2>4, BlocksConcat, OneSpan
  <2>8. /\ InSection(acc.buffer.body, acc.buffer.anchor)
        /\ acc.buffer.anchor = SectionOf(b - 1) /\ acc.buffer.anchor <= b - 1
        /\ Sectioned(acc.done)
        /\ \A k \in 1 .. Len(acc.done) : acc.done[k].anchor <= acc.buffer.anchor
    BY DEF Splitting
  <2>9. InSection(new.buffer.body, new.buffer.anchor)
    BY <2>3, <2>4, <2>6, <2>7, <2>8 DEF InSection
  <2>10. acc.buffer.anchor <= b
    BY <1>3, <1>5, <2>8
  <2> HIDE DEF new
  <2>11. Splitting(new, b)
    BY <1>2, <2>3, <2>5, <2>6, <2>8, <2>9, <2>10 DEF Splitting
  <2>12. QED
    BY <2>11 DEF new
<1>8. QED
  BY <1>6, <1>7

(* The sections of a text hold all its bodies, each under its own anchor.  *)
LEMMA SplitHolds ==
  ASSUME text \in Texts, NEW kind, Marks = {b \in DOMAIN text : text[b].kind = kind}
  PROVE  /\ Sectioned(SplitAt(text, kind))
         /\ Tiles(Held(SplitAt(text, kind)), Len(text))
<1>1. PICK f : Splits(f, kind) /\ SplitAt(text, kind) = Closed(f[Len(text)])
  BY SplitDef
<1> DEFINE n == Len(text)
           T == {b \in 0 .. n : Splitting(f[b], b)}
<1>2. n \in Nat
  BY TextType
<1>3. 0 \in T
  BY <1>1, <1>2, SplittingBegins DEF Splits
<1>4. ASSUME NEW b \in 1 .. n, b - 1 \in T PROVE b \in T
  <2>1. f[b] = WithBlock(kind, f[b - 1], b) /\ Splitting(f[b - 1], b - 1)
    BY <1>1, <1>4 DEF Splits
  <2>2. Splitting(f[b], b)
    BY <2>1, SplittingGoesOn
  <2>3. QED
    BY <1>2, <2>2
<1>5. \A b \in 0 .. n : b \in T
  <2> HIDE DEF T
  <2>1. QED
    BY <1>2, <1>3, <1>4, InductionUpTo
<1>6. Splitting(f[n], n)
  BY <1>2, <1>5
<1>7. QED
  BY <1>1, <1>6, ClosedHeld, SectionedClosed DEF Splitting

(* Without a mark every paragraph is a section.                            *)
LEMMA ParagraphsHold ==
  ASSUME text \in Texts, Marks = {}, SplitByParagraphs(text) # <<>>
  PROVE  /\ Sectioned(SplitByParagraphs(text))
         /\ Tiles(Held(SplitByParagraphs(text)), Len(text))
<1> DEFINE ss == [b \in DOMAIN text |-> Section(0, <<Whole(text, b)>>)]
           n == Len(text)
<1>1. SplitByParagraphs(text) = ss
  BY DEF SplitByParagraphs
<1>2. n \in Nat /\ DOMAIN text = 1 .. n /\ Bodies = 1 .. n
      /\ \A b \in 1 .. n : Whole(text, b) \in Piece
  BY TextType
<1>3. ASSUME NEW b \in 1 .. n
      PROVE  /\ ss[b].anchor = 0 /\ ss[b].body = <<Whole(text, b)>>
             /\ <<Whole(text, b)>> \in Seq(Piece) /\ <<Whole(text, b)>> # <<>>
             /\ BlocksOf(<<Whole(text, b)>>) = {b} /\ ss[b] \in Sect
  <2>1. Whole(text, b) \in Piece /\ Whole(text, b).block = b
    BY <1>2 DEF Whole, Span
  <2>2. /\ <<Whole(text, b)>> \in Seq(Piece) /\ <<Whole(text, b)>> # <<>>
        /\ BlocksOf(<<Whole(text, b)>>) = {b}
    BY <2>1, OneSpan
  <2>3. ss[b] = [anchor |-> 0, body |-> <<Whole(text, b)>>]
    BY <1>2 DEF Section
  <2>4. ss[b].anchor = 0 /\ ss[b].body = <<Whole(text, b)>>
    BY <2>3
  <2>5. ss[b] \in Sect
    <3> HIDE DEF ss
    <3>1. QED
      BY <2>2, <2>3 DEF Sect
  <2>6. QED
    BY <2>2, <2>4, <2>5
<1>4. ss \in [1 .. n -> Sect] /\ DOMAIN ss = 1 .. n
  BY <1>2, <1>3
<1>5. ss \in Seq(Sect)
  BY <1>2, <1>4, IsASeq
<1> HIDE DEF ss
<1>6. Len(ss) = n
  <2>1. Len(ss) \in Nat /\ 1 .. Len(ss) = 1 .. n
    BY <1>4, <1>5, LenProperties
  <2>2. QED
    BY <1>2, <2>1
<1>7. Sectioned(ss)
  <2>1. \A b \in 1 .. n : SectionOf(b) = 0
    BY DEF SectionOf
  <2>2. \A b \in 1 .. n : InSection(ss[b].body, ss[b].anchor)
    BY <1>3, <2>1 DEF InSection
  <2>3. ASSUME NEW k \in 1 .. n - 1 PROVE ss[k].anchor <= ss[k + 1].anchor
    <3>1. k \in 1 .. n /\ k + 1 \in 1 .. n
      BY <1>2
    <3>2. ss[k].anchor = 0 /\ ss[k + 1].anchor = 0
      BY <1>3, <3>1
    <3>3. QED
      BY <3>2
  <2>4. \A k \in 1 .. n : ss[k].body # <<>>
    BY <1>3
  <2>5. QED
    BY <1>5, <1>6, <2>2, <2>3, <2>4 DEF Sectioned
<1> DEFINE g == [k \in DOMAIN ss |-> ss[k].body]
<1>8. g \in Seq(Seq(Piece)) /\ Len(g) = n
  BY <1>5, <1>6, SectBodies, BodiesType
<1>9. \A k \in 1 .. n : g[k] = <<Whole(text, k)>>
  BY <1>3, <1>4
<1> HIDE DEF g
<1>10. PICK f : Flattens(f, g, Piece) /\ FlattenSeq(g) = f[n]
  BY <1>8, FlattenDef
<1> DEFINE T == {k \in 0 .. n : Tiles(f[k], k)}
<1>11. 0 \in T
  BY <1>2, <1>10, TilesNone DEF Flattens
<1>12. ASSUME NEW k \in 1 .. n, k - 1 \in T PROVE k \in T
  <2>1. f[k] = f[k - 1] \o <<Whole(text, k)>>
    BY <1>8, <1>9, <1>10 DEF Flattens
  <2>2. Tiles(f[k - 1], k - 1) /\ k \in Bodies
    BY <1>2, <1>12
  <2>3. Tiles(f[k], k)
    BY <2>1, <2>2, TilesAppend
  <2>4. QED
    BY <1>2, <2>3
<1>13. \A k \in 0 .. n : k \in T
  <2> HIDE DEF T
  <2>1. QED
    BY <1>2, <1>11, <1>12, InductionUpTo
<1>14. Tiles(f[n], n)
  BY <1>2, <1>13
<1>15. QED
  BY <1>1, <1>7, <1>10, <1>14 DEF Held, g

(* So they do however the text was split.                                  *)
LEMMA SectionsHold ==
  ASSUME text \in Texts, Sections(text) # <<>>
  PROVE  /\ Sectioned(Sections(text))
         /\ Tiles(Held(Sections(text)), Len(text))
<1>1. CASE SplitByHeadings(text) # <<>>
  <2>1. Marks = {b \in DOMAIN text : text[b].kind = "heading"}
    BY <1>1 DEF Marks
  <2>2. Sections(text) = SplitAt(text, "heading")
    BY <1>1 DEF Sections, SplitByHeadings
  <2>3. QED
    BY <2>1, <2>2, SplitHolds
<1>2. CASE SplitByHeadings(text) = <<>> /\ SplitByClauses(text) # <<>>
  <2>1. Marks = {b \in DOMAIN text : text[b].kind = "clause"}
    BY <1>2 DEF Marks
  <2>2. Sections(text) = SplitAt(text, "clause")
    BY <1>2 DEF Sections, SplitByClauses
  <2>3. QED
    BY <2>1, <2>2, SplitHolds
<1>3. CASE SplitByHeadings(text) = <<>> /\ SplitByClauses(text) = <<>>
  <2>1. Marks = {}
    BY <1>3 DEF Marks
  <2>2. Sections(text) = SplitByParagraphs(text)
    BY <1>3 DEF Sections
  <2>3. QED
    BY <2>1, <2>2, ParagraphsHold
<1>4. QED
  BY <1>1, <1>2, <1>3

-----------------------------------------------------------------------------
(* _merge_short.                                                           *)

MergedType == \A acc \in Accumulator, s \in Sect : Merged(acc, s) \in Accumulator

(* The section that two are joined to.                                     *)
LEMMA JoinedSection ==
  ASSUME NEW acc \in Accumulator, NEW s \in Sect
  PROVE  /\ Joined(acc.buffer.anchor, s) \in Nat
         /\ acc.done \in Seq(Sect) /\ acc.buffer \in Sect
         /\ acc.buffer.body \in Seq(Piece) /\ s.body \in Seq(Piece)
         /\ acc.buffer.anchor \in Nat /\ s.anchor \in Nat
         /\ acc.buffer.body \o s.body \in Seq(Piece)
         /\ Section(Joined(acc.buffer.anchor, s), acc.buffer.body \o s.body) \in Sect
<1>1. /\ acc.done \in Seq(Sect) /\ acc.buffer \in Sect
      /\ acc.buffer.body \in Seq(Piece) /\ s.body \in Seq(Piece)
      /\ acc.buffer.anchor \in Nat /\ s.anchor \in Nat
  BY DEF Accumulator, Sect
<1>2. Joined(acc.buffer.anchor, s) \in Nat
  BY <1>1 DEF Joined
<1>3. acc.buffer.body \o s.body \in Seq(Piece)
  BY <1>1, ConcatProperties
<1>4. Section(Joined(acc.buffer.anchor, s), acc.buffer.body \o s.body) \in Sect
  BY <1>2, <1>3 DEF Section, Sect
<1>5. QED
  BY <1>1, <1>2, <1>3, <1>4

LEMMA MergedTypes == MergedType
<1> SUFFICES ASSUME NEW acc \in Accumulator, NEW s \in Sect
             PROVE  Merged(acc, s) \in Accumulator
  BY DEF MergedType
<1> DEFINE both == Section(Joined(acc.buffer.anchor, s), acc.buffer.body \o s.body)
<1>1. both \in Sect /\ acc.done \in Seq(Sect) /\ acc.buffer \in Sect
  BY JoinedSection
<1>2. Merged(acc, s) = IF Length(both.body) < MinLen THEN [acc EXCEPT !.buffer = both]
                       ELSE [done |-> Append(acc.done, both), buffer |-> Section(0, <<>>)]
  BY DEF Merged
<1> HIDE DEF both
<1>3. Append(acc.done, both) \in Seq(Sect)
  BY <1>1, AppendProperties
<1>4. Section(0, <<>>) \in Sect
  BY BegunType DEF Begun, Accumulator
<1>5. QED
  BY <1>1, <1>2, <1>3, <1>4 DEF Accumulator

Merges(f, ss) ==
  /\ f \in [0 .. Len(ss) -> Accumulator] /\ f[0] = Begun
  /\ \A k \in 1 .. Len(ss) : f[k] = Merged(f[k - 1], ss[k])

(* The recursion of MergeShort.                                            *)
LEMMA MergeDef ==
  ASSUME NEW ss \in Seq(Sect)
  PROVE  \E f : /\ Merges(f, ss)
                /\ MergeShort(ss) = TailMerged(f[Len(ss)].done, f[Len(ss)].buffer)
<1> DEFINE n == Len(ss)
           G == [p \in Accumulator \X (1 .. n) |-> Merged(p[1], ss[p[2]])]
           Eq(u) == u = [k \in 0 .. n |->
                           IF k = 0 THEN [done |-> <<>>, buffer |-> Section(0, <<>>)]
                           ELSE Merged(u[k - 1], ss[k])]
           r == CHOOSE u : Eq(u)
<1>1. n \in Nat
  BY LenProperties
<1>2. \A k \in 1 .. n : ss[k] \in Sect
  BY ElementOfSeq
<1>3. MergeShort(ss) = TailMerged(r[n].done, r[n].buffer)
  BY DEF MergeShort, MergedSoFar
<1> HIDE DEF n
<1>4. \A a \in Accumulator, k \in 1 .. n : G[<<a, k>>] = Merged(a, ss[k])
  OBVIOUS
<1> HIDE DEF G
<1>5. Steps(G, n, Accumulator)
  BY <1>2, <1>4, MergedTypes DEF Steps, MergedType
<1>6. PICK f : Follows(f, n, Accumulator, Begun, G)
  BY <1>1, <1>5, BegunType, Recursion
<1>7. f \in [0 .. n -> Accumulator] /\ f[0] = Begun
  BY <1>6 DEF Follows
<1>8. ASSUME NEW k \in 1 .. n PROVE f[k] = Merged(f[k - 1], ss[k])
  <2>1. f[k - 1] \in Accumulator
    BY <1>1, <1>7
  <2>2. f[k] = G[<<f[k - 1], k>>]
    BY <1>6 DEF Follows
  <2>3. QED
    BY <1>4, <2>1, <2>2
<1>9. Eq(f)
  <2>1. f = [k \in 0 .. n |-> f[k]]
    BY <1>7
  <2>2. ASSUME NEW k \in 0 .. n
        PROVE  f[k] = IF k = 0 THEN Begun ELSE Merged(f[k - 1], ss[k])
    BY <1>1, <1>7, <1>8
  <2>3. QED
    BY <2>1, <2>2 DEF Begun
<1>10. Eq(r)
  <2> HIDE DEF Eq
  <2>1. QED
    BY <1>9
<1> HIDE DEF r
<1>11. r[0] = Begun /\ \A k \in 1 .. n : r[k] = Merged(r[k - 1], ss[k])
  <2>1. 0 \in 0 .. n /\ \A k \in 1 .. n : k \in 0 .. n /\ k # 0
    BY <1>1
  <2>2. QED
    BY <1>10, <2>1 DEF Begun
<1>12. GoAlike(f, r, n)
  <2> HIDE DEF Eq
  <2>1. ASSUME NEW k \in 1 .. n, f[k - 1] = r[k - 1] PROVE f[k] = r[k]
    BY <1>8, <1>11, <2>1
  <2>2. QED
    BY <1>7, <1>11, <2>1 DEF GoAlike
<1>13. f[n] = r[n]
  BY <1>1, <1>12, Agree DEF AreAlike
<1>14. Merges(f, ss)
  BY <1>7, <1>8 DEF Merges, n
<1>15. QED
  BY <1>3, <1>13, <1>14 DEF n

Earlier(a) == {b \in DOMAIN text : SectionOf(b) < a}

Later(a) == {b \in DOMAIN text : SectionOf(b) > a}

Cites(body, a) ==
  LengthIn(body, Earlier(a)) < MinLen /\ LengthIn(body, Later(a)) < MinLen

UpToSection(body, a) == \A c \in BlocksOf(body) : SectionOf(c) \in Nat /\ SectionOf(c) <= a

FromSection(body, a) == \A c \in BlocksOf(body) : SectionOf(c) >= a

(* A section that waits for no other.                                      *)
Settled(s) ==
  /\ Length(s.body) >= MinLen
  /\ LengthIn(s.body, Earlier(s.anchor)) < MinLen
  /\ UpToSection(s.body, s.anchor)

(* What holds of what is merged: held is what there is of the text so far, *)
(* and top the anchor that came last.                                      *)
Merging(acc, held, top) ==
  /\ acc \in Accumulator /\ top \in Nat
  /\ Held(acc.done) \o acc.buffer.body = held
  /\ \A j \in 1 .. Len(acc.done) : /\ Settled(acc.done[j]) /\ acc.done[j].anchor <= top
                                   /\ FromSection(acc.buffer.body, acc.done[j].anchor)
  /\ Length(acc.buffer.body) < MinLen
  /\ UpToSection(acc.buffer.body, top)
  /\ acc.buffer.anchor <= top

LEMMA EarlierLater ==
  ASSUME text \in Texts, NEW a, NEW body \in Seq(Piece)
  PROVE  /\ LengthIn(body, Earlier(a)) \in Nat /\ LengthIn(body, Later(a)) \in Nat
         /\ Length(body) \in Nat
         /\ LengthIn(body, Earlier(a)) <= Length(body)
         /\ LengthIn(body, Later(a)) <= Length(body)
<1>1. Earlier(a) \subseteq Nat /\ Later(a) \subseteq Nat
  BY TextType DEF Earlier, Later
<1>2. QED
  BY <1>1, LengthType, LengthWithin DEF Length

LEMMA NoneOf ==
  ASSUME NEW body \in Seq(Piece), NEW B, BlocksOf(body) \cap B = {}
  PROVE  LengthIn(body, B) = 0
<1>1. \A j \in 1 .. Len(body) : body[j].block \notin B
  BY DEF BlocksOf
<1>2. QED
  BY <1>1, LengthAbsent

LEMMA NoneEarlier ==
  ASSUME NEW a \in Nat, NEW body \in Seq(Piece), FromSection(body, a),
         \A c \in BlocksOf(body) : SectionOf(c) \in Nat
  PROVE  LengthIn(body, Earlier(a)) = 0
<1>1. BlocksOf(body) \cap Earlier(a) = {}
  <2>1. SUFFICES ASSUME NEW c \in BlocksOf(body), c \in Earlier(a) PROVE FALSE
    OBVIOUS
  <2>2. SectionOf(c) < a /\ SectionOf(c) >= a /\ SectionOf(c) \in Nat
    BY <2>1 DEF Earlier, FromSection
  <2> DEFINE x == SectionOf(c)
  <2> HIDE DEF x
  <2>3. x < a /\ x >= a /\ x \in Nat
    BY <2>2 DEF x
  <2>4. QED
    BY <2>3
<1>2. QED
  BY <1>1, NoneOf

LEMMA NoneLater ==
  ASSUME NEW a \in Nat, NEW body \in Seq(Piece), UpToSection(body, a)
  PROVE  LengthIn(body, Later(a)) = 0
<1>1. BlocksOf(body) \cap Later(a) = {}
  <2>1. SUFFICES ASSUME NEW c \in BlocksOf(body), c \in Later(a) PROVE FALSE
    OBVIOUS
  <2>2. SectionOf(c) > a /\ SectionOf(c) <= a /\ SectionOf(c) \in Nat
    BY <2>1 DEF Later, UpToSection
  <2> DEFINE x == SectionOf(c)
  <2> HIDE DEF x
  <2>3. x > a /\ x <= a /\ x \in Nat
    BY <2>2 DEF x
  <2>4. QED
    BY <2>3
<1>2. QED
  BY <1>1, NoneOf

LEMMA MergingBegins == Merging(Begun, <<>>, 0)
<1>1. Begun.done = <<>> /\ Begun.buffer.body = <<>> /\ Begun.buffer.anchor = 0
  BY DEF Begun, Section
<1>2. Held(<<>>) \o <<>> = <<>> /\ Len(<<>>) = 0
  BY HeldEmpty, EmptySeq, ConcatEmptySeq
<1>3. Length(<<>>) = 0 /\ BlocksOf(<<>>) = {}
  BY LengthEmpty, EmptySeq DEF Length, BlocksOf
<1>4. QED
  BY <1>1, <1>2, <1>3, BegunType, ChunkerAssumption DEF Merging, UpToSection

(* The invariant of the merge is kept by every section, for what waits is  *)
(* shorter than MIN_CHUNK_CHARS.                                           *)
LEMMA MergingGoesOn ==
  ASSUME text \in Texts, NEW acc, NEW held, NEW top, Merging(acc, held, top),
         NEW s \in Sect, InSection(s.body, s.anchor), top <= s.anchor
  PROVE  Merging(Merged(acc, s), held \o s.body, s.anchor)
<1> DEFINE body == acc.buffer.body \o s.body
           both == Section(s.anchor, body)
           new == Merged(acc, s)
<1>1. acc \in Accumulator /\ top \in Nat /\ s.anchor \in Nat
  BY DEF Merging, Sect
<1>2. /\ acc.done \in Seq(Sect) /\ acc.buffer \in Sect
      /\ acc.buffer.body \in Seq(Piece) /\ s.body \in Seq(Piece)
      /\ acc.buffer.anchor \in Nat /\ body \in Seq(Piece)
  BY <1>1, JoinedSection
<1>3. Joined(acc.buffer.anchor, s) = s.anchor
  <2>1. acc.buffer.anchor <= top
    BY DEF Merging
  <2>2. s.anchor = 0 => acc.buffer.anchor = 0
    BY <1>1, <1>2, <2>1
  <2>3. QED
    BY <2>2 DEF Joined
<1>4. both \in Sect /\ both.body = body /\ both.anchor = s.anchor
  <2>1. both \in Sect
    BY <1>1, <1>3, JoinedSection
  <2>2. QED
    BY <2>1 DEF Section
<1>5. new = IF Length(body) < MinLen THEN [acc EXCEPT !.buffer = both]
            ELSE [done |-> Append(acc.done, both), buffer |-> Section(0, <<>>)]
  BY <1>3, <1>4 DEF Merged
<1>6. new \in Accumulator
  BY <1>1, MergedTypes DEF MergedType
<1>7. BlocksOf(body) = BlocksOf(acc.buffer.body) \cup BlocksOf(s.body)
  BY <1>2, BlocksConcat
<1>8. UpToSection(body, s.anchor)
  <2> SUFFICES ASSUME NEW c \in BlocksOf(body)
               PROVE  SectionOf(c) \in Nat /\ SectionOf(c) <= s.anchor
    BY DEF UpToSection
  <2>1. CASE c \in BlocksOf(acc.buffer.body)
    <3>1. SectionOf(c) \in Nat /\ SectionOf(c) <= top
      BY <2>1 DEF Merging, UpToSection
    <3> DEFINE x == SectionOf(c)
    <3> HIDE DEF x
    <3>2. x \in Nat /\ x <= top
      BY <3>1 DEF x
    <3>3. x <= s.anchor
      BY <1>1, <3>2
    <3>4. QED
      BY <3>2, <3>3 DEF x
  <2>2. CASE c \in BlocksOf(s.body)
    <3>1. SectionOf(c) = s.anchor
      BY <2>2 DEF InSection
    <3>2. QED
      BY <1>1, <3>1
  <2>3. QED
    BY <1>7, <2>1, <2>2
<1>9. ASSUME NEW j \in 1 .. Len(acc.done)
      PROVE  /\ Settled(acc.done[j]) /\ acc.done[j].anchor <= s.anchor
             /\ FromSection(body, acc.done[j].anchor)
  <2> DEFINE a == acc.done[j].anchor
  <2>1. Settled(acc.done[j]) /\ a <= top /\ FromSection(acc.buffer.body, a)
    BY DEF Merging
  <2>2. a \in Nat
    <3>1. acc.done[j] \in Sect
      BY <1>2, ElementOfSeq
    <3>2. QED
      BY <3>1 DEF Sect
  <2> HIDE DEF a
  <2>3. a <= s.anchor
    BY <1>1, <2>1, <2>2
  <2>4. FromSection(body, a)
    <3>1. \A c \in BlocksOf(s.body) : SectionOf(c) >= a
      BY <1>1, <2>2, <2>3 DEF InSection
    <3>2. QED
      BY <1>7, <2>1, <3>1 DEF FromSection
  <2>5. QED
    BY <2>1, <2>3, <2>4 DEF a
<1>10. Held(acc.done) \o body = held \o s.body
  <2>1. Held(acc.done) \o acc.buffer.body = held /\ Held(acc.done) \in Seq(Piece)
    BY <1>2, SectBodies, HeldType DEF Merging
  <2>2. (Held(acc.done) \o acc.buffer.body) \o s.body = Held(acc.done) \o body
    <3> DEFINE x == Held(acc.done)
               y == acc.buffer.body
               z == s.body
    <3>1. x \in Seq(Piece) /\ y \in Seq(Piece) /\ z \in Seq(Piece)
      BY <1>2, <2>1
    <3> HIDE DEF x, y, z
    <3>2. (x \o y) \o z = x \o (y \o z)
      BY <3>1, ConcatAssociative
    <3>3. QED
      BY <3>2 DEF x, y, z
  <2>3. QED
    BY <2>1, <2>2
<1> HIDE DEF body, both, new
<1>11. CASE Length(body) < MinLen
  <2>1. new.done = acc.done /\ new.buffer.body = body /\ new.buffer.anchor = s.anchor
    BY <1>1, <1>4, <1>5, <1>11 DEF Accumulator
  <2>2. /\ Held(new.done) \o new.buffer.body = held \o s.body
        /\ Length(new.buffer.body) < MinLen
        /\ UpToSection(new.buffer.body, s.anchor)
        /\ new.buffer.anchor <= s.anchor
    BY <1>1, <1>8, <1>10, <1>11, <2>1
  <2>3. \A j \in 1 .. Len(new.done) : /\ Settled(new.done[j]) /\ new.done[j].anchor <= s.anchor
                                      /\ FromSection(new.buffer.body, new.done[j].anchor)
    BY <1>9, <2>1
  <2>4. Merging(new, held \o s.body, s.anchor)
    BY <1>1, <1>6, <2>2, <2>3 DEF Merging
  <2>5. QED
    BY <2>4 DEF new
<1>12. CASE ~(Length(body) < MinLen)
  <2> DEFINE d == acc.done
             e == Append(d, both)
             n == Len(d)
  <2>1. new.done = e /\ new.buffer.body = <<>> /\ new.buffer.anchor = 0
    BY <1>5, <1>12 DEF Section
  <2>2. /\ e \in Seq(Sect) /\ n \in Nat /\ Len(e) = n + 1
        /\ \A k \in 1 .. n : e[k] = d[k]
        /\ e[n + 1] = both
    BY <1>2, <1>4, AppendProperties, LenProperties
  <2>3. Held(e) \o <<>> = held \o s.body
    <3>1. Held(e) = Held(d) \o body
      BY <1>2, <1>4, SectBodies, HeldAppend
    <3>2. Held(e) \in Seq(Piece)
      BY <2>2, SectBodies, HeldType
    <3>3. Held(e) \o <<>> = Held(e)
      BY <3>2, ConcatEmptySeq
    <3>4. QED
      BY <1>10, <3>1, <3>3
  <2>4. Settled(both)
    <3>1. Length(body) \in Nat /\ Length(body) >= MinLen
      BY <1>2, <1>12, LengthType, ChunkerAssumption DEF Length
    <3>2. LengthIn(body, Earlier(s.anchor)) < MinLen
      <4> DEFINE E == Earlier(s.anchor)
      <4>1. LengthIn(body, E) = Joint(LengthIn(acc.buffer.body, E), LengthIn(s.body, E))
        BY <1>2, LengthConcat DEF body
      <4>2. LengthIn(s.body, E) = 0
        <5>1. FromSection(s.body, s.anchor) /\ \A c \in BlocksOf(s.body) : SectionOf(c) \in Nat
          BY <1>1 DEF InSection, FromSection
        <5>2. QED
          BY <1>1, <1>2, <5>1, NoneEarlier
      <4>3. /\ LengthIn(acc.buffer.body, E) \in Nat /\ Length(acc.buffer.body) \in Nat
            /\ LengthIn(acc.buffer.body, E) <= Length(acc.buffer.body)
        BY <1>2, EarlierLater
      <4>4. Length(acc.buffer.body) < MinLen
        BY DEF Merging
      <4> HIDE DEF E
      <4>5. LengthIn(body, E) = LengthIn(acc.buffer.body, E)
        BY <4>1, <4>2, <4>3 DEF Joint
      <4>6. QED
        BY <4>3, <4>4, <4>5, ChunkerAssumption DEF E
    <3>3. QED
      BY <1>4, <1>8, <3>1, <3>2 DEF Settled
  <2> HIDE DEF d, e, n
  <2>5. BlocksOf(<<>>) = {} /\ Length(<<>>) = 0
    BY LengthEmpty, EmptySeq DEF Length, BlocksOf
  <2>6. ASSUME NEW k \in 1 .. Len(new.done)
        PROVE  /\ Settled(new.done[k]) /\ new.done[k].anchor <= s.anchor
               /\ FromSection(<<>>, new.done[k].anchor)
    <3>1. FromSection(<<>>, new.done[k].anchor)
      BY <2>5 DEF FromSection
    <3>2. CASE k \in 1 .. n
      BY <1>9, <2>1, <2>2, <3>1, <3>2 DEF d, n
    <3>3. CASE k = n + 1
      BY <1>1, <1>4, <2>1, <2>2, <2>4, <3>1, <3>3
    <3>4. QED
      BY <2>1, <2>2, <3>2, <3>3
  <2>7. UpToSection(<<>>, s.anchor) /\ Length(<<>>) < MinLen
    BY <2>5, ChunkerAssumption DEF UpToSection
  <2>8. /\ Held(new.done) \o new.buffer.body = held \o s.body
        /\ Length(new.buffer.body) < MinLen
        /\ UpToSection(new.buffer.body, s.anchor)
        /\ new.buffer.anchor <= s.anchor
    BY <1>1, <2>1, <2>3, <2>7
  <2>9. \A j \in 1 .. Len(new.done) : /\ Settled(new.done[j]) /\ new.done[j].anchor <= s.anchor
                                      /\ FromSection(new.buffer.body, new.done[j].anchor)
    BY <2>1, <2>6
  <2>10. Merging(new, held \o s.body, s.anchor)
    BY <1>1, <1>6, <2>8, <2>9 DEF Merging
  <2>11. QED
    BY <2>10 DEF new
<1>13. QED
  BY <1>11, <1>12

(* What _merge_short returns.                                              *)
LEMMA MergeHolds ==
  ASSUME text \in Texts, NEW ss, Sectioned(ss)
  PROVE  /\ MergeShort(ss) \in Seq(Sect)
         /\ Held(MergeShort(ss)) = Held(ss)
         /\ \A j \in 1 .. Len(MergeShort(ss)) :
              LET s == MergeShort(ss)[j] IN
              /\ s.body # <<>> /\ Cites(s.body, s.anchor)
              /\ Length(s.body) >= MinLen \/ Len(MergeShort(ss)) = 1
<1> DEFINE n == Len(ss)
           g == [k \in DOMAIN ss |-> ss[k].body]
<1>1. ss \in Seq(Sect) /\ n \in Nat /\ DOMAIN ss = 1 .. n
  BY LenProperties DEF Sectioned
<1>2. PICK f : /\ Merges(f, ss)
               /\ MergeShort(ss) = TailMerged(f[n].done, f[n].buffer)
  BY <1>1, MergeDef
<1>3. g \in Seq(Seq(Piece)) /\ Len(g) = n /\ \A k \in 1 .. n : g[k] = ss[k].body
  BY <1>1, SectBodies, BodiesType
<1> HIDE DEF g
<1>4. PICK h : Flattens(h, g, Piece) /\ FlattenSeq(g) = h[n]
  BY <1>3, FlattenDef
<1> DEFINE top(k) == IF k = 0 THEN 0 ELSE ss[k].anchor
           T == {k \in 0 .. n : Merging(f[k], h[k], top(k))}
<1>5. 0 \in T
  BY <1>1, <1>2, <1>4, MergingBegins DEF Merges, Flattens
<1>6. ASSUME NEW k \in 1 .. n, k - 1 \in T PROVE k \in T
  <2>1. f[k] = Merged(f[k - 1], ss[k]) /\ h[k] = h[k - 1] \o ss[k].body
    BY <1>2, <1>3, <1>4 DEF Merges, Flattens
  <2>2. Merging(f[k - 1], h[k - 1], top(k - 1))
    BY <1>6
  <2>3. ss[k] \in Sect /\ InSection(ss[k].body, ss[k].anchor)
    BY <1>1, ElementOfSeq DEF Sectioned
  <2>4. top(k - 1) <= ss[k].anchor
    <3>1. CASE k = 1
      BY <2>3, <3>1 DEF Sect
    <3>2. CASE k # 1
      <4>1. k - 1 \in 1 .. n - 1 /\ (k - 1) + 1 = k
        BY <1>1, <3>2
      <4>2. ss[k - 1].anchor <= ss[(k - 1) + 1].anchor
        BY <4>1 DEF Sectioned
      <4>3. QED
        BY <3>2, <4>1, <4>2
    <3>3. QED
      BY <3>1, <3>2
  <2>5. top(k) = ss[k].anchor /\ k \in 0 .. n
    BY <1>1
  <2> HIDE DEF top
  <2>6. Merging(f[k], h[k], top(k))
    BY <2>1, <2>2, <2>3, <2>4, <2>5, MergingGoesOn
  <2>7. QED
    BY <2>5, <2>6
<1>7. \A k \in 0 .. n : k \in T
  <2> HIDE DEF T
  <2>1. QED
    BY <1>1, <1>5, <1>6, InductionUpTo
<1> DEFINE acc == f[n]
           d == acc.done
           buf == acc.buffer
<1>8. Merging(acc, Held(ss), top(n))
  <2>1. n \in T
    BY <1>1, <1>7
  <2>2. h[n] = Held(ss)
    BY <1>4 DEF Held, g
  <2>3. QED
    BY <2>1, <2>2
<1> HIDE DEF acc, T, top
<1>9. /\ d \in Seq(Sect) /\ buf \in Sect /\ buf.body \in Seq(Piece) /\ buf.anchor \in Nat
      /\ Held(d) \in Seq(Piece)
  <2>1. d \in Seq(Sect) /\ buf \in Sect
    BY <1>8 DEF Merging, Accumulator
  <2>2. QED
    BY <2>1, SectBodies, HeldType DEF Sect
<1>10. /\ Held(d) \o buf.body = Held(ss)
       /\ \A j \in 1 .. Len(d) : Settled(d[j]) /\ FromSection(buf.body, d[j].anchor)
       /\ Length(buf.body) < MinLen
       /\ UpToSection(buf.body, top(n))
  BY <1>8 DEF Merging
<1>11. MergeShort(ss) = TailMerged(d, buf)
  BY <1>2 DEF acc
<1> HIDE DEF d, buf
<1>12. MinLen \in Nat \ {0}
  BY ChunkerAssumption
<1>13. ASSUME NEW s \in Sect, Settled(s)
       PROVE  /\ s.body # <<>> /\ Cites(s.body, s.anchor) /\ Length(s.body) >= MinLen
              /\ LengthIn(s.body, Later(s.anchor)) = 0
  <2>1. s.body \in Seq(Piece) /\ s.anchor \in Nat
    BY DEF Sect
  <2>2. LengthIn(s.body, Later(s.anchor)) = 0
    BY <1>13, <2>1, NoneLater DEF Settled
  <2>3. s.body # <<>>
    BY <1>12, <1>13, LengthEmpty DEF Settled, Length
  <2>4. QED
    BY <1>12, <1>13, <2>2, <2>3 DEF Settled, Cites
<1>14. CASE buf.body = <<>>
  <2>1. MergeShort(ss) = d
    BY <1>11, <1>14 DEF TailMerged
  <2>2. Held(d) = Held(ss)
    BY <1>9, <1>10, <1>14, ConcatEmptySeq
  <2>3. \A j \in 1 .. Len(d) : d[j] \in Sect
    BY <1>9, ElementOfSeq
  <2>4. QED
    BY <1>9, <1>10, <1>13, <2>1, <2>2, <2>3
<1>15. CASE buf.body # <<>> /\ d = <<>>
  <2>1. MergeShort(ss) = <<buf>>
    BY <1>11, <1>15 DEF TailMerged
  <2>2. Held(<<buf>>) = Held(ss)
    BY <1>9, <1>10, <1>15, HeldEmpty, HeldOne, ConcatEmptySeq
  <2>3. Cites(buf.body, buf.anchor)
    BY <1>9, <1>10, <1>12, EarlierLater DEF Cites
  <2>4. <<buf>> \in Seq(Sect) /\ Len(<<buf>>) = 1 /\ (<<buf>>)[1] = buf
    BY <1>9
  <2>5. QED
    BY <1>15, <2>1, <2>2, <2>3, <2>4
<1>16. CASE buf.body # <<>> /\ d # <<>>
  <2>1. PICK t \in Seq(Sect), e \in Sect : d = Append(t, e)
    BY <1>9, <1>16, SequenceEmptyOrAppend
  <2> DEFINE m == Len(t)
             last == [e EXCEPT !.body = @ \o buf.body]
             all == Append(t, last)
  <2>2. e.body \in Seq(Piece) /\ e.anchor \in Nat /\ e.body \o buf.body \in Seq(Piece)
    BY <1>9, ConcatProperties DEF Sect
  <2>3. last \in Sect /\ last.body = e.body \o buf.body /\ last.anchor = e.anchor
    BY <2>2 DEF Sect
  <2>4. /\ m \in Nat /\ Len(d) = m + 1 /\ d[m + 1] = e
        /\ \A j \in 1 .. m : d[j] = t[j]
    BY <2>1, AppendProperties, LenProperties
  <2> HIDE DEF last
  <2>5. /\ all \in Seq(Sect) /\ Len(all) = m + 1 /\ all[m + 1] = last
        /\ \A j \in 1 .. m : all[j] = t[j]
    BY <2>3, AppendProperties, LenProperties
  <2>6. MergeShort(ss) = all
    <3> DEFINE r == [d EXCEPT ![Len(d)].body = @ \o buf.body]
    <3>1. MergeShort(ss) = r
      BY <1>11, <1>16 DEF TailMerged
    <3>2. r = [d EXCEPT ![m + 1] = last]
      BY <2>4 DEF last
    <3>3. r \in Seq(Sect) /\ Len(r) = m + 1
      <4>1. m + 1 \in 1 .. Len(d)
        BY <2>4
      <4> DEFINE i == m + 1
      <4> HIDE DEF r, all, i
      <4>2. i \in 1 .. Len(d)
        BY <4>1 DEF i
      <4>3. [d EXCEPT ![i] = last] \in Seq(Sect) /\ Len([d EXCEPT ![i] = last]) = Len(d)
        BY <1>9, <2>3, <4>2, ExceptSeq
      <4>4. QED
        BY <2>4, <3>2, <4>3 DEF i
    <3>4. DOMAIN d = 1 .. m + 1
      BY <1>9, <2>4, LenProperties
    <3> HIDE DEF r, all
    <3>5. ASSUME NEW j \in 1 .. m + 1 PROVE r[j] = all[j]
      <4>1. CASE j = m + 1
        BY <2>5, <3>2, <3>4, <4>1
      <4>2. CASE j # m + 1
        <5>1. j \in 1 .. m
          BY <2>4, <4>2
        <5>2. QED
          BY <2>4, <2>5, <3>2, <3>4, <4>2, <5>1
      <4>3. QED
        BY <4>1, <4>2
    <3>6. r = all
      BY <2>5, <3>3, <3>5, SeqEqual
    <3>7. QED
      BY <3>1, <3>6
  <2>7. Held(all) = Held(ss)
    <3>1. Held(d) = Held(t) \o e.body /\ Held(all) = Held(t) \o last.body
          /\ Held(t) \in Seq(Piece)
      BY <2>1, <2>3, SectBodies, HeldAppend, HeldType
    <3> DEFINE x == Held(t)
               y == e.body
               z == buf.body
    <3>2. x \in Seq(Piece) /\ y \in Seq(Piece) /\ z \in Seq(Piece)
      BY <1>9, <2>2, <3>1
    <3>3. Held(d) \o z = (x \o y) \o z /\ Held(all) = x \o (y \o z)
      BY <2>3, <3>1
    <3> HIDE DEF x, y, z
    <3>4. (x \o y) \o z = x \o (y \o z)
      BY <3>2, ConcatAssociative
    <3>5. Held(d) \o z = Held(ss)
      BY <1>10 DEF z
    <3>6. QED
      BY <3>3, <3>4, <3>5
  <2> HIDE DEF all, m
  <2>8. Settled(e) /\ FromSection(buf.body, e.anchor)
    <3>1. m + 1 \in 1 .. Len(d)
      BY <2>4
    <3>2. QED
      BY <1>10, <2>4, <3>1
  <2>9. last.body # <<>> /\ Cites(last.body, last.anchor) /\ Length(last.body) >= MinLen
    <3> DEFINE a == e.anchor
               L(B) == LengthIn(last.body, B)
               LE(B) == LengthIn(e.body, B)
               LB(B) == LengthIn(buf.body, B)
    <3>1. \A B : L(B) = Joint(LE(B), LB(B)) /\ LE(B) \in Nat /\ LB(B) \in Nat
      BY <1>9, <2>2, <2>3, LengthConcat, LengthType
    <3>2. LE(Nat) >= MinLen /\ LE(Earlier(a)) < MinLen /\ LE(Later(a)) = 0
      BY <1>13, <2>8 DEF Settled, Length
    <3>3. LB(Nat) < MinLen /\ LB(Later(a)) <= LB(Nat)
      BY <1>9, <1>10, EarlierLater DEF Length
    <3>4. LB(Earlier(a)) = 0
      BY <1>9, <1>10, <2>2, <2>8, NoneEarlier DEF UpToSection
    <3> HIDE DEF L, LE, LB
    <3>5. L(Nat) >= MinLen
      BY <1>12, <3>1, <3>2, ChunkerAssumption DEF Joint
    <3>6. L(Earlier(a)) < MinLen
      BY <1>12, <3>1, <3>2, <3>4 DEF Joint
    <3>7. L(Later(a)) < MinLen
      BY <1>12, <3>1, <3>2, <3>3 DEF Joint
    <3>8. last.body # <<>>
      BY <1>12, <3>5, LengthEmpty DEF L
    <3>9. QED
      BY <2>3, <3>5, <3>6, <3>7, <3>8 DEF L, Cites, Length
  <2>10. ASSUME NEW j \in 1 .. Len(all)
         PROVE  /\ all[j].body # <<>> /\ Cites(all[j].body, all[j].anchor)
                /\ Length(all[j].body) >= MinLen
    <3>1. CASE j = m + 1
      BY <2>5, <2>9, <3>1
    <3>2. CASE j # m + 1
      <4>1. j \in 1 .. m /\ j \in 1 .. Len(d)
        BY <2>4, <2>5, <3>2
      <4>2. all[j] = d[j] /\ Settled(d[j]) /\ d[j] \in Sect
        BY <1>9, <1>10, <2>4, <2>5, <4>1, ElementOfSeq
      <4>3. QED
        BY <1>13, <4>2
    <3>3. QED
      BY <3>1, <3>2
  <2>11. QED
    BY <2>5, <2>6, <2>7, <2>10
<1>17. QED
  BY <1>14, <1>15, <1>16

-----------------------------------------------------------------------------
(* _split_long: paragraphs that fit together.                              *)

Packs == {p \in Seq(Seq(Piece)) : p # <<>>}

Fits(p) == p # <<>> /\ (Length(p) <= MaxLen \/ Len(p) = 1)

Packing(bodies) == bodies = <<<<>>>> \/ \A j \in 1 .. Len(bodies) : Fits(bodies[j])

(* One more paragraph goes into the last body or into a new one, and no    *)
(* body that has several is too long.                                      *)
LEMMA WithSpanHolds ==
  ASSUME NEW bodies \in Packs, NEW s \in Piece
  PROVE  /\ WithSpan(bodies, s) \in Packs
         /\ FlattenSeq(WithSpan(bodies, s)) = Append(FlattenSeq(bodies), s)
         /\ Packing(bodies) => \A j \in 1 .. Len(WithSpan(bodies, s)) : Fits(WithSpan(bodies, s)[j])
<1>1. PICK t \in Seq(Seq(Piece)), e \in Seq(Piece) : bodies = Append(t, e)
  BY SequenceEmptyOrAppend DEF Packs
<1> DEFINE m == Len(t)
           longer == Append(e, s)
           new == WithSpan(bodies, s)
<1>2. /\ bodies \in Seq(Seq(Piece)) /\ m \in Nat /\ Len(bodies) = m + 1
      /\ bodies[m + 1] = e
      /\ \A j \in 1 .. m : bodies[j] = t[j]
  BY <1>1, AppendProperties, LenProperties
<1>3. /\ longer \in Seq(Piece) /\ longer # <<>> /\ Len(longer) = Len(e) + 1
      /\ <<s>> \in Seq(Piece) /\ <<s>> # <<>> /\ Len(<<s>>) = 1
  BY AppendProperties
<1>4. /\ FlattenSeq(bodies) = FlattenSeq(t) \o e
      /\ FlattenSeq(t) \in Seq(Piece) /\ FlattenSeq(bodies) \in Seq(Piece)
  BY <1>1, <1>2, FlattenAppend, FlattenType
<1>5. \A j \in 1 .. m + 1 : Packing(bodies) => (Fits(bodies[j]) \/ (m = 0 /\ e = <<>>))
  <2>1. ASSUME bodies = <<<<>>>> PROVE m = 0 /\ e = <<>>
    <3>1. Len(bodies) = 1 /\ bodies[1] = <<>>
      BY <2>1
    <3>2. m = 0
      <4> DEFINE x == Len(bodies)
      <4>1. x = m + 1 /\ x = 1 /\ m \in Nat
        BY <1>2, <3>1
      <4> HIDE DEF x, m
      <4>2. QED
        BY <4>1
    <3>3. m + 1 = 1
      BY <3>2
    <3>4. QED
      BY <1>2, <3>1, <3>2, <3>3
  <2>2. QED
    BY <1>2, <2>1 DEF Packing
<1>6. CASE e # <<>> /\ Length(longer) > MaxLen
  <2>1. new = Append(bodies, <<s>>)
    BY <1>2, <1>6 DEF WithSpan
  <2>2. /\ new \in Seq(Seq(Piece)) /\ new # <<>> /\ Len(new) = m + 2
        /\ new[m + 2] = <<s>>
        /\ \A j \in 1 .. m + 1 : new[j] = bodies[j]
    BY <1>2, <1>3, <2>1, AppendProperties
  <2>3. FlattenSeq(new) = FlattenSeq(bodies) \o <<s>>
    BY <1>2, <1>3, <2>1, FlattenAppend
  <2>4. FlattenSeq(bodies) \o <<s>> = Append(FlattenSeq(bodies), s)
    BY <1>4, AppendIsConcat
  <2> HIDE DEF new, longer
  <2>5. Fits(<<s>>)
    BY <1>3 DEF Fits
  <2>6. ASSUME Packing(bodies), NEW j \in 1 .. Len(new) PROVE Fits(new[j])
    <3>1. CASE j = m + 2
      BY <2>2, <2>5, <3>1
    <3>2. CASE j # m + 2
      <4>1. j \in 1 .. m + 1
        BY <1>2, <2>2, <3>2
      <4>2. QED
        BY <1>5, <1>6, <2>2, <2>6, <4>1
    <3>3. QED
      BY <3>1, <3>2
  <2>7. QED
    BY <2>2, <2>3, <2>4, <2>6 DEF Packs, new
<1>7. CASE ~(e # <<>> /\ Length(longer) > MaxLen)
  <2> DEFINE all == Append(t, longer)
  <2>1. /\ all \in Seq(Seq(Piece)) /\ all # <<>> /\ Len(all) = m + 1
        /\ all[m + 1] = longer
        /\ \A j \in 1 .. m : all[j] = t[j]
    <3>1. longer \in Seq(Piece)
      BY <1>3
    <3> HIDE DEF longer
    <3>2. QED
      BY <3>1, AppendProperties, LenProperties
  <2>2. new = [bodies EXCEPT ![m + 1] = longer]
    BY <1>2, <1>7 DEF WithSpan
  <2> HIDE DEF new, all, longer
  <2>3. new = all
    <3> DEFINE i == m + 1
               r == [bodies EXCEPT ![i] = longer]
    <3>1. i \in 1 .. Len(bodies)
      BY <1>2
    <3> HIDE DEF i
    <3>2. /\ r \in Seq(Seq(Piece)) /\ Len(r) = Len(bodies)
          /\ \A j \in 1 .. Len(bodies) : r[j] = IF j = i THEN longer ELSE bodies[j]
      BY <1>2, <1>3, <3>1, ExceptSeq
    <3> HIDE DEF r
    <3>3. ASSUME NEW j \in 1 .. Len(r) PROVE r[j] = all[j]
      <4>1. CASE j = i
        BY <1>2, <2>1, <3>2, <4>1 DEF i
      <4>2. CASE j # i
        <5>1. j \in 1 .. m
          BY <1>2, <3>2, <4>2 DEF i
        <5>2. QED
          BY <1>2, <2>1, <3>2, <4>2, <5>1
      <4>3. QED
        BY <4>1, <4>2
    <3>4. r = all
      BY <1>2, <2>1, <3>2, <3>3, SeqEqual
    <3>5. QED
      BY <2>2, <3>4 DEF r, i
  <2>4. FlattenSeq(all) = FlattenSeq(t) \o longer
    BY <1>3, FlattenAppend DEF all
  <2>5. FlattenSeq(t) \o longer = Append(FlattenSeq(bodies), s)
    BY <1>4, ConcatAppend DEF longer
  <2>6. Fits(longer)
    <3>1. Length(longer) \in Nat
      BY <1>3, LengthType DEF Length
    <3>2. e = <<>> => Len(longer) = 1
      BY <1>3
    <3>3. QED
      BY <1>3, <1>7, <3>1, <3>2, ChunkerAssumption DEF Fits
  <2>7. ASSUME Packing(bodies), NEW j \in 1 .. Len(all) PROVE Fits(all[j])
    <3>1. CASE j = m + 1
      BY <2>1, <2>6, <3>1
    <3>2. CASE j # m + 1
      <4>1. j \in 1 .. m /\ j \in 1 .. m + 1 /\ m # 0
        BY <1>2, <2>1, <3>2
      <4>2. QED
        BY <1>2, <1>5, <2>1, <2>7, <4>1
    <3>3. QED
      BY <3>1, <3>2
  <2>8. QED
    BY <2>1, <2>3, <2>4, <2>5, <2>7 DEF Packs, new
<1>8. QED
  BY <1>6, <1>7

Packings(f, body) ==
  /\ f \in [0 .. Len(body) -> Packs] /\ f[0] = <<<<>>>>
  /\ \A k \in 1 .. Len(body) : f[k] = WithSpan(f[k - 1], body[k])

LEMMA NoPack ==
  /\ <<<<>>>> \in Packs /\ FlattenSeq(<<<<>>>>) = <<>>
  /\ Packing(<<<<>>>>)
<1>1. <<>> \in Seq(Piece) /\ <<<<>>>> \in Seq(Seq(Piece)) /\ <<<<>>>> # <<>>
  OBVIOUS
<1>2. QED
  BY <1>1, FlattenOne DEF Packs, Packing

(* The recursion of Packed.                                                *)
LEMMA PackedDef ==
  ASSUME NEW body \in Seq(Piece)
  PROVE  \E f : Packings(f, body) /\ Packed(body) = f[Len(body)]
<1> DEFINE n == Len(body)
           G == [p \in Packs \X (1 .. n) |-> WithSpan(p[1], body[p[2]])]
           Eq(u) == u = [k \in 0 .. n |->
                           IF k = 0 THEN <<<<>>>> ELSE WithSpan(u[k - 1], body[k])]
           r == CHOOSE u : Eq(u)
<1>1. n \in Nat
  BY LenProperties
<1>2. \A k \in 1 .. n : body[k] \in Piece
  BY ElementOfSeq
<1>3. Packed(body) = r[n]
  BY DEF Packed, PackedSoFar
<1> HIDE DEF n
<1>4. \A a \in Packs, k \in 1 .. n : G[<<a, k>>] = WithSpan(a, body[k])
  OBVIOUS
<1> HIDE DEF G
<1>5. Steps(G, n, Packs)
  <2>1. \A a \in Packs, k \in 1 .. n : WithSpan(a, body[k]) \in Packs
    BY <1>2, WithSpanHolds
  <2>2. QED
    BY <1>4, <2>1 DEF Steps
<1>6. PICK f : Follows(f, n, Packs, <<<<>>>>, G)
  BY <1>1, <1>5, NoPack, Recursion
<1>7. f \in [0 .. n -> Packs] /\ f[0] = <<<<>>>>
  BY <1>6 DEF Follows
<1>8. ASSUME NEW k \in 1 .. n PROVE f[k] = WithSpan(f[k - 1], body[k])
  <2>1. f[k - 1] \in Packs
    BY <1>1, <1>7
  <2>2. f[k] = G[<<f[k - 1], k>>]
    BY <1>6 DEF Follows
  <2>3. QED
    BY <1>4, <2>1, <2>2
<1>9. Eq(f)
  <2>1. f = [k \in 0 .. n |-> f[k]]
    BY <1>7
  <2>2. ASSUME NEW k \in 0 .. n
        PROVE  f[k] = IF k = 0 THEN <<<<>>>> ELSE WithSpan(f[k - 1], body[k])
    <3>1. CASE k = 0
      BY <1>7, <3>1
    <3>2. CASE k # 0
      <4>1. k \in 1 .. n
        BY <1>1, <3>2
      <4>2. QED
        BY <1>8, <3>2, <4>1
    <3>3. QED
      BY <3>1, <3>2
  <2>3. QED
    BY <2>1, <2>2
<1>10. Eq(r)
  <2> HIDE DEF Eq
  <2>1. QED
    BY <1>9
<1> HIDE DEF r
<1>11. r[0] = <<<<>>>> /\ \A k \in 1 .. n : r[k] = WithSpan(r[k - 1], body[k])
  <2>1. 0 \in 0 .. n /\ \A k \in 1 .. n : k \in 0 .. n /\ k # 0
    BY <1>1
  <2>2. QED
    BY <1>10, <2>1
<1>12. GoAlike(f, r, n)
  <2> HIDE DEF Eq
  <2>1. ASSUME NEW k \in 1 .. n, f[k - 1] = r[k - 1] PROVE f[k] = r[k]
    BY <1>8, <1>11, <2>1
  <2>2. QED
    BY <1>7, <1>11, <2>1 DEF GoAlike
<1>13. f[n] = r[n]
  BY <1>1, <1>12, Agree DEF AreAlike
<1>14. Packings(f, body)
  BY <1>7, <1>8 DEF Packings, n
<1>15. QED
  BY <1>3, <1>13, <1>14 DEF n

(* The paragraphs of a section are all there, and each of its parts fits   *)
(* or is a single paragraph.                                               *)
LEMMA PackedHolds ==
  ASSUME NEW body \in Seq(Piece), body # <<>>
  PROVE  /\ Packed(body) \in Seq(Seq(Piece)) /\ Packed(body) # <<>>
         /\ FlattenSeq(Packed(body)) = body
         /\ \A j \in 1 .. Len(Packed(body)) : Fits(Packed(body)[j])
<1>1. PICK f : Packings(f, body) /\ Packed(body) = f[Len(body)]
  BY PackedDef
<1> DEFINE n == Len(body)
           Alike(p, k) == Len(p) = k /\ \A i \in 1 .. k : p[i] = body[i]
           Done(k) == /\ f[k] \in Packs /\ Alike(FlattenSeq(f[k]), k)
                      /\ Packing(f[k])
                      /\ k > 0 => \A j \in 1 .. Len(f[k]) : Fits(f[k][j])
           T == {k \in 0 .. n : Done(k)}
<1>2. n \in Nat /\ n > 0 /\ \A k \in 1 .. n : body[k] \in Piece
  BY LenProperties, EmptySeq, ElementOfSeq
<1>3. 0 \in T
  <2>1. f[0] = <<<<>>>> /\ 0 \in 0 .. n
    BY <1>1, <1>2 DEF Packings
  <2>2. Len(<<>>) = 0
    OBVIOUS
  <2>3. Done(0)
    BY <2>1, <2>2, NoPack
  <2>4. QED
    BY <2>1, <2>3
<1>4. ASSUME NEW k \in 1 .. n, k - 1 \in T PROVE k \in T
  <2> DEFINE p == f[k - 1]
             new == WithSpan(p, body[k])
             was == FlattenSeq(p)
  <2>1. f[k] = new /\ body[k] \in Piece
    BY <1>1, <1>2 DEF Packings
  <2>2. p \in Packs /\ Alike(was, k - 1) /\ Packing(p)
    BY <1>4
  <2> HIDE DEF p, was
  <2>3. /\ new \in Packs /\ FlattenSeq(new) = Append(was, body[k])
        /\ \A j \in 1 .. Len(new) : Fits(new[j])
    BY <2>1, <2>2, WithSpanHolds DEF was
  <2>4. was \in Seq(Piece)
    BY <2>2, FlattenType DEF was, Packs
  <2> HIDE DEF new
  <2>5. Alike(FlattenSeq(new), k)
    <3>1. /\ Len(Append(was, body[k])) = (k - 1) + 1 /\ (k - 1) + 1 = k
          /\ Append(was, body[k])[(k - 1) + 1] = body[k]
          /\ \A i \in 1 .. k - 1 : Append(was, body[k])[i] = was[i]
      BY <1>2, <2>1, <2>2, <2>4, AppendProperties
    <3>2. ASSUME NEW i \in 1 .. k PROVE Append(was, body[k])[i] = body[i]
      <4>1. CASE i = k
        BY <3>1, <4>1
      <4>2. CASE i # k
        <5>1. i \in 1 .. k - 1
          BY <4>2
        <5>2. QED
          BY <2>2, <3>1, <5>1
      <4>3. QED
        BY <4>1, <4>2
    <3>3. QED
      BY <2>3, <3>1, <3>2
  <2>6. Packing(new)
    BY <2>3 DEF Packing
  <2> HIDE DEF Alike
  <2>7. Done(k)
    BY <2>1, <2>3, <2>5, <2>6
  <2>8. QED
    BY <1>2, <2>7
<1>5. \A k \in 0 .. n : k \in T
  <2> HIDE DEF T
  <2>1. QED
    BY <1>2, <1>3, <1>4, InductionUpTo
<1>6. Done(n)
  BY <1>2, <1>5
<1>7. FlattenSeq(f[n]) = body
  <2>1. FlattenSeq(f[n]) \in Seq(Piece)
    BY <1>6, FlattenType DEF Packs
  <2>2. QED
    BY <1>6, <2>1, SeqEqual
<1>8. QED
  BY <1>1, <1>2, <1>6, <1>7 DEF Packs

-----------------------------------------------------------------------------
(* _fixed_window.                                                          *)

LEMMA WindowsHold ==
  ASSUME NEW s \in Piece, NEW size \in Nat, Overlap < size
  PROVE  /\ Windows(s, size) \in Seq(Piece) /\ Windows(s, size) # <<>>
         /\ Covers(Windows(s, size), <<s>>)
         /\ \A k \in 1 .. Len(Windows(s, size)) :
              LET w == Windows(s, size)[k] IN
              /\ w.block = s.block /\ w.to - w.from <= size
              /\ s.from <= w.from /\ w.to <= s.to
         /\ s.to - s.from > size => Len(Windows(s, size)) > 1
<1> DEFINE step == size - Overlap
           len == s.to - s.from
           q == (len + step - 1) \div step
           start(k) == s.from + (k - 1) * step
           end(k) == IF start(k) + size < s.to THEN start(k) + size ELSE s.to
           w == [k \in 1 .. q |-> Span(s.block, start(k), end(k))]
<1>1. Windows(s, size) = w
  BY DEF Windows
<1>2. /\ s.block \in Nat /\ s.from \in Nat /\ s.to \in Nat /\ s.from < s.to
      /\ len \in Nat \ {0} /\ s.from + len = s.to
      /\ Overlap \in Nat /\ step \in Nat \ {0} /\ step <= size
  BY PieceType, ChunkerAssumption
<1>3. q \in Nat /\ q * step <= len + step - 1 /\ len <= q * step
  <2> HIDE DEF len, step
  <2>1. QED
    BY <1>2
<1> HIDE DEF q
<1>4. q > 0
  <2> HIDE DEF len, step
  <2>1. QED
    BY <1>2, <1>3
<1>5. ASSUME NEW k \in 1 .. q
      PROVE  /\ start(k) \in Nat /\ s.from <= start(k) /\ start(k) < s.to
             /\ end(k) \in Nat /\ start(k) < end(k) /\ end(k) <= s.to
             /\ end(k) - start(k) <= size
  <2> DEFINE x == (k - 1) * step
             y == (q - 1) * step
  <2> HIDE DEF len, step
  <2>1. x \in Nat /\ y \in Nat /\ x <= y /\ y = (q * step) - step
    BY <1>2, <1>3, <1>4
  <2> HIDE DEF x, y
  <2>2. x <= len - 1
    BY <1>2, <1>3, <2>1
  <2>3. start(k) = s.from + x
    BY DEF x
  <2> HIDE DEF start
  <2>4. QED
    BY <1>2, <2>1, <2>2, <2>3
<1>6. ASSUME NEW k \in 1 .. q - 1
      PROVE  start(k + 1) = start(k) + step
  <2> HIDE DEF step
  <2>1. ((k + 1) - 1) * step = ((k - 1) * step) + step /\ (k - 1) * step \in Nat
    BY <1>2, <1>3
  <2>2. QED
    BY <1>2, <2>1
<1>7. start(1) = s.from
  <2> HIDE DEF step
  <2>1. QED
    BY <1>2
<1>8. end(q) = s.to
  <2> DEFINE y == (q - 1) * step
  <2> HIDE DEF len, step
  <2>1. y \in Nat /\ y = (q * step) - step
    BY <1>2, <1>3, <1>4
  <2>2. start(q) = s.from + y
    OBVIOUS
  <2> HIDE DEF start, y
  <2>3. start(q) + size >= s.to
    BY <1>2, <1>3, <2>1, <2>2
  <2>4. QED
    BY <1>2, <2>1, <2>2, <2>3
<1>9. len > size => q > 1
  <2> HIDE DEF len, step
  <2>1. CASE q = 1
    BY <1>2, <1>3, <2>1
  <2>2. QED
    BY <1>3, <1>4, <2>1
<1>10. \A k \in 1 .. q : /\ w[k].block = s.block
                         /\ w[k].from = start(k) /\ w[k].to = end(k)
  BY DEF Span
<1> HIDE DEF start, end
<1>11. ASSUME NEW k \in 1 .. q PROVE w[k] \in Piece
  <2>1. w[k] = [block |-> s.block, from |-> start(k), to |-> end(k)]
    BY DEF Span
  <2>2. QED
    BY <1>2, <1>5, <2>1 DEF Piece
<1>12. w \in [1 .. q -> Piece] /\ DOMAIN w = 1 .. q
  BY <1>11
<1>13. w \in Seq(Piece)
  BY <1>3, <1>12, IsASeq
<1> HIDE DEF w
<1>14. Len(w) = q
  <2>1. Len(w) \in Nat /\ 1 .. Len(w) = 1 .. q
    BY <1>12, <1>13, LenProperties
  <2>2. QED
    BY <1>3, <2>1
<1>15. w # <<>>
  BY <1>4, <1>13, <1>14, EmptySeq
<1>16. 1 \in 1 .. q /\ q \in 1 .. q
  BY <1>3, <1>4
<1>17. SameEnds(w, <<s>>)
  <2>1. Len(<<s>>) = 1 /\ (<<s>>)[1] = s
    OBVIOUS
  <2>2. QED
    BY <1>7, <1>8, <1>10, <1>14, <1>16, <2>1 DEF SameEnds
<1>18. BlocksOf(w) \subseteq BlocksOf(<<s>>)
  <2>1. BlocksOf(<<s>>) = {s.block}
    BY OneSpan
  <2>2. QED
    BY <1>10, <1>14, <2>1 DEF BlocksOf
<1>19. Linked(w)
  <2>1. SUFFICES ASSUME NEW k \in 1 .. q - 1 PROVE Overlaps(w[k], w[k + 1])
    BY <1>14 DEF Linked
  <2>2. k \in 1 .. q /\ k + 1 \in 1 .. q
    BY <1>3
  <2> DEFINE a == start(k)
             b == start(k + 1)
             c == end(k)
             d == end(k + 1)
  <2>3. /\ w[k].block = s.block /\ w[k].from = a /\ w[k].to = c
        /\ w[k + 1].block = s.block /\ w[k + 1].from = b /\ w[k + 1].to = d
    BY <1>10, <2>2
  <2>4. /\ a \in Nat /\ b \in Nat /\ a < s.to /\ b < s.to /\ b = a + step
        /\ c = (IF a + size < s.to THEN a + size ELSE s.to)
        /\ d = (IF b + size < s.to THEN b + size ELSE s.to)
    BY <1>5, <1>6, <2>2 DEF end
  <2> HIDE DEF a, b, c, d, step
  <2>5. a < b /\ b <= c /\ c <= d
    BY <1>2, <2>4
  <2>6. QED
    BY <2>3, <2>5 DEF Overlaps
<1>20. Covers(w, <<s>>)
  BY <1>13, <1>15, <1>17, <1>18, <1>19, OneSpan DEF Covers
<1>21. ASSUME NEW k \in 1 .. Len(w)
       PROVE  /\ w[k].block = s.block /\ w[k].to - w[k].from <= size
              /\ s.from <= w[k].from /\ w[k].to <= s.to
  BY <1>5, <1>10, <1>14
<1>22. QED
  BY <1>1, <1>9, <1>13, <1>14, <1>15, <1>20, <1>21

-----------------------------------------------------------------------------
(* The parts of a section that is too long.                                *)

(* Bodies of one span each, flattened, are the spans.                      *)
LEMMA FlattenSingles ==
  ASSUME NEW w \in Seq(Piece)
  PROVE  /\ [k \in DOMAIN w |-> <<w[k]>>] \in Seq(Seq(Piece))
         /\ Len([k \in DOMAIN w |-> <<w[k]>>]) = Len(w)
         /\ FlattenSeq([k \in DOMAIN w |-> <<w[k]>>]) = w
<1> DEFINE n == Len(w)
           g == [k \in DOMAIN w |-> <<w[k]>>]
<1>1. n \in Nat /\ DOMAIN w = 1 .. n /\ \A k \in 1 .. n : w[k] \in Piece
  BY LenProperties, ElementOfSeq
<1>2. \A k \in 1 .. n : g[k] = <<w[k]>> /\ g[k] \in Seq(Piece)
  BY <1>1
<1>3. g \in [1 .. n -> Seq(Piece)] /\ DOMAIN g = 1 .. n
  BY <1>1, <1>2
<1>4. g \in Seq(Seq(Piece))
  BY <1>1, <1>3, IsASeq
<1> HIDE DEF g
<1>5. Len(g) = n
  <2>1. Len(g) \in Nat /\ 1 .. Len(g) = 1 .. n
    BY <1>3, <1>4, LenProperties
  <2>2. QED
    BY <1>1, <2>1
<1>6. PICK f : Flattens(f, g, Piece) /\ FlattenSeq(g) = f[n]
  BY <1>4, <1>5, FlattenDef
<1> DEFINE Alike(p, k) == p \in Seq(Piece) /\ Len(p) = k /\ \A i \in 1 .. k : p[i] = w[i]
           T == {k \in 0 .. n : Alike(f[k], k)}
<1>7. 0 \in T
  <2>1. f[0] = <<>> /\ <<>> \in Seq(Piece) /\ Len(<<>>) = 0
    BY <1>6, EmptySeq DEF Flattens
  <2>2. Alike(f[0], 0)
    BY <2>1
  <2>3. QED
    BY <1>1, <2>2
<1>8. ASSUME NEW k \in 1 .. n, k - 1 \in T PROVE k \in T
  <2> DEFINE was == f[k - 1]
  <2>1. f[k] = was \o <<w[k]>> /\ w[k] \in Piece
    BY <1>1, <1>2, <1>5, <1>6 DEF Flattens
  <2>2. Alike(was, k - 1)
    BY <1>8
  <2> HIDE DEF was
  <2>3. was \in Seq(Piece) /\ Len(was) = k - 1 /\ \A i \in 1 .. k - 1 : was[i] = w[i]
    BY <2>2
  <2>4. f[k] = Append(was, w[k])
    BY <2>1, <2>3, AppendIsConcat
  <2>5. /\ f[k] \in Seq(Piece)
        /\ Len(f[k]) = (k - 1) + 1 /\ (k - 1) + 1 = k
        /\ f[k][(k - 1) + 1] = w[k]
        /\ \A i \in 1 .. k - 1 : f[k][i] = was[i]
    BY <1>1, <2>1, <2>3, <2>4, AppendProperties
  <2>6. ASSUME NEW i \in 1 .. k PROVE f[k][i] = w[i]
    <3>1. CASE i = k
      BY <2>5, <3>1
    <3>2. CASE i # k
      <4>1. i \in 1 .. k - 1
        BY <3>2
      <4>2. QED
        BY <2>3, <2>5, <4>1
    <3>3. QED
      BY <3>1, <3>2
  <2>7. Alike(f[k], k) /\ k \in 0 .. n
    BY <1>1, <2>5, <2>6
  <2> HIDE DEF Alike
  <2>8. QED
    BY <2>7
<1>9. \A k \in 0 .. n : k \in T
  <2> HIDE DEF T
  <2>1. QED
    BY <1>1, <1>7, <1>8, InductionUpTo
<1>10. Alike(f[n], n)
  BY <1>1, <1>9
<1>11. f[n] = w
  BY <1>10, SeqEqual
<1>12. QED
  BY <1>4, <1>5, <1>6, <1>11 DEF g

(* No part has more of any blocks than the whole.                          *)
PartOf(p, body) == \A B : LengthIn(p, B) <= LengthIn(body, B)

Part(p, body) ==
  p # <<>> /\ p \in Seq(Piece) /\ Length(p) <= MaxLen /\ PartOf(p, body)

LEMMA PartSelf ==
  ASSUME NEW body \in Seq(Piece)
  PROVE  PartOf(body, body)
<1>1. \A B : LengthIn(body, B) \in Nat
  BY LengthType
<1>2. QED
  BY <1>1 DEF PartOf

LEMMA PartTransitive ==
  ASSUME NEW p \in Seq(Piece), NEW q \in Seq(Piece), NEW body \in Seq(Piece),
         Part(p, q), PartOf(q, body)
  PROVE  Part(p, body)
<1>1. \A B : LengthIn(p, B) \in Nat /\ LengthIn(q, B) \in Nat /\ LengthIn(body, B) \in Nat
  BY LengthType
<1>2. \A B : LengthIn(p, B) <= LengthIn(q, B) /\ LengthIn(q, B) <= LengthIn(body, B)
  BY DEF Part, PartOf
<1>3. ASSUME NEW B PROVE LengthIn(p, B) <= LengthIn(body, B)
  <2> DEFINE x == LengthIn(p, B)
             y == LengthIn(q, B)
             z == LengthIn(body, B)
  <2>1. x \in Nat /\ y \in Nat /\ z \in Nat /\ x <= y /\ y <= z
    BY <1>1, <1>2
  <2> HIDE DEF x, y, z
  <2>2. x <= z
    BY <2>1
  <2>3. QED
    BY <2>2 DEF x, z
<1>4. QED
  BY <1>3 DEF Part, PartOf

(* The parts of the parts are parts.                                       *)
LEMMA PartsOfFlattened ==
  ASSUME NEW bb \in Seq(Seq(Piece)), NEW i \in 1 .. Len(bb)
  PROVE  PartOf(bb[i], FlattenSeq(bb))
<1> DEFINE n == Len(bb)
<1>1. n \in Nat /\ \A k \in 1 .. n : bb[k] \in Seq(Piece)
  BY LenProperties, ElementOfSeq
<1>2. PICK f : Flattens(f, bb, Piece) /\ FlattenSeq(bb) = f[n]
  BY FlattenDef
<1> DEFINE T == {k \in 0 .. n : k >= i => PartOf(bb[i], f[k])}
<1>3. 0 \in T
  BY <1>1
<1>4. ASSUME NEW k \in 1 .. n, k - 1 \in T PROVE k \in T
  <2> SUFFICES ASSUME k >= i PROVE PartOf(bb[i], f[k])
    BY <1>1
  <2>1. f[k] = f[k - 1] \o bb[k] /\ f[k - 1] \in Seq(Piece) /\ bb[k] \in Seq(Piece)
        /\ bb[i] \in Seq(Piece)
    <3>1. k - 1 \in 0 .. n /\ bb[i] \in Seq(Piece) /\ bb[k] \in Seq(Piece)
      BY <1>1
    <3>2. f[k] = f[k - 1] \o bb[k] /\ f \in [0 .. n -> Seq(Piece)]
      BY <1>2 DEF Flattens
    <3>3. QED
      BY <3>1, <3>2
  <2>2. SUFFICES ASSUME NEW B PROVE LengthIn(bb[i], B) <= LengthIn(f[k], B)
    BY DEF PartOf
  <2>3. /\ LengthIn(f[k], B) = Joint(LengthIn(f[k - 1], B), LengthIn(bb[k], B))
        /\ LengthIn(f[k - 1], B) \in Nat /\ LengthIn(bb[k], B) \in Nat
        /\ LengthIn(bb[i], B) \in Nat
    BY <2>1, LengthConcat, LengthType
  <2>4. LengthIn(bb[i], B) <= LengthIn(f[k - 1], B) \/ LengthIn(bb[i], B) = LengthIn(bb[k], B)
    <3>1. CASE i = k
      BY <3>1
    <3>2. CASE i # k
      <4>1. k - 1 >= i
        BY <3>2
      <4>2. QED
        BY <1>4, <4>1 DEF PartOf
    <3>3. QED
      BY <3>1, <3>2
  <2>5. QED
    BY <2>3, <2>4, ChunkerAssumption DEF Joint
<1>5. \A k \in 0 .. n : k \in T
  <2> HIDE DEF T
  <2>1. QED
    BY <1>1, <1>3, <1>4, InductionUpTo
<1>6. n \in 0 .. n /\ n >= i
  BY <1>1
<1>7. QED
  BY <1>2, <1>5, <1>6

(* The parts ps of a body.                                                 *)
Parts(ps, body) ==
  /\ ps \in Seq(Seq(Piece)) /\ ps # <<>>
  /\ Covers(FlattenSeq(ps), body)
  /\ \A k \in 1 .. Len(ps) : Part(ps[k], body)

(* A body that fits is its own part; a paragraph that does not is cut into *)
(* windows.                                                                *)
LEMMA WindowedHolds ==
  ASSUME NEW body \in Seq(Piece), Fits(body)
  PROVE  /\ Parts(Windowed(body), body)
         /\ Length(body) > MaxLen => Len(Windowed(body)) > 1
<1>1. Length(body) \in Nat /\ body # <<>> /\ MaxLen \in Nat
  BY LengthType, ChunkerAssumption DEF Length, Fits
<1>2. CASE Length(body) <= MaxLen
  <2>1. Windowed(body) = <<body>>
    BY <1>2 DEF Windowed
  <2>2. /\ <<body>> \in Seq(Seq(Piece)) /\ <<body>> # <<>> /\ Len(<<body>>) = 1
        /\ (<<body>>)[1] = body /\ FlattenSeq(<<body>>) = body
    BY FlattenOne
  <2>3. Part(body, body)
    BY <1>1, <1>2, PartSelf DEF Part
  <2>4. Covers(FlattenSeq(<<body>>), body)
    BY <2>2, CoversSelf
  <2>5. Parts(<<body>>, body)
    BY <2>2, <2>3, <2>4 DEF Parts
  <2>6. QED
    BY <1>1, <1>2, <2>1, <2>5
<1>3. CASE Length(body) > MaxLen
  <2> DEFINE s == body[1]
             w == Windows(s, MaxLen)
             ps == [k \in DOMAIN w |-> <<w[k]>>]
  <2>1. Len(body) = 1 /\ ~(Length(body) <= MaxLen)
    BY <1>1, <1>3 DEF Fits
  <2>2. s \in Piece
    BY <2>1, ElementOfSeq
  <2>3. body = <<s>>
    <3>1. <<s>> \in Seq(Piece) /\ Len(<<s>>) = 1 /\ (<<s>>)[1] = s
      BY <2>2
    <3>2. \A i \in 1 .. Len(body) : body[i] = (<<s>>)[i]
      BY <2>1
    <3> HIDE DEF s
    <3>3. QED
      BY <2>1, <3>1, <3>2, SeqEqual
  <2>4. Windowed(body) = ps
    BY <2>1 DEF Windowed
  <2> HIDE DEF s
  <2>5. /\ w \in Seq(Piece) /\ w # <<>> /\ Covers(w, <<s>>)
        /\ \A k \in 1 .. Len(w) : /\ w[k].block = s.block /\ w[k].to - w[k].from <= MaxLen
                                  /\ s.from <= w[k].from /\ w[k].to <= s.to
        /\ s.to - s.from > MaxLen => Len(w) > 1
    <3>1. Overlap < MaxLen
      BY ChunkerAssumption
    <3>2. QED
      BY <1>1, <2>2, <3>1, WindowsHold
  <2> HIDE DEF w
  <2>6. ps \in Seq(Seq(Piece)) /\ Len(ps) = Len(w) /\ FlattenSeq(ps) = w
    BY <2>5, FlattenSingles
  <2>7. \A k \in 1 .. Len(w) : ps[k] = <<w[k]>> /\ w[k] \in Piece
    BY <2>5, LenProperties, ElementOfSeq
  <2> HIDE DEF ps
  <2>8. ps # <<>>
    BY <2>5, <2>6, EmptySeq
  <2>9. ASSUME NEW k \in 1 .. Len(ps) PROVE Part(ps[k], body)
    <3> DEFINE x == w[k]
    <3>1. /\ ps[k] = <<x>> /\ x \in Piece
          /\ x.block = s.block /\ x.to - x.from <= MaxLen
          /\ s.from <= x.from /\ x.to <= s.to
      BY <2>5, <2>6, <2>7
    <3> HIDE DEF x
    <3>2. Length(<<x>>) <= MaxLen
      BY <3>1, LengthOne
    <3>3. ASSUME NEW B PROVE LengthIn(<<x>>, B) <= LengthIn(<<s>>, B)
      <4>1. <<x>> = Append(<<>>, x) /\ <<s>> = Append(<<>>, s) /\ <<>> \in Seq(Piece)
        BY EmptySeq
      <4>2. LengthIn(<<x>>, B) = Longer(B, 0, x) /\ LengthIn(<<s>>, B) = Longer(B, 0, s)
        BY <2>2, <3>1, <4>1, LengthAppend, LengthEmpty
      <4>3. QED
        BY <2>2, <3>1, <4>2, PieceType DEF Longer
    <3>4. PartOf(<<x>>, body)
      BY <2>3, <3>3 DEF PartOf
    <3>5. QED
      BY <3>1, <3>2, <3>4, OneSpan DEF Part
  <2>10. s.to - s.from > MaxLen
    BY <1>3, <2>2, <2>3, LengthOne
  <2>11. Parts(ps, body)
    BY <2>3, <2>5, <2>6, <2>8, <2>9 DEF Parts
  <2>12. QED
    BY <2>4, <2>5, <2>6, <2>10, <2>11
<1>4. QED
  BY <1>1, <1>2, <1>3

PiecesOf(body) ==
  IF Length(body) <= MaxLen THEN <<body>>
  ELSE FlattenSeq([k \in DOMAIN Packed(body) |-> Windowed(Packed(body)[k])])

(* The pieces of a section cover it and keep within the limit.             *)
LEMMA PiecesHold ==
  ASSUME NEW body \in Seq(Piece), body # <<>>
  PROVE  /\ Parts(PiecesOf(body), body)
         /\ Length(body) > MaxLen => Len(PiecesOf(body)) > 1
<1>1. Length(body) \in Nat /\ MaxLen \in Nat
  BY LengthType, ChunkerAssumption DEF Length
<1>2. CASE Length(body) <= MaxLen
  <2>1. Fits(body) /\ PiecesOf(body) = Windowed(body)
    BY <1>2 DEF Fits, PiecesOf, Windowed
  <2>2. QED
    BY <2>1, WindowedHolds
<1>3. CASE Length(body) > MaxLen
  <2> DEFINE p == Packed(body)
             n == Len(p)
             v == [k \in DOMAIN p |-> Windowed(p[k])]
  <2>1. PiecesOf(body) = FlattenSeq(v)
    BY <1>1, <1>3 DEF PiecesOf
  <2>2. /\ p \in Seq(Seq(Piece)) /\ p # <<>> /\ FlattenSeq(p) = body
        /\ \A j \in 1 .. n : Fits(p[j])
    BY PackedHolds
  <2> HIDE DEF p
  <2>3. /\ n \in Nat /\ n > 0 /\ DOMAIN p = 1 .. n
        /\ \A k \in 1 .. n : p[k] \in Seq(Piece)
    BY <2>2, LenProperties, EmptySeq, ElementOfSeq
  <2>4. ASSUME NEW k \in 1 .. n
        PROVE  v[k] = Windowed(p[k]) /\ Parts(v[k], p[k]) /\ v[k] \in Seq(Seq(Piece))
    <3>1. v[k] = Windowed(p[k])
      BY <2>3
    <3>2. Parts(Windowed(p[k]), p[k])
      BY <2>2, <2>3, WindowedHolds
    <3>3. QED
      BY <3>1, <3>2 DEF Parts
  <2>5. v \in [1 .. n -> Seq(Seq(Piece))] /\ DOMAIN v = 1 .. n
    BY <2>3, <2>4
  <2>6. v \in Seq(Seq(Seq(Piece)))
    BY <2>3, <2>5, IsASeq
  <2> HIDE DEF v
  <2>7. Len(v) = n
    <3>1. Len(v) \in Nat /\ 1 .. Len(v) = 1 .. n
      BY <2>5, <2>6, LenProperties
    <3>2. QED
      BY <2>3, <3>1
  <2>8. PICK f : Flattens(f, v, Seq(Piece)) /\ FlattenSeq(v) = f[n]
    BY <2>6, <2>7, FlattenDef
  <2>9. PICK g : Flattens(g, p, Piece) /\ FlattenSeq(p) = g[n]
    BY <2>2, FlattenDef
  <2> DEFINE Done(k) == /\ f[k] \in Seq(Seq(Piece)) /\ Len(f[k]) >= k
                        /\ Covers(FlattenSeq(f[k]), g[k])
                        /\ \A j \in 1 .. Len(f[k]) : Part(f[k][j], body)
             T == {k \in 0 .. n : Done(k)}
  <2>10. 0 \in T
    <3>1. f[0] = <<>> /\ g[0] = <<>>
      BY <2>8, <2>9 DEF Flattens
    <3>2. <<>> \in Seq(Seq(Piece)) /\ <<>> \in Seq(Piece) /\ Len(<<>>) = 0
      BY EmptySeq
    <3>3. Covers(FlattenSeq(<<>>), <<>>)
      BY <3>2, FlattenEmpty, CoversSelf
    <3>4. Done(0)
      BY <3>1, <3>2, <3>3
    <3> HIDE DEF Done
    <3>5. QED
      BY <2>3, <3>4
  <2>11. ASSUME NEW k \in 1 .. n, k - 1 \in T PROVE k \in T
    <3> DEFINE was == f[k - 1]
               new == was \o v[k]
    <3>1. f[k] = new /\ g[k] = g[k - 1] \o p[k]
      BY <2>7, <2>8, <2>9 DEF Flattens
    <3>2. /\ was \in Seq(Seq(Piece)) /\ Len(was) >= k - 1
          /\ Covers(FlattenSeq(was), g[k - 1])
          /\ \A j \in 1 .. Len(was) : Part(was[j], body)
      BY <2>11
    <3> HIDE DEF was
    <3>3. Parts(v[k], p[k]) /\ v[k] \in Seq(Seq(Piece)) /\ v[k] # <<>>
      BY <2>4 DEF Parts
    <3>4. /\ new \in Seq(Seq(Piece)) /\ Len(new) = Len(was) + Len(v[k])
          /\ \A i \in 1 .. Len(was) + Len(v[k]) :
               new[i] = IF i <= Len(was) THEN was[i] ELSE v[k][i - Len(was)]
          /\ FlattenSeq(new) = FlattenSeq(was) \o FlattenSeq(v[k])
      BY <3>2, <3>3, ConcatProperties, FlattenConcat
    <3> HIDE DEF new
    <3>5. Covers(FlattenSeq(new), g[k])
      BY <3>1, <3>2, <3>3, <3>4, CoversConcat DEF Parts
    <3>6. Len(was) \in Nat /\ Len(v[k]) \in Nat /\ Len(v[k]) > 0
      BY <3>2, <3>3, LenProperties, EmptySeq
    <3>7. PartOf(p[k], body)
      BY <2>2, PartsOfFlattened
    <3>8. ASSUME NEW j \in 1 .. Len(new) PROVE Part(new[j], body)
      <4>1. CASE j <= Len(was)
        <5>1. j \in 1 .. Len(was) /\ new[j] = was[j]
          BY <3>4, <3>6, <4>1
        <5>2. QED
          BY <3>2, <5>1
      <4>2. CASE ~(j <= Len(was))
        <5> DEFINE i == j - Len(was)
        <5>1. i \in 1 .. Len(v[k]) /\ new[j] = v[k][i]
          BY <3>4, <3>6, <4>2
        <5> HIDE DEF i
        <5>2. Part(v[k][i], p[k])
          BY <3>3, <5>1 DEF Parts
        <5>3. v[k][i] \in Seq(Piece) /\ p[k] \in Seq(Piece)
          BY <2>3, <5>2 DEF Part
        <5>4. QED
          BY <3>7, <5>1, <5>2, <5>3, PartTransitive
      <4>3. QED
        BY <4>1, <4>2
    <3>9. Len(new) >= k
      BY <3>2, <3>4, <3>6
    <3>10. Done(k)
      BY <3>1, <3>4, <3>5, <3>8, <3>9
    <3> HIDE DEF Done
    <3>11. QED
      BY <2>3, <3>10
  <2>12. \A k \in 0 .. n : k \in T
    <3> HIDE DEF T
    <3>1. QED
      BY <2>3, <2>10, <2>11, InductionUpTo
  <2>13. Done(n)
    BY <2>3, <2>12
  <2>14. Len(f[n]) > 1
    <3>1. CASE n = 1
      <4>1. 1 \in 1 .. n /\ 1 - 1 = 0
        BY <2>3
      <4>2. f[1] = <<>> \o v[1] /\ g[1] = <<>> \o p[1]
        BY <2>7, <2>8, <2>9, <4>1 DEF Flattens
      <4>3. f[1] = v[1] /\ g[1] = p[1]
        BY <2>3, <2>4, <4>1, <4>2, ConcatEmptySeq
      <4>4. p[1] = body
        BY <2>2, <2>9, <3>1, <4>3
      <4>5. Len(Windowed(p[1])) > 1
        BY <1>3, <2>2, <4>1, <4>4, WindowedHolds
      <4>6. QED
        BY <2>4, <3>1, <4>1, <4>3, <4>5
    <3>2. CASE n # 1
      <4>1. Len(f[n]) \in Nat
        BY <2>13, LenProperties
      <4>2. QED
        BY <2>3, <2>13, <3>2, <4>1
    <3>3. QED
      BY <3>1, <3>2
  <2>15. Parts(f[n], body)
    <3>1. f[n] # <<>>
      BY <2>14, EmptySeq
    <3>2. QED
      BY <2>2, <2>9, <2>13, <3>1 DEF Parts
  <2>16. QED
    BY <2>1, <2>8, <2>14, <2>15
<1>4. QED
  BY <1>1, <1>2, <1>3

-----------------------------------------------------------------------------
(* Chunks.                                                                 *)

ChunkType == [anchor : Nat, part : Nat, of : Nat, body : Seq(Piece)]

Sound(c) ==
  c.body # <<>> /\ Length(c.body) <= MaxLen /\ Cites(c.body, c.anchor)

(* The parts of a section are numbered through.                            *)
Numbered(cs) ==
  \A k \in 1 .. Len(cs) :
    cs[k].part > 1 => /\ k > 1 /\ cs[k - 1].part = cs[k].part - 1
                      /\ cs[k - 1].anchor = cs[k].anchor

Chunked(cs) ==
  /\ cs \in Seq(ChunkType)
  /\ \A k \in 1 .. Len(cs) : Sound(cs[k])
  /\ Numbered(cs)

LEMMA ChunkBodies == WithBodies(ChunkType)
BY DEF WithBodies, ChunkType

(* The chunks of one section behind those of others.                       *)
LEMMA ChunkedConcat ==
  ASSUME NEW cs, NEW ds, Chunked(cs), Chunked(ds)
  PROVE  Chunked(cs \o ds)
<1> DEFINE es == cs \o ds
           m == Len(cs)
           n == Len(ds)
<1>1. cs \in Seq(ChunkType) /\ ds \in Seq(ChunkType) /\ m \in Nat /\ n \in Nat
  BY LenProperties DEF Chunked
<1>2. /\ es \in Seq(ChunkType) /\ Len(es) = m + n
      /\ \A i \in 1 .. m + n : es[i] = IF i <= m THEN cs[i] ELSE ds[i - m]
  BY <1>1, ConcatProperties
<1> HIDE DEF es, m, n
<1>3. /\ \A k \in 1 .. m : Sound(cs[k])
      /\ \A k \in 1 .. n : Sound(ds[k])
  BY DEF Chunked, m, n
<1>4. /\ \A k \in 1 .. m : cs[k].part > 1 => /\ k > 1 /\ cs[k - 1].part = cs[k].part - 1
                                             /\ cs[k - 1].anchor = cs[k].anchor
      /\ \A k \in 1 .. n : ds[k].part > 1 => /\ k > 1 /\ ds[k - 1].part = ds[k].part - 1
                                             /\ ds[k - 1].anchor = ds[k].anchor
  BY DEF Chunked, Numbered, m, n
<1>5. ASSUME NEW k \in 1 .. m + n
      PROVE  /\ Sound(es[k])
             /\ es[k].part > 1 => /\ k > 1 /\ es[k - 1].part = es[k].part - 1
                                  /\ es[k - 1].anchor = es[k].anchor
  <2>1. CASE k <= m
    <3>1. k \in 1 .. m /\ es[k] = cs[k]
      BY <1>1, <1>2, <2>1
    <3>2. k > 1 => es[k - 1] = cs[k - 1]
      <4>1. SUFFICES ASSUME k > 1 PROVE es[k - 1] = cs[k - 1]
        OBVIOUS
      <4>2. k - 1 \in 1 .. m + n /\ k - 1 <= m
        BY <1>1, <2>1, <4>1
      <4>3. QED
        BY <1>2, <4>2
    <3>3. QED
      BY <1>3, <1>4, <3>1, <3>2
  <2>2. CASE ~(k <= m)
    <3> DEFINE i == k - m
    <3>1. i \in 1 .. n /\ es[k] = ds[i] /\ (i > 1 => k > 1)
      BY <1>1, <1>2, <2>2
    <3>2. i > 1 => es[k - 1] = ds[i - 1]
      <4>1. SUFFICES ASSUME i > 1 PROVE es[k - 1] = ds[i - 1]
        OBVIOUS
      <4>2. k - 1 \in 1 .. m + n /\ ~(k - 1 <= m) /\ (k - 1) - m = i - 1
        BY <1>1, <2>2, <4>1
      <4>3. QED
        BY <1>2, <4>2
    <3> HIDE DEF i
    <3>3. QED
      BY <1>3, <1>4, <3>1, <3>2
  <2>3. QED
    BY <2>1, <2>2
<1>6. Numbered(es)
  BY <1>2, <1>5 DEF Numbered
<1>7. QED
  BY <1>2, <1>5, <1>6 DEF Chunked, es

(* Every part of a body that is cited rightly is cited rightly.            *)
LEMMA CitesPart ==
  ASSUME NEW p \in Seq(Piece), NEW body \in Seq(Piece), NEW a, PartOf(p, body),
         Cites(body, a)
  PROVE  Cites(p, a)
<1> DEFINE E == Earlier(a)
           L == Later(a)
<1>1. /\ LengthIn(p, E) \in Nat /\ LengthIn(p, L) \in Nat
      /\ LengthIn(body, E) \in Nat /\ LengthIn(body, L) \in Nat
  BY LengthType
<1>2. LengthIn(p, E) <= LengthIn(body, E) /\ LengthIn(p, L) <= LengthIn(body, L)
  BY DEF PartOf
<1>3. LengthIn(body, E) < MinLen /\ LengthIn(body, L) < MinLen
  BY DEF Cites
<1> HIDE DEF E, L
<1>4. LengthIn(p, E) < MinLen /\ LengthIn(p, L) < MinLen
  BY <1>1, <1>2, <1>3, ChunkerAssumption
<1>5. QED
  BY <1>4 DEF Cites, E, L

(* The chunks of one section.                                              *)
LEMMA SplitLongHolds ==
  ASSUME NEW s \in Sect, s.body # <<>>, Cites(s.body, s.anchor)
  PROVE  /\ Chunked(SplitLong(s)) /\ SplitLong(s) # <<>>
         /\ Covers(Held(SplitLong(s)), s.body)
         /\ \A k \in 1 .. Len(SplitLong(s)) :
              \/ SplitLong(s)[k].of > 1
              \/ Len(SplitLong(s)) = 1 /\ SplitLong(s)[k].body = s.body
<1> DEFINE ps == PiecesOf(s.body)
           n == Len(ps)
           cs == [k \in DOMAIN ps |-> Chunk(s.anchor, k, n, ps[k])]
<1>1. SplitLong(s) = cs
  BY DEF SplitLong, PiecesOf
<1>2. s.body \in Seq(Piece) /\ s.anchor \in Nat
  BY DEF Sect
<1>3. Parts(ps, s.body) /\ (Length(s.body) > MaxLen => n > 1)
  BY <1>2, PiecesHold
<1>4. ~(Length(s.body) > MaxLen) => ps = <<s.body>>
  <2>1. Length(s.body) \in Nat /\ MaxLen \in Nat
    BY <1>2, LengthType, ChunkerAssumption DEF Length
  <2>2. QED
    BY <2>1 DEF PiecesOf
<1> HIDE DEF ps
<1>5. /\ ps \in Seq(Seq(Piece)) /\ ps # <<>> /\ Covers(FlattenSeq(ps), s.body)
      /\ \A k \in 1 .. n : Part(ps[k], s.body)
  BY <1>3 DEF Parts
<1>6. n \in Nat /\ n > 0 /\ DOMAIN ps = 1 .. n /\ \A k \in 1 .. n : ps[k] \in Seq(Piece)
  BY <1>5, LenProperties, EmptySeq, ElementOfSeq
<1> HIDE DEF n
<1>7. \A k \in 1 .. n : cs[k] = [anchor |-> s.anchor, part |-> k, of |-> n, body |-> ps[k]]
  BY <1>6 DEF Chunk
<1>8. DOMAIN cs = 1 .. n /\ \A k \in 1 .. n : cs[k] \in ChunkType
  <2>1. DOMAIN cs = 1 .. n
    BY <1>6
  <2> HIDE DEF cs
  <2>2. QED
    BY <1>2, <1>6, <1>7, <2>1 DEF ChunkType
<1>9. cs \in Seq(ChunkType)
  <2>1. cs \in [1 .. n -> ChunkType]
    BY <1>6, <1>8
  <2>2. QED
    BY <1>6, <2>1, IsASeq
<1> HIDE DEF cs
<1>10. Len(cs) = n
  <2>1. Len(cs) \in Nat /\ 1 .. Len(cs) = 1 .. n
    BY <1>8, <1>9, LenProperties
  <2>2. QED
    BY <1>6, <2>1
<1>11. cs # <<>>
  BY <1>6, <1>9, <1>10, EmptySeq
<1>12. \A k \in 1 .. n : /\ cs[k].anchor = s.anchor /\ cs[k].part = k
                         /\ cs[k].of = n /\ cs[k].body = ps[k]
  <2>1. SUFFICES ASSUME NEW k \in 1 .. n
                 PROVE  /\ cs[k].anchor = s.anchor /\ cs[k].part = k
                        /\ cs[k].of = n /\ cs[k].body = ps[k]
    OBVIOUS
  <2>2. cs[k] = [anchor |-> s.anchor, part |-> k, of |-> n, body |-> ps[k]]
    BY <1>7
  <2>3. QED
    BY <2>2
<1>13. ASSUME NEW k \in 1 .. n PROVE Sound(cs[k])
  <2>1. Part(ps[k], s.body) /\ ps[k] \in Seq(Piece)
    BY <1>5, <1>6
  <2>2. Cites(ps[k], s.anchor)
    BY <1>2, <2>1, CitesPart DEF Part
  <2>3. QED
    BY <1>12, <2>1, <2>2 DEF Sound, Part
<1>14. Numbered(cs)
  <2>1. SUFFICES ASSUME NEW k \in 1 .. n, cs[k].part > 1
                 PROVE  /\ k > 1 /\ cs[k - 1].part = cs[k].part - 1
                        /\ cs[k - 1].anchor = cs[k].anchor
    BY <1>10 DEF Numbered
  <2>2. k > 1 /\ k - 1 \in 1 .. n
    BY <1>6, <1>12, <2>1
  <2>3. QED
    BY <1>12, <2>2
<1>15. Held(cs) = FlattenSeq(ps)
  <2>1. [k \in DOMAIN cs |-> cs[k].body] = [k \in 1 .. n |-> ps[k]]
    BY <1>8, <1>12
  <2>2. ps = [k \in 1 .. n |-> ps[k]]
    BY <1>5, <1>6, LenProperties
  <2>3. QED
    BY <2>1, <2>2 DEF Held
<1>16. ASSUME NEW k \in 1 .. n PROVE cs[k].of > 1 \/ (n = 1 /\ cs[k].body = s.body)
  <2>1. CASE n = 1
    <3>1. ps = <<s.body>>
      BY <1>3, <1>4, <2>1
    <3>2. k = 1 /\ ps[k] = s.body
      BY <2>1, <3>1
    <3>3. QED
      BY <1>12, <2>1, <3>2
  <2>2. CASE n # 1
    BY <1>6, <1>12, <2>2
  <2>3. QED
    BY <2>1, <2>2
<1>17. Chunked(cs)
  BY <1>9, <1>10, <1>13, <1>14 DEF Chunked
<1>18. QED
  BY <1>1, <1>5, <1>10, <1>11, <1>15, <1>16, <1>17

Envelope(cs) ==
  \A k \in 1 .. Len(cs) :
    cs[k].of > 1 \/ Len(cs) = 1 \/ Length(cs[k].body) >= MinLen

(* The chunks of all sections.                                             *)
LEMMA FinalizeHolds ==
  ASSUME text \in Texts, NEW ss, Sectioned(ss)
  PROVE  /\ Chunked(Finalize(ss)) /\ Envelope(Finalize(ss))
         /\ Covers(Held(Finalize(ss)), Held(ss))
<1> DEFINE m == MergeShort(ss)
           n == Len(m)
           v == [k \in DOMAIN m |-> SplitLong(m[k])]
           b == [k \in DOMAIN m |-> m[k].body]
<1>1. /\ m \in Seq(Sect) /\ Held(m) = Held(ss)
      /\ \A j \in 1 .. n : /\ m[j].body # <<>> /\ Cites(m[j].body, m[j].anchor)
                           /\ Length(m[j].body) >= MinLen \/ n = 1
  BY MergeHolds
<1>2. Finalize(ss) = FlattenSeq(v)
  BY DEF Finalize
<1> HIDE DEF m
<1>3. n \in Nat /\ DOMAIN m = 1 .. n /\ \A k \in 1 .. n : m[k] \in Sect
  BY <1>1, LenProperties, ElementOfSeq
<1>4. b \in Seq(Seq(Piece)) /\ Len(b) = n
  BY <1>1, SectBodies, BodiesType
<1>5. \A k \in 1 .. n : b[k] = m[k].body
  BY <1>3
<1>6. Held(m) = FlattenSeq(b)
  BY DEF Held
<1>7. ASSUME NEW k \in 1 .. n
      PROVE  /\ v[k] = SplitLong(m[k]) /\ v[k] \in Seq(ChunkType) /\ Chunked(v[k])
             /\ Covers(Held(v[k]), b[k])
             /\ \A j \in 1 .. Len(v[k]) : \/ v[k][j].of > 1
                                          \/ Len(v[k]) = 1 /\ v[k][j].body = b[k]
  <2>1. v[k] = SplitLong(m[k])
    BY <1>3
  <2> HIDE DEF v, b
  <2>2. QED
    BY <1>1, <1>3, <1>5, <2>1, SplitLongHolds DEF Chunked
<1> HIDE DEF b
<1>8. v \in [1 .. n -> Seq(ChunkType)] /\ DOMAIN v = 1 .. n
  BY <1>3, <1>7
<1>9. v \in Seq(Seq(ChunkType))
  BY <1>3, <1>8, IsASeq
<1> HIDE DEF v, n
<1>10. Len(v) = n
  <2>1. Len(v) \in Nat /\ 1 .. Len(v) = 1 .. n
    BY <1>8, <1>9, LenProperties
  <2>2. QED
    BY <1>3, <2>1
<1>11. PICK f : Flattens(f, v, ChunkType) /\ FlattenSeq(v) = f[n]
  BY <1>9, <1>10, FlattenDef
<1>12. PICK g : Flattens(g, b, Piece) /\ FlattenSeq(b) = g[n]
  BY <1>4, FlattenDef
<1> DEFINE Long(cs) == \A j \in 1 .. Len(cs) :
                         cs[j].of > 1 \/ n = 1 \/ Length(cs[j].body) >= MinLen
           Done(k) == Chunked(f[k]) /\ Covers(Held(f[k]), g[k]) /\ Long(f[k])
           T == {k \in 0 .. n : Done(k)}
<1>13. 0 \in T
  <2>1. f[0] = <<>> /\ g[0] = <<>>
    BY <1>11, <1>12 DEF Flattens
  <2>2. <<>> \in Seq(ChunkType) /\ <<>> \in Seq(Piece) /\ Len(<<>>) = 0
    BY EmptySeq
  <2>3. Chunked(<<>>) /\ Long(<<>>)
    BY <2>2 DEF Chunked, Numbered
  <2>4. Covers(Held(<<>>), <<>>)
    BY <2>2, HeldEmpty, CoversSelf
  <2> HIDE DEF Long
  <2>5. Done(0)
    BY <2>1, <2>3, <2>4
  <2> HIDE DEF Done
  <2>6. QED
    BY <1>3, <2>5
<1>14. ASSUME NEW k \in 1 .. n, k - 1 \in T PROVE k \in T
  <2> DEFINE was == f[k - 1]
             more == v[k]
             new == was \o more
  <2>1. f[k] = new /\ g[k] = g[k - 1] \o b[k]
    BY <1>4, <1>10, <1>11, <1>12 DEF Flattens
  <2>2. Chunked(was) /\ Covers(Held(was), g[k - 1]) /\ Long(was)
    BY <1>14
  <2>3. /\ Chunked(more) /\ Covers(Held(more), b[k])
        /\ \A j \in 1 .. Len(more) : \/ more[j].of > 1
                                     \/ Len(more) = 1 /\ more[j].body = b[k]
    BY <1>7
  <2> HIDE DEF was, more
  <2>4. was \in Seq(ChunkType) /\ more \in Seq(ChunkType)
    BY <2>2, <2>3 DEF Chunked
  <2>5. Held(new) = Held(was) \o Held(more)
    BY <2>4, ChunkBodies, HeldConcat
  <2>6. Chunked(new)
    BY <2>2, <2>3, ChunkedConcat
  <2>7. /\ Len(new) = Len(was) + Len(more)
        /\ \A i \in 1 .. Len(was) + Len(more) :
             new[i] = IF i <= Len(was) THEN was[i] ELSE more[i - Len(was)]
        /\ Len(was) \in Nat /\ Len(more) \in Nat
    BY <2>4, ConcatProperties, LenProperties
  <2> HIDE DEF new
  <2>8. Covers(Held(new), g[k])
    BY <2>1, <2>2, <2>3, <2>5, CoversConcat
  <2>9. ASSUME NEW j \in 1 .. Len(new)
        PROVE  new[j].of > 1 \/ n = 1 \/ Length(new[j].body) >= MinLen
    <3>1. CASE j <= Len(was)
      <4>1. j \in 1 .. Len(was) /\ new[j] = was[j]
        BY <2>7, <3>1
      <4>2. QED
        BY <2>2, <4>1
    <3>2. CASE ~(j <= Len(was))
      <4> DEFINE i == j - Len(was)
      <4>1. i \in 1 .. Len(more) /\ new[j] = more[i]
        BY <2>7, <3>2
      <4> HIDE DEF i
      <4>2. Length(b[k]) >= MinLen \/ n = 1
        BY <1>1, <1>5 DEF n
      <4>3. QED
        BY <2>3, <4>1, <4>2
    <3>3. QED
      BY <3>1, <3>2
  <2>10. Long(new)
    BY <2>9
  <2> HIDE DEF Long
  <2>11. Done(k) /\ k \in 0 .. n
    BY <1>3, <2>1, <2>6, <2>8, <2>10
  <2> HIDE DEF Done
  <2>12. QED
    BY <2>11
<1>15. \A k \in 0 .. n : k \in T
  <2> HIDE DEF T
  <2>1. QED
    BY <1>3, <1>13, <1>14, InductionUpTo
<1>16. Done(n)
  BY <1>3, <1>15
<1>17. Envelope(f[n])
  <2>1. CASE n = 1
    <3>1. 1 \in 1 .. n /\ 1 - 1 = 0
      BY <2>1
    <3>2. f[1] = <<>> \o v[1]
      BY <1>10, <1>11, <3>1 DEF Flattens
    <3>3. f[1] = v[1]
      BY <1>7, <3>1, <3>2, ConcatEmptySeq
    <3>4. QED
      BY <1>7, <2>1, <3>1, <3>3 DEF Envelope
  <2>2. CASE n # 1
    <3>1. Long(f[n])
      BY <1>16
    <3>2. QED
      BY <2>2, <3>1 DEF Envelope
  <2>3. QED
    BY <2>1, <2>2
<1>18. Chunked(f[n]) /\ Covers(Held(f[n]), Held(ss))
  BY <1>1, <1>6, <1>12, <1>16
<1>19. QED
  BY <1>2, <1>11, <1>17, <1>18

-----------------------------------------------------------------------------
(* chunk_structured.                                                       *)

(* The chunks of a text that is not empty.                                 *)
Structured(cs) ==
  /\ Chunked(cs) /\ Envelope(cs)
  /\ \E u : Covers(Held(cs), u) /\ Tiles(u, Len(text)) /\ u # <<>>

LEMMA HeldSomething ==
  ASSUME NEW ss, Sectioned(ss), ss # <<>>
  PROVE  Held(ss) # <<>>
<1>1. ss \in Seq(Sect)
  BY DEF Sectioned
<1>2. PICK t \in Seq(Sect), e \in Sect : ss = Append(t, e)
  BY <1>1, SequenceEmptyOrAppend
<1>3. /\ Len(t) \in Nat /\ Len(ss) = Len(t) + 1 /\ ss[Len(t) + 1] = e
      /\ Len(t) + 1 \in 1 .. Len(ss)
  BY <1>2, AppendProperties, LenProperties
<1>4. e.body # <<>> /\ e.body \in Seq(Piece)
  BY <1>3 DEF Sectioned, Sect
<1>5. Held(ss) = Held(t) \o e.body /\ Held(t) \in Seq(Piece)
  BY <1>2, SectBodies, HeldAppend, HeldType
<1>6. Len(Held(ss)) = Len(Held(t)) + Len(e.body) /\ Len(Held(t)) \in Nat /\ Len(e.body) \in Nat
      /\ Len(e.body) # 0
  BY <1>4, <1>5, ConcatProperties, LenProperties, EmptySeq
<1>7. Len(Held(ss)) # 0
  BY <1>6
<1>8. Len(<<>>) = 0
  OBVIOUS
<1>9. QED
  BY <1>7, <1>8

(* The chunks of a text with sections.                                     *)
LEMMA SectionedChunks ==
  ASSUME text \in Texts, Sections(text) # <<>>
  PROVE  Structured(Finalize(Sections(text)))
<1> DEFINE ss == Sections(text)
<1>1. Sectioned(ss) /\ Tiles(Held(ss), Len(text))
  BY SectionsHold
<1>2. Held(ss) # <<>>
  BY <1>1, HeldSomething
<1> HIDE DEF ss
<1>3. /\ Chunked(Finalize(ss)) /\ Envelope(Finalize(ss))
      /\ Covers(Held(Finalize(ss)), Held(ss))
  BY <1>1, FinalizeHolds
<1>4. Structured(Finalize(ss))
  BY <1>1, <1>2, <1>3 DEF Structured
<1>5. QED
  BY <1>4 DEF ss

(* A text that is a single block is cut into windows.                      *)
LEMMA WindowChunks ==
  ASSUME text \in Texts, text # <<>>, Sections(text) = <<>>
  PROVE  Structured(ChunkStructured(text))
<1> DEFINE s == Whole(text, 1)
           w == Windows(s, WindowSize)
           n == Len(w)
           cs == [k \in DOMAIN w |-> Chunk(0, k, n, <<w[k]>>)]
<1>1. ChunkStructured(text) = cs
  BY DEF ChunkStructured
<1>2. SplitByHeadings(text) = <<>> /\ SplitByClauses(text) = <<>> /\ SplitByParagraphs(text) = <<>>
  BY DEF Sections
<1>3. Marks = {}
  BY <1>2 DEF Marks
<1>4. Len(text) = 1 /\ Bodies = {1}
  <2>1. text \in Seq(Block) /\ Len(text) \in Nat /\ DOMAIN text = 1 .. Len(text)
        /\ Bodies = 1 .. Len(text)
    BY <1>3, TextType
  <2>2. Len(text) # 0
    BY <2>1, EmptySeq
  <2>3. ~(Len(text) < 2) => FALSE
    <3>1. SUFFICES ASSUME ~(Len(text) < 2) PROVE FALSE
      OBVIOUS
    <3>2. SplitByParagraphs(text) = [b \in DOMAIN text |-> Section(0, <<Whole(text, b)>>)]
      BY <3>1 DEF SplitByParagraphs
    <3>3. DOMAIN SplitByParagraphs(text) = 1 .. Len(text)
      BY <2>1, <3>2
    <3>4. DOMAIN <<>> = {} /\ 1 \in 1 .. Len(text)
      BY <2>1, <2>2
    <3>5. QED
      BY <1>2, <3>3, <3>4
  <2>4. Len(text) = 1
    BY <2>1, <2>2, <2>3
  <2>5. QED
    BY <2>1, <2>4
<1>5. s \in Piece /\ 1 \in Bodies
  BY <1>4, TextType
<1>6. WindowSize \in Nat /\ Overlap < WindowSize /\ WindowSize <= MaxLen /\ MaxLen \in Nat
  BY ChunkerAssumption
<1> HIDE DEF s
<1>7. /\ w \in Seq(Piece) /\ w # <<>> /\ Covers(w, <<s>>)
      /\ \A k \in 1 .. n : w[k].to - w[k].from <= WindowSize
  BY <1>5, <1>6, WindowsHold
<1> HIDE DEF w
<1>8. n \in Nat /\ n > 0 /\ DOMAIN w = 1 .. n /\ \A k \in 1 .. n : w[k] \in Piece
  BY <1>7, LenProperties, EmptySeq, ElementOfSeq
<1> HIDE DEF n
<1>9. ASSUME NEW k \in 1 .. n
      PROVE  /\ cs[k] \in ChunkType
             /\ cs[k].anchor = 0 /\ cs[k].part = k /\ cs[k].of = n /\ cs[k].body = <<w[k]>>
  <2>1. cs[k] = [anchor |-> 0, part |-> k, of |-> n, body |-> <<w[k]>>]
    BY <1>8 DEF Chunk
  <2>2. <<w[k]>> \in Seq(Piece)
    BY <1>8
  <2> HIDE DEF cs
  <2>3. QED
    BY <1>8, <2>1, <2>2 DEF ChunkType
<1>10. DOMAIN cs = 1 .. n /\ cs \in [1 .. n -> ChunkType]
  BY <1>8, <1>9
<1>11. cs \in Seq(ChunkType)
  BY <1>8, <1>10, IsASeq
<1> HIDE DEF cs
<1>12. Len(cs) = n
  <2>1. Len(cs) \in Nat /\ 1 .. Len(cs) = 1 .. n
    BY <1>10, <1>11, LenProperties
  <2>2. QED
    BY <1>8, <2>1
<1>13. ASSUME NEW k \in 1 .. n PROVE Sound(cs[k])
  <2> DEFINE x == w[k]
  <2>1. x \in Piece /\ x.to - x.from <= WindowSize /\ cs[k].body = <<x>> /\ cs[k].anchor = 0
    BY <1>7, <1>8, <1>9
  <2> HIDE DEF x
  <2>2. Length(<<x>>) = x.to - x.from /\ <<x>> # <<>> /\ <<x>> \in Seq(Piece)
        /\ x.to - x.from \in Nat
    BY <2>1, LengthOne, OneSpan, PieceType
  <2>3. Earlier(0) = {} /\ Later(0) = {}
    <3>1. \A b : SectionOf(b) = 0
      BY <1>3 DEF SectionOf
    <3>2. QED
      BY <3>1 DEF Earlier, Later
  <2>4. LengthIn(<<x>>, {}) = 0
    BY <2>2, NoneOf
  <2>5. Cites(<<x>>, 0)
    <3>1. LengthIn(<<x>>, Earlier(0)) = 0 /\ LengthIn(<<x>>, Later(0)) = 0
      BY <2>3, <2>4
    <3>2. MinLen \in Nat \ {0}
      BY ChunkerAssumption
    <3>3. QED
      BY <3>1, <3>2 DEF Cites
  <2>6. Length(<<x>>) <= MaxLen
    BY <1>6, <2>1, <2>2
  <2>7. QED
    BY <2>1, <2>2, <2>5, <2>6 DEF Sound
<1>14. Numbered(cs)
  <2>1. SUFFICES ASSUME NEW k \in 1 .. n, cs[k].part > 1
                 PROVE  /\ k > 1 /\ cs[k - 1].part = cs[k].part - 1
                        /\ cs[k - 1].anchor = cs[k].anchor
    BY <1>12 DEF Numbered
  <2>2. k > 1 /\ k - 1 \in 1 .. n
    BY <1>8, <1>9, <2>1
  <2>3. QED
    BY <1>9, <2>2
<1>15. Envelope(cs)
  <2>1. \A k \in 1 .. n : cs[k].of = n
    BY <1>9
  <2>2. n > 1 \/ n = 1
    BY <1>8
  <2>3. QED
    BY <1>12, <2>1, <2>2 DEF Envelope
<1>16. Held(cs) = w
  <2>1. [k \in DOMAIN cs |-> cs[k].body] = [k \in DOMAIN w |-> <<w[k]>>]
    BY <1>8, <1>9, <1>10
  <2>2. QED
    BY <1>7, <2>1, FlattenSingles DEF Held
<1>17. Tiles(<<s>>, 1)
  <2>1. Tiles(<<>> \o <<Whole(text, 1)>>, 1)
    <3>1. Tiles(<<>>, 1 - 1)
      BY TilesNone
    <3>2. QED
      BY <1>5, <3>1, TilesAppend
  <2>2. <<>> \o <<s>> = <<s>>
    BY <1>5, OneSpan, ConcatEmptySeq
  <2>3. QED
    BY <2>1, <2>2 DEF s
<1>18. <<s>> # <<>>
  OBVIOUS
<1>19. Structured(cs)
  BY <1>4, <1>7, <1>11, <1>12, <1>13, <1>14, <1>15, <1>16, <1>17, <1>18 DEF Structured, Chunked
<1>20. QED
  BY <1>1, <1>19

(* The chunks of every text that is not empty.                             *)
LEMMA StructuredHolds ==
  ASSUME text \in Texts, text # <<>>
  PROVE  Structured(ChunkStructured(text))
<1>1. CASE Sections(text) # <<>>
  BY <1>1, SectionedChunks DEF ChunkStructured
<1>2. CASE Sections(text) = <<>>
  BY <1>2, WindowChunks
<1>3. QED
  BY <1>1, <1>2

LEMMA NoChunks ==
  ASSUME chunks = <<>>
  PROVE  ChunksKeepTheText
<1>1. DOMAIN chunks = {}
  OBVIOUS
<1>2. QED
  BY <1>1 DEF ChunksKeepTheText, EnvelopeHolds, NothingLost, CitesItsSection

(* Such chunks are what ChunksKeepTheText demands.                         *)
LEMMA StructuredKeeps ==
  ASSUME text \in Texts, Structured(chunks)
  PROVE  chunks # <<>> /\ ChunksKeepTheText
<1> DEFINE n == Len(chunks)
           s == Held(chunks)
<1>1. /\ chunks \in Seq(ChunkType) /\ Numbered(chunks) /\ Envelope(chunks)
      /\ \A k \in 1 .. n : Sound(chunks[k])
  BY DEF Structured, Chunked
<1>2. n \in Nat /\ DOMAIN chunks = 1 .. n /\ \A k \in 1 .. n : chunks[k].body \in Seq(Piece)
  <2>1. n \in Nat /\ DOMAIN chunks = 1 .. n
    BY <1>1, LenProperties
  <2>2. \A k \in 1 .. n : chunks[k] \in ChunkType
    BY <1>1, ElementOfSeq
  <2>3. QED
    BY <2>1, <2>2 DEF ChunkType
<1>3. PICK u : Covers(s, u) /\ Tiles(u, Len(text)) /\ u # <<>>
  BY DEF Structured
<1>4. s # <<>>
  BY <1>3 DEF Covers
<1>5. chunks # <<>>
  BY <1>4, HeldEmpty
<1>6. EnvelopeHolds
  <2>1. SUFFICES ASSUME NEW k \in 1 .. n
                 PROVE  /\ 0 < Length(chunks[k].body) /\ Length(chunks[k].body) <= MaxLen
                        /\ \/ Length(chunks[k].body) >= MinLen
                           \/ Len(chunks) = 1 \/ chunks[k].of > 1
    BY <1>2 DEF EnvelopeHolds
  <2>2. chunks[k].body # <<>> /\ Length(chunks[k].body) <= MaxLen
    BY <1>1 DEF Sound
  <2>3. Length(chunks[k].body) \in Nat /\ Length(chunks[k].body) > 0
    BY <1>2, <2>2, LengthPositive
  <2>4. QED
    BY <1>1, <2>2, <2>3 DEF Envelope
<1>7. CitesItsSection
  <2>1. \A k \in 1 .. n : Cites(chunks[k].body, chunks[k].anchor)
    BY <1>1 DEF Sound
  <2>2. QED
    BY <1>1, <1>2, <2>1 DEF CitesItsSection, Cites, Earlier, Later, Numbered
<1>8. NothingLost
  <2>1. Spans = s
    BY DEF Spans, Held
  <2> HIDE DEF s
  <2>2. /\ s \in Seq(Piece) /\ SameEnds(s, u) /\ BlocksOf(s) \subseteq BlocksOf(u)
        /\ Linked(s)
    BY <1>3, <1>4 DEF Covers, Tiles
  <2>3. DOMAIN s = 1 .. Len(s) /\ Len(s) \in Nat
    BY <2>2, LenProperties
  <2>4. /\ BlocksOf(u) \subseteq Bodies
        /\ u[1].from = 0 /\ u[Len(u)].to = text[u[Len(u)].block].len
        /\ ~\E c \in Bodies : c < u[1].block
        /\ ~\E c \in Bodies : u[Len(u)].block < c /\ c <= Len(text)
    BY <1>3 DEF Tiles
  <2>5. \A b \in Bodies : b <= Len(text)
    BY TextType
  <2>6. \A j \in DOMAIN s : s[j].block \in Bodies
    BY <2>2, <2>3, <2>4 DEF BlocksOf
  <2>7. ~\E b \in Bodies : b < s[1].block \/ s[Len(s)].block < b
    BY <2>2, <2>4, <2>5 DEF SameEnds
  <2>8. s[1].from = 0 /\ s[Len(s)].to = text[s[Len(s)].block].len
    BY <2>2, <2>4 DEF SameEnds
  <2>9. \A j \in 1 .. Len(s) - 1 : Overlaps(s[j], s[j + 1]) \/ NextTo(s[j], s[j + 1])
    BY <2>2 DEF Linked
  <2>10. QED
    BY <1>4, <2>1, <2>6, <2>7, <2>8, <2>9 DEF NothingLost, Overlaps, NextTo
<1>9. QED
  BY <1>5, <1>6, <1>7, <1>8 DEF ChunksKeepTheText

-----------------------------------------------------------------------------
(* Ids as text.                                                            *)

Positive == Nat \ {0}

(* The next number, behind the power so far.                               *)
Raised(x, k) == IF k < x THEN x ELSE Base * x

Raises(f, id) ==
  /\ f \in [0 .. id -> Positive] /\ f[0] = Base
  /\ \A k \in 1 .. id : f[k] = Raised(f[k - 1], k)

LEMMA RaisedType ==
  ASSUME NEW x \in Positive, NEW k \in Nat
  PROVE  Raised(x, k) \in Positive
<1>1. Base \in Nat \ {0} /\ x \in Nat \ {0}
  BY ChunkerAssumption DEF Positive
<1>2. Base * x \in Nat \ {0}
  BY <1>1
<1>3. QED
  BY <1>1, <1>2 DEF Raised, Positive

(* The recursion of Power.                                                 *)
LEMMA PowerDef ==
  ASSUME NEW id \in Nat
  PROVE  \E f : Raises(f, id) /\ Power(id) = f[id]
<1> DEFINE G == [p \in Positive \X (1 .. id) |-> Raised(p[1], p[2])]
           Eq(u) == u = [k \in 0 .. id |->
                           IF k = 0 THEN Base
                           ELSE IF k < u[k - 1] THEN u[k - 1] ELSE Base * u[k - 1]]
           r == CHOOSE u : Eq(u)
<1>1. Base \in Positive
  BY ChunkerAssumption DEF Positive
<1>2. \A a \in Positive, k \in 1 .. id : Raised(a, k) \in Positive
  <2>1. \A k \in 1 .. id : k \in Nat
    OBVIOUS
  <2>2. QED
    BY <2>1, RaisedType
<1>3. Power(id) = r[id]
  BY DEF Power
<1>4. \A a \in Positive, k \in 1 .. id : G[<<a, k>>] = Raised(a, k)
  OBVIOUS
<1> HIDE DEF G
<1>5. Steps(G, id, Positive)
  BY <1>2, <1>4 DEF Steps
<1>6. PICK f : Follows(f, id, Positive, Base, G)
  BY <1>1, <1>5, Recursion
<1>7. f \in [0 .. id -> Positive] /\ f[0] = Base
  BY <1>6 DEF Follows
<1>8. ASSUME NEW k \in 1 .. id PROVE f[k] = Raised(f[k - 1], k)
  <2>1. f[k - 1] \in Positive
    BY <1>7
  <2>2. f[k] = G[<<f[k - 1], k>>]
    BY <1>6 DEF Follows
  <2>3. QED
    BY <1>4, <2>1, <2>2
<1>9. Eq(f)
  <2>1. f = [k \in 0 .. id |-> f[k]]
    BY <1>7
  <2>2. ASSUME NEW k \in 0 .. id
        PROVE  f[k] = IF k = 0 THEN Base ELSE Raised(f[k - 1], k)
    <3>1. CASE k = 0
      BY <1>7, <3>1
    <3>2. CASE k # 0
      <4>1. k \in 1 .. id
        BY <3>2
      <4>2. QED
        BY <1>8, <3>2, <4>1
    <3>3. QED
      BY <3>1, <3>2
  <2>3. QED
    BY <2>1, <2>2 DEF Raised
<1>10. Eq(r)
  <2> HIDE DEF Eq
  <2>1. QED
    BY <1>9
<1> HIDE DEF r
<1>11. r[0] = Base /\ \A k \in 1 .. id : r[k] = Raised(r[k - 1], k)
  <2>1. 0 \in 0 .. id /\ \A k \in 1 .. id : k \in 0 .. id /\ k # 0
    OBVIOUS
  <2>2. QED
    BY <1>10, <2>1 DEF Raised
<1>12. GoAlike(f, r, id)
  <2> HIDE DEF Eq
  <2>1. ASSUME NEW k \in 1 .. id, f[k - 1] = r[k - 1] PROVE f[k] = r[k]
    BY <1>8, <1>11, <2>1
  <2>2. QED
    BY <1>7, <1>11, <2>1 DEF GoAlike
<1>13. f[id] = r[id]
  BY <1>12, Agree DEF AreAlike
<1>14. Raises(f, id)
  BY <1>7, <1>8 DEF Raises
<1>15. QED
  BY <1>3, <1>13, <1>14

LEMMA PowerType ==
  ASSUME NEW id \in Nat
  PROVE  Power(id) \in Nat /\ Power(id) > 0
<1>1. PICK f : Raises(f, id) /\ Power(id) = f[id]
  BY PowerDef
<1>2. Power(id) \in Positive
  BY <1>1 DEF Raises
<1>3. QED
  BY <1>2 DEF Positive

(* Numbers of one digit have the same power above them.                    *)
LEMMA PowerOfDigit ==
  ASSUME NEW id \in Nat, id < Base
  PROVE  Power(id) = Base
<1>1. PICK f : Raises(f, id) /\ Power(id) = f[id]
  BY PowerDef
<1> DEFINE g == [k \in 0 .. id |-> Base]
<1>2. g[0] = Base /\ g[id] = Base /\ \A k \in 1 .. id : g[k] = Base /\ g[k - 1] = Base
  OBVIOUS
<1> HIDE DEF g
<1>3. Base \in Nat
  BY ChunkerAssumption
<1>4. ASSUME NEW k \in 1 .. id, f[k - 1] = g[k - 1] PROVE f[k] = g[k]
  <2>1. f[k] = Raised(Base, k) /\ k < Base
    BY <1>1, <1>2, <1>3, <1>4 DEF Raises
  <2>2. QED
    BY <1>2, <2>1 DEF Raised
<1>5. GoAlike(f, g, id)
  BY <1>1, <1>2, <1>4 DEF GoAlike, Raises
<1>6. f[id] = g[id]
  BY <1>5, Agree DEF AreAlike
<1>7. QED
  BY <1>1, <1>2, <1>6

(* A factor that is not 0 may be divided out.                              *)
LEMMA Cancel ==
  ASSUME NEW x \in Nat, NEW y \in Nat, NEW z \in Nat, z > 0, x * z <= y * z
  PROVE  x <= y
<1>1. SUFFICES ASSUME y + 1 <= x PROVE FALSE
  OBVIOUS
<1>2. (y + 1) * z <= x * z
  BY <1>1
<1>3. (y + 1) * z = (y * z) + z
  OBVIOUS
<1>4. x * z \in Nat /\ y * z \in Nat
  OBVIOUS
<1>5. QED
  BY <1>2, <1>3, <1>4

LEMMA Multiply ==
  ASSUME NEW x \in Nat, NEW y \in Nat, NEW z \in Nat, x <= y
  PROVE  x * z <= y * z
<1>1. y = x + (y - x) /\ y - x \in Nat
  OBVIOUS
<1>2. y * z = (x * z) + ((y - x) * z) /\ (y - x) * z \in Nat /\ x * z \in Nat
  BY <1>1
<1>3. QED
  BY <1>2

(* The order of fractions.                                                 *)
LEMMA FractionOrder ==
  ASSUME NEW i \in Nat, NEW j \in Nat, NEW k \in Nat,
         NEW p \in Nat, NEW q \in Nat, NEW r \in Nat, p > 0, q > 0, r > 0,
         i * q <= j * p, j * r <= k * q
  PROVE  i * r <= k * p /\ (i * r = k * p => i * q = j * p /\ j * r = k * q)
<1> DEFINE iq == i * q
           jp == j * p
           jr == j * r
           kq == k * q
           ir == i * r
           kp == k * p
<1>1. /\ iq \in Nat /\ jp \in Nat /\ jr \in Nat /\ kq \in Nat /\ ir \in Nat /\ kp \in Nat
      /\ iq <= jp /\ jr <= kq
  OBVIOUS
<1>2. iq * r = ir * q /\ jp * r = jr * p /\ kq * p = kp * q
  OBVIOUS
<1> HIDE DEF iq, jp, jr, kq, ir, kp
<1>3. iq * r <= jp * r /\ jr * p <= kq * p
  BY <1>1, Multiply
<1> DEFINE a == iq * r
           b == jp * r
           c == kq * p
<1>4. a \in Nat /\ b \in Nat /\ c \in Nat /\ a <= b /\ b <= c
      /\ a = ir * q /\ c = kp * q /\ b = jr * p
  BY <1>1, <1>2, <1>3
<1>5. ir <= kp
  <2>1. ir * q <= kp * q
    <3> HIDE DEF a, b, c
    <3>1. a <= c
      BY <1>4
    <3>2. QED
      BY <1>4, <3>1
  <2>2. QED
    BY <1>1, <2>1, Cancel
<1>6. ASSUME ir = kp PROVE iq = jp /\ jr = kq
  <2>1. a = c
    BY <1>4, <1>6
  <2>2. a = b /\ b = c
    <3> HIDE DEF a, b, c
    <3>1. QED
      BY <1>4, <2>1
  <2>3. jp * r <= iq * r /\ kq * p <= jr * p
    BY <1>4, <2>2
  <2>4. jp <= iq
    BY <1>1, <2>3, Cancel
  <2>5. kq <= jr
    BY <1>1, <2>3, Cancel
  <2>6. QED
    BY <1>1, <2>4, <2>5
<1>7. QED
  BY <1>5, <1>6 DEF iq, jp, jr, kq, ir, kp

(* The order of ids is an order.                                           *)
LEMMA TextBeforeTransitive ==
  ASSUME NEW i \in Nat, NEW j \in Nat, NEW k \in Nat, TextBefore(i, j), TextBefore(j, k)
  PROVE  TextBefore(i, k)
<1> DEFINE p == Power(i)
           q == Power(j)
           r == Power(k)
<1>1. p \in Nat /\ q \in Nat /\ r \in Nat /\ p > 0 /\ q > 0 /\ r > 0
  BY PowerType
<1>2. /\ i * q < j * p \/ (i * q = j * p /\ i < j)
      /\ j * r < k * q \/ (j * r = k * q /\ j < k)
  BY DEF TextBefore
<1> HIDE DEF p, q, r
<1>3. /\ i * q \in Nat /\ j * p \in Nat /\ j * r \in Nat /\ k * q \in Nat
      /\ i * r \in Nat /\ k * p \in Nat
  BY <1>1
<1>4. i * q <= j * p /\ j * r <= k * q
  BY <1>2, <1>3
<1>5. i * r <= k * p /\ (i * r = k * p => i * q = j * p /\ j * r = k * q)
  BY <1>1, <1>4, FractionOrder
<1>6. i * r < k * p \/ (i * r = k * p /\ i < k)
  <2> DEFINE iq == i * q
             jp == j * p
             jr == j * r
             kq == k * q
             ir == i * r
             kp == k * p
  <2>1. /\ iq \in Nat /\ jp \in Nat /\ jr \in Nat /\ kq \in Nat /\ ir \in Nat /\ kp \in Nat
        /\ iq < jp \/ (iq = jp /\ i < j)
        /\ jr < kq \/ (jr = kq /\ j < k)
        /\ ir <= kp /\ (ir = kp => iq = jp /\ jr = kq)
    BY <1>2, <1>3, <1>5
  <2> HIDE DEF iq, jp, jr, kq, ir, kp
  <2>2. ir < kp \/ (ir = kp /\ i < k)
    BY <2>1
  <2>3. QED
    BY <2>2 DEF ir, kp
<1>7. QED
  BY <1>6 DEF TextBefore, p, r

(* Of two ids one comes first, and none before itself.                     *)
LEMMA TextBeforeOrder ==
  ASSUME NEW i \in Nat, NEW j \in Nat
  PROVE  /\ ~TextBefore(i, i)
         /\ i # j => TextBefore(i, j) \/ TextBefore(j, i)
<1> DEFINE x == i * Power(j)
           y == j * Power(i)
           z == i * Power(i)
<1>1. x \in Nat /\ y \in Nat /\ z \in Nat
  BY PowerType
<1> HIDE DEF x, y, z
<1>2. ~(z < z) /\ ~(i < i)
  BY <1>1
<1>3. i # j => x < y \/ y < x \/ (x = y /\ (i < j \/ j < i))
  BY <1>1
<1>4. QED
  BY <1>2, <1>3 DEF TextBefore, x, y, z

-----------------------------------------------------------------------------
(* The places of ids in that order.                                        *)

Preceding(n, j) == {k \in 1 .. n : TextBefore(k - 1, j - 1)}

(* Every place is taken by an id: as many come before it, no two ids have  *)
(* the same number before them, and an injection of 1 .. n into itself is  *)
(* onto.                                                                   *)
LEMMA PlaceTaken ==
  ASSUME NEW n \in Nat, NEW p \in 0 .. n - 1
  PROVE  \E j \in 1 .. n : Cardinality(Preceding(n, j)) = p
<1> DEFINE f == [j \in 1 .. n |-> Cardinality(Preceding(n, j))]
<1>1. /\ IsFiniteSet(1 .. n) /\ Cardinality(1 .. n) = n
      /\ IsFiniteSet(0 .. n - 1) /\ Cardinality(0 .. n - 1) = n
  <2>1. 1 \in Int /\ 0 \in Int /\ n \in Int /\ n - 1 \in Int
    OBVIOUS
  <2>2. IsFiniteSet(1 .. n) /\ Cardinality(1 .. n) = IF 1 > n THEN 0 ELSE n - 1 + 1
    BY <2>1, FS_Interval
  <2>3. IsFiniteSet(0 .. n - 1) /\ Cardinality(0 .. n - 1) = IF 0 > n - 1 THEN 0 ELSE n - 1 - 0 + 1
    BY <2>1, FS_Interval
  <2>4. QED
    BY <2>2, <2>3
<1>2. \A j \in 1 .. n : Preceding(n, j) \subseteq 1 .. n /\ j \notin Preceding(n, j)
  BY TextBeforeOrder DEF Preceding
<1>3. ASSUME NEW j \in 1 .. n
      PROVE  /\ IsFiniteSet(Preceding(n, j))
             /\ Cardinality(Preceding(n, j)) \in 0 .. n - 1
  <2> DEFINE S == Preceding(n, j)
  <2>1. S \in SUBSET (1 .. n) /\ j \notin S
    BY <1>2
  <2> HIDE DEF S
  <2>2. /\ IsFiniteSet(S) /\ Cardinality(S) <= n
        /\ Cardinality(1 .. n) = Cardinality(S) => 1 .. n = S
    BY <1>1, <2>1, FS_Subset
  <2>3. Cardinality(S) \in Nat /\ Cardinality(S) # n
    BY <1>1, <2>1, <2>2, FS_CardinalityType
  <2>4. QED
    BY <2>2, <2>3 DEF S
<1>4. ASSUME NEW i \in 1 .. n, NEW j \in 1 .. n, TextBefore(i - 1, j - 1)
      PROVE  Cardinality(Preceding(n, i)) # Cardinality(Preceding(n, j))
  <2> DEFINE S == Preceding(n, i)
             T == Preceding(n, j)
  <2>1. \A k \in 1 .. n : k - 1 \in Nat
    OBVIOUS
  <2>2. S \in SUBSET T
    <3>1. ASSUME NEW k \in S PROVE k \in T
      <4>1. k \in 1 .. n /\ TextBefore(k - 1, i - 1)
        BY DEF Preceding
      <4>2. TextBefore(k - 1, j - 1)
        BY <1>4, <2>1, <4>1, TextBeforeTransitive
      <4>3. QED
        BY <4>1, <4>2 DEF Preceding
    <3>2. QED
      BY <3>1
  <2>3. i \in T /\ i \notin S
    BY <1>2, <1>4 DEF Preceding
  <2>4. IsFiniteSet(T)
    BY <1>3
  <2> HIDE DEF S, T
  <2>5. Cardinality(T) = Cardinality(S) => T = S
    BY <2>2, <2>4, FS_Subset
  <2>6. QED
    BY <2>3, <2>5 DEF S, T
<1>5. f \in [1 .. n -> 0 .. n - 1]
  BY <1>3
<1>6. ASSUME NEW i \in 1 .. n, NEW j \in 1 .. n, f[i] = f[j] PROVE i = j
  <2>1. Cardinality(Preceding(n, i)) = Cardinality(Preceding(n, j))
    BY <1>6
  <2>2. i - 1 \in Nat /\ j - 1 \in Nat
    OBVIOUS
  <2>3. ~TextBefore(i - 1, j - 1) /\ ~TextBefore(j - 1, i - 1)
    BY <1>4, <2>1
  <2>4. i - 1 = j - 1
    BY <2>2, <2>3, TextBeforeOrder
  <2>5. QED
    BY <2>2, <2>4
<1> HIDE DEF f
<1>7. f \in Injection(1 .. n, 0 .. n - 1)
  BY <1>5, <1>6 DEF Injection, IsInjective
<1>8. f \in Surjection(1 .. n, 0 .. n - 1)
  BY <1>1, <1>7, FS_Injection
<1>9. PICK j \in 1 .. n : f[j] = p
  BY <1>8 DEF Surjection
<1>10. QED
  BY <1>9 DEF f

(* Ids of one digit are in their order.                                    *)
LEMMA PlaceOfDigit ==
  ASSUME NEW n \in Nat, n <= Base, NEW j \in 1 .. n
  PROVE  Cardinality(Preceding(n, j)) = j - 1
<1>1. Base \in Nat \ {0}
  BY ChunkerAssumption
<1>2. ASSUME NEW i \in 1 .. n PROVE Power(i - 1) = Base
  <2>1. i - 1 \in Nat /\ i - 1 < Base
    BY <1>1
  <2>2. QED
    BY <2>1, PowerOfDigit
<1>3. ASSUME NEW k \in 1 .. n PROVE TextBefore(k - 1, j - 1) <=> k < j
  <2> DEFINE x == k - 1
             y == j - 1
  <2>1. x \in Nat /\ y \in Nat /\ (x < y <=> k < j)
    OBVIOUS
  <2>2. TextBefore(x, y) <=> (x * Base < y * Base \/ (x * Base = y * Base /\ x < y))
    BY <1>2 DEF TextBefore
  <2> HIDE DEF x, y
  <2>3. x * Base \in Nat /\ y * Base \in Nat
    BY <1>1, <2>1
  <2>4. x * Base < y * Base => x < y
    <3>1. SUFFICES ASSUME y <= x PROVE y * Base <= x * Base
      BY <2>1, <2>3
    <3>2. QED
      BY <1>1, <2>1, <3>1, Multiply
  <2>5. x < y => x * Base <= y * Base
    BY <1>1, <2>1, Multiply
  <2>6. TextBefore(x, y) <=> x < y
    BY <2>2, <2>3, <2>4, <2>5
  <2>7. QED
    BY <2>1, <2>6 DEF x, y
<1>4. Preceding(n, j) = 1 .. j - 1
  BY <1>3 DEF Preceding
<1>5. Cardinality(1 .. j - 1) = j - 1
  <2>1. 1 \in Int /\ j - 1 \in Int
    OBVIOUS
  <2>2. Cardinality(1 .. j - 1) = IF 1 > j - 1 THEN 0 ELSE (j - 1) - 1 + 1
    BY <2>1, FS_Interval
  <2>3. QED
    BY <2>2
<1>6. QED
  BY <1>4, <1>5

-----------------------------------------------------------------------------
(* The numbers of the chunks that are kept.                                *)

Kept(s, k, S) == IF k \in S THEN Append(s, k) ELSE s

Keeps(f, n, S) ==
  /\ f \in [0 .. n -> Seq(Nat)] /\ f[0] = <<>>
  /\ \A k \in 1 .. n : f[k] = Kept(f[k - 1], k, S)

(* The recursion of InOrder.                                               *)
LEMMA InOrderDef ==
  ASSUME NEW n \in Nat, NEW S
  PROVE  \E f : Keeps(f, n, S) /\ InOrder(n, S) = f[n]
<1> DEFINE G == [p \in Seq(Nat) \X (1 .. n) |-> Kept(p[1], p[2], S)]
           Eq(u) == u = [k \in 0 .. n |->
                           IF k = 0 THEN <<>>
                           ELSE IF k \in S THEN Append(u[k - 1], k) ELSE u[k - 1]]
           r == CHOOSE u : Eq(u)
<1>1. <<>> \in Seq(Nat)
  BY EmptySeq
<1>2. \A a \in Seq(Nat), k \in 1 .. n : Kept(a, k, S) \in Seq(Nat)
  BY AppendProperties DEF Kept
<1>3. InOrder(n, S) = r[n]
  BY DEF InOrder
<1>4. \A a \in Seq(Nat), k \in 1 .. n : G[<<a, k>>] = Kept(a, k, S)
  OBVIOUS
<1> HIDE DEF G
<1>5. Steps(G, n, Seq(Nat))
  BY <1>2, <1>4 DEF Steps
<1>6. PICK f : Follows(f, n, Seq(Nat), <<>>, G)
  BY <1>1, <1>5, Recursion
<1>7. f \in [0 .. n -> Seq(Nat)] /\ f[0] = <<>>
  BY <1>6 DEF Follows
<1>8. ASSUME NEW k \in 1 .. n PROVE f[k] = Kept(f[k - 1], k, S)
  <2>1. f[k - 1] \in Seq(Nat)
    BY <1>7
  <2>2. f[k] = G[<<f[k - 1], k>>]
    BY <1>6 DEF Follows
  <2>3. QED
    BY <1>4, <2>1, <2>2
<1>9. Eq(f)
  <2>1. f = [k \in 0 .. n |-> f[k]]
    BY <1>7
  <2>2. ASSUME NEW k \in 0 .. n
        PROVE  f[k] = IF k = 0 THEN <<>> ELSE Kept(f[k - 1], k, S)
    <3>1. CASE k = 0
      BY <1>7, <3>1
    <3>2. CASE k # 0
      <4>1. k \in 1 .. n
        BY <3>2
      <4>2. QED
        BY <1>8, <3>2, <4>1
    <3>3. QED
      BY <3>1, <3>2
  <2>3. QED
    BY <2>1, <2>2 DEF Kept
<1>10. Eq(r)
  <2> HIDE DEF Eq
  <2>1. QED
    BY <1>9
<1> HIDE DEF r
<1>11. r[0] = <<>> /\ \A k \in 1 .. n : r[k] = Kept(r[k - 1], k, S)
  <2>1. 0 \in 0 .. n /\ \A k \in 1 .. n : k \in 0 .. n /\ k # 0
    OBVIOUS
  <2>2. QED
    BY <1>10, <2>1 DEF Kept
<1>12. GoAlike(f, r, n)
  <2> HIDE DEF Eq
  <2>1. ASSUME NEW k \in 1 .. n, f[k - 1] = r[k - 1] PROVE f[k] = r[k]
    BY <1>8, <1>11, <2>1
  <2>2. QED
    BY <1>7, <1>11, <2>1 DEF GoAlike
<1>13. f[n] = r[n]
  BY <1>12, Agree DEF AreAlike
<1>14. Keeps(f, n, S)
  BY <1>7, <1>8 DEF Keeps
<1>15. QED
  BY <1>3, <1>13, <1>14

(* Only what is to be kept is kept, and as long as everything is, it keeps *)
(* its place.                                                              *)
Placed(s, k, S) ==
  /\ s \in Seq(Nat)
  /\ \A i \in 1 .. Len(s) : s[i] \in S
  /\ 1 .. k \subseteq S => Len(s) = k
  /\ \A j \in 1 .. k : 1 .. j \subseteq S => j <= Len(s) /\ s[j] = j

(* InOrder keeps the order, and shifts a number only behind one that is    *)
(* missing.                                                                *)
LEMMA InOrderHolds ==
  ASSUME NEW n \in Nat, NEW S
  PROVE  Placed(InOrder(n, S), n, S)
<1>1. PICK f : Keeps(f, n, S) /\ InOrder(n, S) = f[n]
  BY InOrderDef
<1> DEFINE T == {k \in 0 .. n : Placed(f[k], k, S)}
<1>2. 0 \in T
  <2>1. f[0] = <<>> /\ <<>> \in Seq(Nat) /\ Len(<<>>) = 0
    BY <1>1, EmptySeq DEF Keeps
  <2>2. Placed(<<>>, 0, S)
    BY <2>1 DEF Placed
  <2>3. QED
    BY <2>1, <2>2
<1>3. ASSUME NEW k \in 1 .. n, k - 1 \in T PROVE k \in T
  <2> DEFINE s == f[k - 1]
  <2>1. f[k] = Kept(s, k, S) /\ Placed(s, k - 1, S)
    BY <1>1, <1>3 DEF Keeps
  <2> HIDE DEF s
  <2>2. /\ s \in Seq(Nat) /\ Len(s) \in Nat
        /\ \A i \in 1 .. Len(s) : s[i] \in S
        /\ 1 .. k - 1 \subseteq S => Len(s) = k - 1
        /\ \A j \in 1 .. k - 1 : 1 .. j \subseteq S => j <= Len(s) /\ s[j] = j
    BY <2>1, LenProperties DEF Placed
  <2>3. CASE k \notin S
    <3>1. f[k] = s
      BY <2>1, <2>3 DEF Kept
    <3>2. \A j \in 1 .. k : 1 .. j \subseteq S => j \in 1 .. k - 1
      BY <2>3
    <3>3. ~(1 .. k \subseteq S)
      BY <2>3
    <3>4. Placed(s, k, S)
      BY <2>2, <3>2, <3>3 DEF Placed
    <3>5. QED
      BY <3>1, <3>4
  <2>4. CASE k \in S
    <3> DEFINE t == Append(s, k)
    <3>1. f[k] = t
      BY <2>1, <2>4 DEF Kept
    <3>2. /\ t \in Seq(Nat) /\ Len(t) = Len(s) + 1 /\ t[Len(s) + 1] = k
          /\ \A i \in 1 .. Len(s) : t[i] = s[i]
      BY <2>2, AppendProperties
    <3> HIDE DEF t
    <3>3. ASSUME NEW i \in 1 .. Len(t) PROVE t[i] \in S
      <4>1. CASE i \in 1 .. Len(s)
        BY <2>2, <3>2, <4>1
      <4>2. CASE i = Len(s) + 1
        BY <2>4, <3>2, <4>2
      <4>3. QED
        BY <2>2, <3>2, <4>1, <4>2
    <3>4. 1 .. k \subseteq S => 1 .. k - 1 \subseteq S
      OBVIOUS
    <3>5. 1 .. k \subseteq S => Len(t) = k
      BY <2>2, <3>2, <3>4
    <3>6. ASSUME NEW j \in 1 .. k, 1 .. j \subseteq S PROVE j <= Len(t) /\ t[j] = j
      <4>1. CASE j = k
        <5>1. Len(s) = k - 1 /\ Len(s) + 1 = k
          BY <2>2, <3>4, <3>6, <4>1
        <5>2. QED
          BY <3>2, <4>1, <5>1
      <4>2. CASE j # k
        <5>1. j \in 1 .. k - 1
          BY <4>2
        <5>2. j <= Len(s) /\ s[j] = j
          BY <2>2, <3>6, <5>1
        <5>3. j \in 1 .. Len(s)
          BY <2>2, <5>1, <5>2
        <5>4. QED
          BY <2>2, <3>2, <5>2, <5>3
      <4>3. QED
        BY <4>1, <4>2
    <3>7. Placed(t, k, S)
      BY <3>2, <3>3, <3>5, <3>6 DEF Placed
    <3>8. QED
      BY <3>1, <3>7
  <2>5. QED
    BY <2>3, <2>4
<1>4. \A k \in 0 .. n : k \in T
  <2> HIDE DEF T
  <2>1. QED
    BY <1>2, <1>3, InductionUpTo
<1>5. QED
  BY <1>1, <1>4

-----------------------------------------------------------------------------
(* The document and its copies.                                            *)

Copied == [k \in DOMAIN stored |->
             stored[CHOOSE j \in DOMAIN stored : Cardinality(Before(j)) = k - 1]]

(* The chunks are those of the text, the chunks that are stored some of    *)
(* them in their order, and what the graph and the attachment hold comes   *)
(* from these.                                                             *)
ChunkerInv ==
  /\ text \in Texts
  /\ chunks = <<>> => stored = <<>> /\ concept = {} /\ copy = <<>>
  /\ chunks # <<>> => /\ text # <<>> /\ chunks = ChunkStructured(text)
                      /\ \E S : stored = InOrder(Len(chunks), S)
  /\ \A link \in concept :
       \/ \E k \in DOMAIN stored : link = <<k - 1, stored[k]>>
       \/ \E n \in DOMAIN chunks : link = <<n - 1, n>>
  /\ copy = <<>> \/ copy = Copied

(* A text that is not empty has a chunk.                                   *)
LEMMA StructuredExists ==
  ASSUME text \in Texts, text # <<>>
  PROVE  ChunkStructured(text) # <<>>
<1> DEFINE cs == ChunkStructured(text)
<1>1. Structured(cs)
  BY StructuredHolds
<1> HIDE DEF cs
<1>2. PICK u : Covers(Held(cs), u) /\ u # <<>>
  BY <1>1 DEF Structured
<1>3. Held(cs) # <<>>
  BY <1>2 DEF Covers
<1>4. cs # <<>>
  BY <1>3, HeldEmpty
<1>5. QED
  BY <1>4 DEF cs

LEMMA ChunkerInit == Init => ChunkerInv
BY DEF Init, ChunkerInv

(* Every action keeps the invariant.                                       *)
LEMMA ChunkerNext == ChunkerInv /\ [Next]_vars => ChunkerInv'
<1> SUFFICES ASSUME ChunkerInv, [Next]_vars PROVE ChunkerInv'
  OBVIOUS
<1>1. text \in Texts
  BY DEF ChunkerInv
<1>2. ASSUME NEW dropped, Ingest(dropped) PROVE ChunkerInv'
  <2>1. text' = text /\ concept' = {} /\ copy' = <<>> /\ text # <<>>
    BY <1>2 DEF Ingest, ChunkerInv
  <2>2. chunks' = ChunkStructured(text) /\ chunks' # <<>>
    BY <1>1, <1>2, <2>1, StructuredExists DEF Ingest
  <2>3. \E S : stored' = InOrder(Len(chunks'), S)
    BY <1>2 DEF Ingest
  <2>4. QED
    BY <1>1, <2>1, <2>2, <2>3 DEF ChunkerInv
<1>3. ASSUME IndexInline PROVE ChunkerInv'
  <2>1. /\ UNCHANGED <<text, chunks, stored, copy>>
        /\ stored # <<>> /\ concept' = {<<k - 1, stored[k]>> : k \in DOMAIN stored}
    BY <1>3 DEF IndexInline
  <2>2. chunks # <<>>
    BY <2>1 DEF ChunkerInv
  <2>3. \A link \in concept' : \E k \in DOMAIN stored : link = <<k - 1, stored[k]>>
    BY <2>1
  <2>4. QED
    BY <2>1, <2>2, <2>3 DEF ChunkerInv, Copied, Before
<1>4. ASSUME IndexBehind PROVE ChunkerInv'
  <2>1. /\ UNCHANGED <<text, chunks, stored, copy>> /\ chunks # <<>>
        /\ concept' = {<<n - 1, n>> : n \in DOMAIN ChunkStructured(text)}
    BY <1>4 DEF IndexBehind, IdInText
  <2>2. chunks = ChunkStructured(text)
    BY <2>1 DEF ChunkerInv
  <2>3. \A link \in concept' : \E n \in DOMAIN chunks : link = <<n - 1, n>>
    BY <2>1, <2>2
  <2>4. QED
    BY <2>1, <2>3 DEF ChunkerInv, Copied, Before
<1>5. ASSUME Attach PROVE ChunkerInv'
  <2>1. /\ UNCHANGED <<text, chunks, stored, concept>>
        /\ stored # <<>> /\ copy' = Copied
    BY <1>5 DEF Attach, Copied
  <2>2. chunks # <<>>
    BY <2>1 DEF ChunkerInv
  <2>3. Copied' = Copied
    BY <2>1 DEF Copied, Before
  <2>4. QED
    BY <2>1, <2>2, <2>3 DEF ChunkerInv
<1>6. ASSUME UNCHANGED vars PROVE ChunkerInv'
  BY <1>6 DEF ChunkerInv, Copied, Before, vars
<1>7. QED
  BY <1>2, <1>3, <1>4, <1>5, <1>6 DEF Next

LEMMA ChunkerInvariance == Spec => []ChunkerInv
BY ChunkerInit, ChunkerNext, PTL DEF Spec

(* A text that is not empty yields a chunk, as chunk_structured promises.  *)
THEOREM AlwaysAChunk == Spec => [](text # <<>> => ChunkStructured(text) # <<>>)
<1>1. ChunkerInv => (text # <<>> => ChunkStructured(text) # <<>>)
  BY StructuredExists DEF ChunkerInv
<1>2. QED
  BY <1>1, ChunkerInvariance, PTL

(* The chunks of every text keep within the limits, hold every character   *)
(* of its bodies in their order, and cite the section their text is from,  *)
(* up to less than MIN_CHUNK_CHARS before and after it.                    *)
THEOREM ChunksKeep == Spec => []ChunksKeepTheText
<1>1. ChunkerInv => ChunksKeepTheText
  <2> SUFFICES ASSUME ChunkerInv PROVE ChunksKeepTheText
    OBVIOUS
  <2>1. CASE chunks = <<>>
    BY <2>1, NoChunks
  <2>2. CASE chunks # <<>>
    <3>1. text \in Texts /\ text # <<>> /\ chunks = ChunkStructured(text)
      BY <2>2 DEF ChunkerInv
    <3>2. Structured(chunks)
      BY <3>1, StructuredHolds
    <3>3. QED
      BY <3>1, <3>2, StructuredKeeps
  <2>3. QED
    BY <2>1, <2>2
<1>2. QED
  BY <1>1, ChunkerInvariance, PTL

LEMMA StoredType ==
  ASSUME ChunkerInv
  PROVE  /\ stored \in Seq(Nat)
         /\ chunks # <<>> => /\ Len(chunks) \in Nat /\ DOMAIN chunks = 1 .. Len(chunks)
                             /\ \E S : Placed(stored, Len(chunks), S)
<1>1. CASE chunks = <<>>
  <2>1. stored = <<>> /\ <<>> \in Seq(Nat)
    BY <1>1, EmptySeq DEF ChunkerInv
  <2>2. QED
    BY <1>1, <2>1
<1>2. CASE chunks # <<>>
  <2>1. PICK S : stored = InOrder(Len(chunks), S)
    BY <1>2 DEF ChunkerInv
  <2>2. Len(chunks) \in Nat /\ DOMAIN chunks = 1 .. Len(chunks)
    <3>1. Structured(chunks)
      BY <1>2, StructuredHolds DEF ChunkerInv
    <3>2. QED
      BY <3>1, LenProperties DEF Structured, Chunked
  <2>3. Placed(stored, Len(chunks), S)
    BY <2>1, <2>2, InOrderHolds
  <2>4. QED
    BY <2>2, <2>3 DEF Placed
<1>3. QED
  BY <1>1, <1>2

(* What the graph has under an id that a stored chunk has is of that       *)
(* chunk, or a chunk up to it was dropped.                                 *)
LEMMA LinksHold ==
  ASSUME ChunkerInv, NEW link \in concept,
         link[1] + 1 \in DOMAIN stored, stored[link[1] + 1] # link[2]
  PROVE  \E m \in 1 .. link[2] : \A k \in DOMAIN stored : stored[k] # m
<1>1. stored \in Seq(Nat) /\ DOMAIN stored = 1 .. Len(stored) /\ Len(stored) \in Nat
  BY StoredType, LenProperties
<1>2. CASE \E k \in DOMAIN stored : link = <<k - 1, stored[k]>>
  <2>1. PICK k \in DOMAIN stored : link = <<k - 1, stored[k]>>
    BY <1>2
  <2>2. link[1] = k - 1 /\ link[2] = stored[k]
    BY <2>1
  <2>3. link[1] + 1 = k
    BY <1>1, <2>2
  <2>4. QED
    BY <2>2, <2>3
<1>3. CASE \E n \in DOMAIN chunks : link = <<n - 1, n>>
  <2>1. PICK n \in DOMAIN chunks : link = <<n - 1, n>>
    BY <1>3
  <2>2. chunks # <<>>
    <3>1. DOMAIN <<>> = {}
      OBVIOUS
    <3>2. QED
      BY <2>1, <3>1
  <2>3. PICK S : Placed(stored, Len(chunks), S)
    BY <2>2, StoredType
  <2>4. n \in 1 .. Len(chunks) /\ Len(chunks) \in Nat
    BY <2>1, <2>2, StoredType
  <2>5. link[1] = n - 1 /\ link[2] = n /\ link[1] + 1 = n
    BY <2>1, <2>4
  <2>6. SUFFICES ASSUME \A m \in 1 .. n : \E k \in DOMAIN stored : stored[k] = m PROVE FALSE
    BY <2>5
  <2>7. 1 .. n \subseteq S
    BY <1>1, <2>3, <2>6 DEF Placed
  <2>8. stored[n] = n
    BY <2>3, <2>4, <2>7 DEF Placed
  <2>9. QED
    BY <2>5, <2>8
<1>4. QED
  BY <1>2, <1>3 DEF ChunkerInv

(* An attached copy has the stored chunks, each where its id puts it.      *)
LEMMA CopyHolds ==
  ASSUME ChunkerInv, copy # <<>>
  PROVE  /\ ToSet(copy) \subseteq ToSet(stored)
         /\ Len(copy) = Len(stored)
         /\ Len(stored) <= Base => copy = stored
<1> DEFINE n == Len(stored)
           Place(k) == CHOOSE j \in DOMAIN stored : Cardinality(Before(j)) = k - 1
<1>1. stored \in Seq(Nat) /\ DOMAIN stored = 1 .. n /\ n \in Nat
  BY StoredType, LenProperties
<1>2. copy = Copied
  BY DEF ChunkerInv
<1>3. \A j : Before(j) = Preceding(n, j)
  BY <1>1 DEF Before, Preceding
<1>4. copy = [k \in 1 .. n |-> stored[Place(k)]]
  BY <1>1, <1>2 DEF Copied
<1> HIDE DEF n
<1>5. ASSUME NEW k \in 1 .. n
      PROVE  Place(k) \in 1 .. n /\ Cardinality(Preceding(n, Place(k))) = k - 1
  <2>1. k - 1 \in 0 .. n - 1
    BY <1>1
  <2>2. PICK j \in 1 .. n : Cardinality(Preceding(n, j)) = k - 1
    BY <1>1, <2>1, PlaceTaken
  <2>3. j \in DOMAIN stored /\ Cardinality(Before(j)) = k - 1
    BY <1>1, <1>3, <2>2
  <2>4. Place(k) \in DOMAIN stored /\ Cardinality(Before(Place(k))) = k - 1
    BY <2>3
  <2>5. QED
    BY <1>1, <1>3, <2>4
<1> HIDE DEF Place
<1>6. DOMAIN copy = 1 .. n /\ \A k \in 1 .. n : copy[k] = stored[Place(k)]
  BY <1>4
<1>7. \A k \in 1 .. n : stored[k] \in Nat
  BY <1>1, ElementOfSeq DEF n
<1>8. copy \in Seq(Nat)
  <2>1. copy \in [1 .. n -> Nat]
    BY <1>4, <1>5, <1>7
  <2>2. QED
    BY <1>1, <2>1, IsASeq
<1>9. Len(copy) = n
  <2>1. Len(copy) \in Nat /\ 1 .. Len(copy) = 1 .. n
    BY <1>6, <1>8, LenProperties
  <2>2. QED
    BY <1>1, <2>1
<1>10. ToSet(copy) \subseteq ToSet(stored)
  BY <1>1, <1>5, <1>6 DEF ToSet
<1>11. ASSUME n <= Base PROVE copy = stored
  <2>1. ASSUME NEW k \in 1 .. n PROVE copy[k] = stored[k]
    <3> DEFINE j == Place(k)
    <3>1. j \in 1 .. n /\ Cardinality(Preceding(n, j)) = k - 1
      BY <1>5
    <3> HIDE DEF j
    <3>2. Cardinality(Preceding(n, j)) = j - 1
      BY <1>1, <1>11, <3>1, PlaceOfDigit
    <3>3. j = k
      BY <1>1, <3>1, <3>2
    <3>4. QED
      BY <1>6, <3>3 DEF j
  <2>2. QED
    BY <1>1, <1>8, <1>9, <2>1, SeqEqual DEF n
<1>12. QED
  BY <1>9, <1>10, <1>11 DEF n

(* An id names the same chunk in the vector store and in the graph, unless *)
(* a chunk was dropped, and an attached copy has the chunks that are       *)
(* stored, in their order as long as their numbers have one digit.         *)
THEOREM IdsName == Spec => []IdsNameTheirChunks
<1>1. ChunkerInv => IdsNameTheirChunks
  <2> SUFFICES ASSUME ChunkerInv PROVE IdsNameTheirChunks
    OBVIOUS
  <2>1. CASE copy = <<>>
    <3>1. ToSet(copy) = {}
      BY <2>1 DEF ToSet
    <3>2. QED
      BY <2>1, <3>1, LinksHold DEF IdsNameTheirChunks
  <2>2. CASE copy # <<>>
    BY <2>2, LinksHold, CopyHolds DEF IdsNameTheirChunks
  <2>3. QED
    BY <2>1, <2>2
<1>2. QED
  BY <1>1, ChunkerInvariance, PTL
=============================================================================
