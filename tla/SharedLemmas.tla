---------------------------- MODULE SharedLemmas ----------------------------
(***************************************************************************)
(* Lemmas that several components' proofs need: induction, what FlattenSeq *)
(* computes, which fault of a body is reported, and folds over a sequence. *)
(*                                                                         *)
(* The induction theorems of the library take the property as an operator; *)
(* here it is a set, of the numbers that have it, which a step defines by  *)
(* DEFINE and hides before it cites Induction.                             *)
(***************************************************************************)
EXTENDS CheckInput, SequencesExt, WellFoundedInduction, SequenceTheorems,
        FiniteSetTheorems, TLAPS

(* A set of naturals that is not empty has a least element. *)
LEMMA LeastElement ==
  ASSUME NEW T, T \subseteq Nat, T # {}
  PROVE  \E i \in T : \A j \in T : i <= j
<1>1. PICK i \in T : \A j \in T : <<j, i>> \notin OpToRel(<, Nat)
  BY NatLessThanWellFounded, WFMin
<1>2. \A j \in T : ~(j < i)
  BY <1>1 DEF OpToRel
<1>3. QED
  BY <1>2

(* One that is also bounded has a greatest. *)
LEMMA GreatestElement ==
  ASSUME NEW T, T \subseteq Nat, T # {},
         NEW bound \in Nat, \A i \in T : i <= bound
  PROVE  \E i \in T : \A j \in T : j <= i
<1> DEFINE Mirror == {bound - i : i \in T}
<1>1. Mirror \subseteq Nat /\ Mirror # {}
  <2>1. \A i \in T : bound - i \in Nat
    OBVIOUS
  <2>2. PICK i \in T : TRUE
    OBVIOUS
  <2>3. bound - i \in Mirror
    OBVIOUS
  <2>4. Mirror \subseteq Nat
    BY <2>1
  <2>5. QED
    BY <2>3, <2>4
<1>2. PICK k \in Mirror : \A j \in Mirror : k <= j
  BY <1>1, LeastElement
<1>3. PICK i \in T : k = bound - i
  BY <1>2
<1>4. \A j \in T : j <= i
  <2> TAKE j \in T
  <2>1. bound - j \in Mirror
    OBVIOUS
  <2>2. bound - i <= bound - j
    BY <1>2, <1>3, <2>1
  <2>3. i \in Nat /\ j \in Nat
    OBVIOUS
  <2> HIDE DEF Mirror
  <2>4. QED
    BY <2>2, <2>3
<1>5. QED
  BY <1>4

(* What zero has, and n + 1 whenever n has it, every natural number has.   *)
LEMMA Induction ==
  ASSUME NEW P, 0 \in P, \A n \in Nat : n \in P => n + 1 \in P
  PROVE  Nat \subseteq P
<1>1. SUFFICES ASSUME Nat \ P # {} PROVE FALSE
  OBVIOUS
<1>2. PICK n \in Nat \ P : \A k \in Nat \ P : n <= k
  BY <1>1, LeastElement
<1>3. n # 0 /\ n - 1 \in Nat /\ n - 1 \in P
  BY <1>2
<1>4. QED
  BY <1>2, <1>3

(***************************************************************************)
(* FlattenSeq picks a function by its recursion; f is one for the first n  *)
(* of seqs.  There is one, and it is the only one.                         *)
(***************************************************************************)
FlatTo(seqs, n, f) ==
  /\ f = [i \in 1 .. n |-> f[i]]
  /\ \A i \in 1 .. n : f[i] = IF i = 1 THEN seqs[i] ELSE f[i - 1] \o seqs[i]

(* There is such a function: by induction, one entry at a time.            *)
LEMMA FlatExists ==
  ASSUME NEW seqs, NEW n \in Nat
  PROVE  \E f : FlatTo(seqs, n, f)
<1> DEFINE P == {k \in Nat : \E f : FlatTo(seqs, k, f)}
<1>1. 0 \in P
  <2>1. FlatTo(seqs, 0, [i \in 1 .. 0 |-> <<>>])
    BY DEF FlatTo
  <2>2. QED
    BY <2>1
<1>2. ASSUME NEW k \in Nat, k \in P PROVE k + 1 \in P
  <2>1. PICK f : FlatTo(seqs, k, f)
    BY <1>2
  <2> DEFINE g == [i \in 1 .. k + 1 |-> IF i = 1 THEN seqs[i] ELSE f[i - 1] \o seqs[i]]
  <2>2. ASSUME NEW i \in 1 .. k PROVE g[i] = f[i]
    <3>1. f[i] = IF i = 1 THEN seqs[i] ELSE f[i - 1] \o seqs[i]
      BY <2>1 DEF FlatTo
    <3>2. g[i] = IF i = 1 THEN seqs[i] ELSE f[i - 1] \o seqs[i]
      OBVIOUS
    <3> HIDE DEF g
    <3>3. QED
      BY <3>1, <3>2
  <2>a. g = [i \in 1 .. k + 1 |-> g[i]]
    OBVIOUS
  <2>3. \A i \in 1 .. k + 1 : i # 1 => i - 1 \in 1 .. k
    OBVIOUS
  <2>4. \A i \in 1 .. k + 1 : g[i] = IF i = 1 THEN seqs[i] ELSE g[i - 1] \o seqs[i]
    BY <2>2, <2>3
  <2>5. FlatTo(seqs, k + 1, g)
    BY <2>4, <2>a DEF FlatTo
  <2>6. QED
    BY <2>5
<1>3. QED
  <2> HIDE DEF P
  <2>1. n \in P
    BY <1>1, <1>2, Induction
  <2>2. QED
    BY <2>1 DEF P

(* Two of them agree as far as both go.                                    *)
LEMMA FlatUnique ==
  ASSUME NEW seqs, NEW n \in Nat, NEW f, NEW g, FlatTo(seqs, n, f), NEW k \in Nat,
         FlatTo(seqs, k, g), n <= k
  PROVE  \A i \in 1 .. n : f[i] = g[i]
<1> DEFINE P == {i \in Nat : i \in 1 .. n => f[i] = g[i]}
<1>0. ASSUME NEW j \in 1 .. n
      PROVE  /\ f[j] = IF j = 1 THEN seqs[j] ELSE f[j - 1] \o seqs[j]
             /\ g[j] = IF j = 1 THEN seqs[j] ELSE g[j - 1] \o seqs[j]
  <2>1. j \in 1 .. k
    OBVIOUS
  <2>2. QED
    BY <2>1, Zenon DEF FlatTo
<1>1. 0 \in P
  OBVIOUS
<1>2. ASSUME NEW i \in Nat, i \in P PROVE i + 1 \in P
  <2>1. SUFFICES ASSUME NEW j \in 1 .. n, j = i + 1 PROVE f[j] = g[j]
    OBVIOUS
  <2>2. CASE j = 1
    BY <1>0, <2>2
  <2>3. CASE j # 1
    <3>1. f[j - 1] = g[j - 1]
      BY <1>2, <2>1, <2>3
    <3>2. QED
      BY <1>0, <2>3, <3>1
  <2>4. QED
    BY <2>2, <2>3
<1>3. Nat \subseteq P
  <2> HIDE DEF P
  <2>1. QED
    BY <1>1, <1>2, Induction
<1>4. QED
  BY <1>3

(* So FlattenSeq is the last value of any of them.                         *)
LEMMA FlattenSeqIs ==
  ASSUME NEW seqs, NEW n \in Nat \ {0}, Len(seqs) = n, NEW f, FlatTo(seqs, n, f)
  PROVE  FlattenSeq(seqs) = f[n]
<1> DEFINE R(g) == g = [i \in 1 .. n |-> IF i = 1 THEN seqs[i] ELSE g[i - 1] \o seqs[i]]
           h == CHOOSE g : R(g)
<1>1. R(f)
  BY DEF FlatTo
<1>2. R(h)
  <2> HIDE DEF R
  <2>1. QED
    BY <1>1
<1>3. FlatTo(seqs, n, h)
  <2> HIDE DEF h
  <2> DEFINE hh == [i \in 1 .. n |-> IF i = 1 THEN seqs[i] ELSE h[i - 1] \o seqs[i]]
  <2>1. h = hh
    BY <1>2
  <2>2. \A i \in 1 .. n : hh[i] = IF i = 1 THEN seqs[i] ELSE h[i - 1] \o seqs[i]
    OBVIOUS
  <2>3. hh = [i \in 1 .. n |-> hh[i]]
    OBVIOUS
  <2> HIDE DEF hh
  <2>4. QED
    BY <2>1, <2>2, <2>3 DEF FlatTo
<1>4. FlattenSeq(seqs) = h[n]
  BY DEF FlattenSeq
<1>5. QED
  BY <1>3, <1>4, FlatUnique

(* Nothing flattens to nothing.                                            *)
LEMMA FlattenEmpty == FlattenSeq(<<>>) = <<>>
BY DEF FlattenSeq

(* Sequences of one type flatten to a sequence of it.                      *)
LEMMA FlattenType ==
  ASSUME NEW S, NEW seqs \in Seq(Seq(S))
  PROVE  FlattenSeq(seqs) \in Seq(S)
<1>1. CASE seqs = <<>>
  BY <1>1, FlattenEmpty, EmptySeq
<1>2. CASE seqs # <<>>
  <2> DEFINE n == Len(seqs)
  <2>1. n \in Nat \ {0} /\ \A i \in 1 .. n : seqs[i] \in Seq(S)
    BY <1>2
  <2>2. PICK f : FlatTo(seqs, n, f)
    BY <2>1, FlatExists
  <2> DEFINE P == {i \in Nat : i \in 1 .. n => f[i] \in Seq(S)}
  <2>3. 0 \in P
    OBVIOUS
  <2>4. ASSUME NEW i \in Nat, i \in P PROVE i + 1 \in P
    <3> HIDE DEF n
    <3>1. SUFFICES ASSUME NEW j \in 1 .. n, j = i + 1 PROVE f[j] \in Seq(S)
      OBVIOUS
    <3>2. f[j] = IF j = 1 THEN seqs[j] ELSE f[j - 1] \o seqs[j]
      BY <2>2, Zenon DEF FlatTo
    <3>3. j # 1 => f[j - 1] \in Seq(S)
      BY <2>1, <2>4, <3>1
    <3>4. seqs[j] \in Seq(S)
      BY <2>1
    <3>5. QED
      BY <3>2, <3>3, <3>4, ConcatProperties
  <2>5. Nat \subseteq P
    <3> HIDE DEF P
    <3>1. QED
      BY <2>3, <2>4, Induction
  <2>6. f[n] \in Seq(S)
    BY <2>1, <2>5
  <2>7. QED
    BY <2>1, <2>2, <2>6, FlattenSeqIs
<1>3. QED
  BY <1>1, <1>2

(* The recursion of FlattenSeq from the right.                             *)
LEMMA FlattenAppend ==
  ASSUME NEW S, NEW seqs \in Seq(Seq(S)), NEW s \in Seq(S)
  PROVE  FlattenSeq(Append(seqs, s)) = FlattenSeq(seqs) \o s
<1> DEFINE n == Len(seqs)
           more == Append(seqs, s)
<1>1. n \in Nat /\ Len(more) = n + 1 /\ \A i \in 1 .. n : more[i] = seqs[i]
  OBVIOUS
<1>2. more[n + 1] = s
  OBVIOUS
<1> HIDE DEF n, more
<1>3. PICK f : FlatTo(more, n + 1, f)
  <2>1. n + 1 \in Nat
    BY <1>1
  <2>2. QED
    BY <2>1, FlatExists
<1>4. FlattenSeq(more) = f[n + 1]
  BY <1>1, <1>3, FlattenSeqIs
<1>5. f[n + 1] = IF n + 1 = 1 THEN s ELSE f[n] \o s
  <2>1. n + 1 \in 1 .. n + 1 /\ (n + 1) - 1 = n
    BY <1>1
  <2>2. f[n + 1] = IF n + 1 = 1 THEN more[n + 1] ELSE f[(n + 1) - 1] \o more[n + 1]
    BY <1>3, <2>1, Zenon DEF FlatTo
  <2>3. QED
    BY <1>2, <2>1, <2>2
<1>6. CASE n = 0
  <2>1. seqs = <<>>
    BY <1>6 DEF n
  <2>2. QED
    BY <1>4, <1>5, <1>6, <2>1, FlattenEmpty DEF more
<1>7. CASE n # 0
  <2> DEFINE g == [i \in 1 .. n |-> f[i]]
  <2>1. FlatTo(seqs, n, g)
    <3>1. ASSUME NEW i \in 1 .. n
          PROVE  g[i] = IF i = 1 THEN seqs[i] ELSE g[i - 1] \o seqs[i]
      <4>1. i \in 1 .. n + 1 /\ (i # 1 => i - 1 \in 1 .. n) /\ more[i] = seqs[i]
        BY <1>1
      <4>2. f[i] = IF i = 1 THEN more[i] ELSE f[i - 1] \o more[i]
        BY <1>3, <4>1, Zenon DEF FlatTo
      <4>3. QED
        BY <4>1, <4>2
    <3>2. g = [i \in 1 .. n |-> g[i]]
      OBVIOUS
    <3> HIDE DEF g
    <3>3. QED
      BY <3>1, <3>2 DEF FlatTo
  <2>2. FlattenSeq(seqs) = g[n]
    BY <1>1, <1>7, <2>1, FlattenSeqIs DEF n
  <2>3. g[n] = f[n]
    BY <1>1, <1>7
  <2>4. QED
    <3>1. n + 1 # 1
      BY <1>1, <1>7
    <3>2. QED
      BY <1>4, <1>5, <2>2, <2>3, <3>1 DEF more
<1>8. QED
  BY <1>6, <1>7
-------------------------------------------------------------------------------
(***************************************************************************)
(* The first n sequences of g, one after the other: the form in which the  *)
(* models use FlattenSeq.                                                  *)
(***************************************************************************)
Flat(g, n) == FlattenSeq([i \in 1 .. n |-> g[i]])

(* A sequence of sequences is flattened by the last Flat.                  *)
LEMMA FlattenIsFlat ==
  ASSUME NEW S, NEW seqs \in Seq(S)
  PROVE  FlattenSeq(seqs) = Flat(seqs, Len(seqs))
<1>1. seqs = [i \in 1 .. Len(seqs) |-> seqs[i]]
  OBVIOUS
<1>2. QED
  BY <1>1, Zenon DEF Flat

(* c is a followed by b: a predicate, so that a step can use the fact      *)
(* without the provers going through the elements.                         *)
IsConcat(c, a, b) == c = a \o b

(* c is a followed by x. *)
IsAppend(c, a, x) == c = Append(a, x)

(* The length and the elements of a followed by b.                        *)
LEMMA ConcatIs ==
  ASSUME NEW S, NEW a \in Seq(S), NEW b \in Seq(S), NEW c, IsConcat(c, a, b)
  PROVE  /\ c \in Seq(S)
         /\ Len(a) \in Nat /\ Len(b) \in Nat /\ Len(c) = Len(a) + Len(b)
         /\ \A i \in 1 .. Len(a) : c[i] = a[i]
         /\ \A i \in 1 .. Len(b) : c[Len(a) + i] = b[i]
         /\ b = <<>> => c = a
         /\ a = <<>> => c = b
<1>1. Len(a) \in Nat /\ Len(b) \in Nat
  BY LenProperties
<1>2. /\ c \in Seq(S) /\ Len(c) = Len(a) + Len(b)
      /\ \A i \in 1 .. Len(a) + Len(b) : c[i] = IF i <= Len(a) THEN a[i] ELSE b[i - Len(a)]
  BY ConcatProperties DEF IsConcat
<1>3. /\ b = <<>> => c = a
      /\ a = <<>> => c = b
  BY ConcatEmptySeq, Zenon DEF IsConcat
<1>4. \A i \in 1 .. Len(a) : c[i] = a[i]
  BY <1>1, <1>2
<1>5. \A i \in 1 .. Len(b) : c[Len(a) + i] = b[i]
  <2> TAKE i \in 1 .. Len(b)
  <2>1. PICK k \in 1 .. Len(a) + Len(b) : k = Len(a) + i /\ ~(k <= Len(a)) /\ k - Len(a) = i
    BY <1>1
  <2>2. c[k] = b[k - Len(a)]
    BY <1>2, <2>1
  <2>3. QED
    BY <2>1, <2>2
<1>6. QED
  BY <1>1, <1>2, <1>3, <1>4, <1>5

(* The length and the elements of the part of s after the first a, of      *)
(* length n.                                                               *)
LEMMA SubSeqIs ==
  ASSUME NEW S, NEW s \in Seq(S), NEW a \in Nat, NEW n \in Nat, a + n <= Len(s)
  PROVE  /\ SubSeq(s, a + 1, a + n) \in Seq(S)
         /\ Len(SubSeq(s, a + 1, a + n)) = n
         /\ \A i \in 1 .. n : SubSeq(s, a + 1, a + n)[i] = s[a + i]
<1>1. Len(s) \in Nat
  BY LenProperties
<1>2. PICK x \in Nat, y \in Nat : x = a + 1 /\ y = a + n
  OBVIOUS
<1>3. /\ SubSeq(s, x, y) \in Seq(S)
      /\ Len(SubSeq(s, x, y)) = IF x <= y THEN y - x + 1 ELSE 0
      /\ \A i \in 1 .. y - x + 1 : SubSeq(s, x, y)[i] = s[x + i - 1]
  <2>1. \A i \in x .. y : i \in 1 .. Len(s)
    BY <1>1, <1>2
  <2>2. \A i \in x .. y : s[i] \in S
    BY <2>1, ElementOfSeq
  <2>3. x \in Int /\ y \in Int
    OBVIOUS
  <2>4. QED
    BY <2>2, <2>3, SubSeqProperties
<1>4. (IF x <= y THEN y - x + 1 ELSE 0) = n /\ y - x + 1 = n
  BY <1>2
<1>5. \A i \in 1 .. n : x + i - 1 = a + i
  BY <1>2
<1>6. QED
  BY <1>2, <1>3, <1>4, <1>5

(* Concatenation is associative.                                           *)
LEMMA ConcatRegroups ==
  ASSUME NEW S, NEW a \in Seq(S), NEW b \in Seq(S), NEW z \in Seq(S),
         NEW ab, NEW bz, NEW c,
         IsConcat(ab, a, b), IsConcat(bz, b, z)
  PROVE  IsConcat(c, ab, z) <=> IsConcat(c, a, bz)
<1>1. (a \o b) \o z = a \o (b \o z)
  BY ConcatAssociative
<1>2. QED
  BY <1>1, Zenon DEF IsConcat

(* The first n entries of g are sequences over S.                          *)
AreSeqs(g, n, S) == \A i \in 1 .. n : g[i] \in Seq(S)

(* What holds of the first n entries holds of the first k.                 *)
LEMMA FewerAreSeqs ==
  ASSUME NEW S, NEW n \in Nat, NEW k \in 0 .. n, NEW g, AreSeqs(g, n, S)
  PROVE  AreSeqs(g, k, S)
BY DEF AreSeqs

(* Only the first n entries matter.                                        *)
LEMMA FlatLocal ==
  ASSUME NEW n \in Nat, NEW g, NEW h, \A i \in 1 .. n : g[i] = h[i]
  PROVE  Flat(g, n) = Flat(h, n)
<1>1. [i \in 1 .. n |-> g[i]] = [i \in 1 .. n |-> h[i]]
  OBVIOUS
<1>2. QED
  BY <1>1, Zenon DEF Flat

(* The recursion of Flat: it begins with nothing,                          *)
LEMMA FlatZero == \A g : Flat(g, 0) = <<>>
<1> TAKE g
<1>1. [i \in 1 .. 0 |-> g[i]] = <<>>
  OBVIOUS
<1>2. QED
  BY <1>1, FlattenEmpty, Zenon DEF Flat

(* ... which is a sequence over S,                                         *)
LEMMA FlatType ==
  ASSUME NEW S, NEW n \in Nat, NEW g, AreSeqs(g, n, S)
  PROVE  Flat(g, n) \in Seq(S)
<1>1. [i \in 1 .. n |-> g[i]] \in Seq(Seq(S))
  BY DEF AreSeqs
<1>2. QED
  BY <1>1, FlattenType DEF Flat

(* ... and goes on with the next entry.                                    *)
LEMMA FlatStep ==
  ASSUME NEW S, NEW k \in Nat, NEW n \in Nat, n = k + 1, NEW g, AreSeqs(g, n, S)
  PROVE  /\ IsConcat(Flat(g, n), Flat(g, k), g[n])
         /\ Flat(g, k) \in Seq(S) /\ g[n] \in Seq(S)
<1> DEFINE seqs == [i \in 1 .. k |-> g[i]]
           more == [i \in 1 .. n |-> g[i]]
<1>1. seqs \in Seq(Seq(S)) /\ g[n] \in Seq(S)
  BY DEF AreSeqs
<1>2. more = Append(seqs, g[n])
  <2>1. more \in Seq(Seq(S)) /\ Len(more) = n /\ Len(seqs) = k
    BY DEF AreSeqs
  <2>2. /\ Append(seqs, g[n]) \in Seq(Seq(S))
        /\ Len(Append(seqs, g[n])) = n
    BY <1>1, <2>1, AppendProperties
  <2>3. \A i \in 1 .. n : Append(seqs, g[n])[i] = more[i]
    OBVIOUS
  <2> HIDE DEF more, seqs
  <2>4. QED
    BY <2>1, <2>2, <2>3, SeqEqual
<1> HIDE DEF seqs, more
<1>3. FlattenSeq(more) = FlattenSeq(seqs) \o g[n]
  BY <1>1, <1>2, FlattenAppend
<1>4. FlattenSeq(seqs) \in Seq(S)
  BY <1>1, FlattenType
<1>5. QED
  BY <1>1, <1>3, <1>4, Zenon DEF Flat, seqs, more, IsConcat

(* h is what comes in g after the first a entries.                         *)
IsShift(h, g, a, n) == \A i \in 1 .. n : h[i] = g[a + i]

(* The first a + n entries are the first a, then the n after them.         *)
LEMMA FlatShift ==
  ASSUME NEW S, NEW a \in Nat, NEW n \in Nat, NEW b \in Nat, b = a + n, NEW g, NEW h,
         AreSeqs(g, b, S), IsShift(h, g, a, n)
  PROVE  /\ IsConcat(Flat(g, b), Flat(g, a), Flat(h, n))
         /\ Flat(g, a) \in Seq(S) /\ Flat(h, n) \in Seq(S)
<1> DEFINE P == {k \in Nat : k <= n => IsConcat(Flat(g, a + k), Flat(g, a), Flat(h, k))}
<1>0. Flat(g, a) \in Seq(S) /\ AreSeqs(h, n, S)
  <2>1. AreSeqs(g, a, S)
    BY DEF AreSeqs
  <2>2. AreSeqs(h, n, S)
    <3>1. \A i \in 1 .. n : a + i \in 1 .. b
      OBVIOUS
    <3>2. QED
      BY <3>1 DEF AreSeqs, IsShift
  <2>3. QED
    BY <2>1, <2>2, FlatType
<1>1. 0 \in P
  <2>1. Flat(g, a) \o <<>> = Flat(g, a) /\ a + 0 = a
    BY <1>0, ConcatEmptySeq
  <2>2. QED
    BY <2>1, FlatZero DEF IsConcat
<1>2. ASSUME NEW k \in Nat, k \in P PROVE k + 1 \in P
  <2>1. SUFFICES ASSUME NEW l \in 1 .. n, l = k + 1,
                        NEW c \in Nat, c = a + k, NEW d \in Nat, d = a + l
                 PROVE  IsConcat(Flat(g, d), Flat(g, a), Flat(h, l))
    OBVIOUS
  <2>2. IsConcat(Flat(g, c), Flat(g, a), Flat(h, k))
    BY <1>2, <2>1
  <2>3. /\ c \in Nat /\ d \in Nat /\ d = c + 1 /\ d \in 0 .. b
        /\ l \in Nat /\ l \in 0 .. n
    BY <2>1
  <2>4. h[l] = g[d]
    BY <2>1 DEF IsShift
  <2>5. AreSeqs(g, d, S) /\ AreSeqs(h, l, S)
    BY <1>0, <2>3, FewerAreSeqs
  <2>6. IsConcat(Flat(g, d), Flat(g, c), h[l])
    <3>1. IsConcat(Flat(g, d), Flat(g, c), g[d])
      BY <2>3, <2>5, FlatStep
    <3>2. QED
      BY <2>4, <3>1, Zenon
  <2>7. /\ IsConcat(Flat(h, l), Flat(h, k), h[l])
        /\ Flat(h, k) \in Seq(S) /\ h[l] \in Seq(S)
    BY <2>1, <2>3, <2>5, FlatStep
  <2>8. QED
    BY <1>0, <2>2, <2>6, <2>7, ConcatRegroups
<1>3. Nat \subseteq P
  <2> HIDE DEF P
  <2>1. QED
    BY <1>1, <1>2, Induction
<1>4. QED
  BY <1>0, <1>3, FlatType

(* Flat grows with n.                                                      *)
LEMMA FlatGrows ==
  ASSUME NEW S, NEW n \in Nat, NEW k \in 0 .. n, NEW g, AreSeqs(g, n, S)
  PROVE  /\ Flat(g, k) \in Seq(S) /\ Flat(g, n) \in Seq(S)
         /\ \E rest \in Seq(S) : IsConcat(Flat(g, n), Flat(g, k), rest)
         /\ Len(Flat(g, k)) \in Nat /\ Len(Flat(g, k)) <= Len(Flat(g, n))
<1> DEFINE h == [i \in 1 .. n - k |-> g[k + i]]
<1>1. k \in Nat /\ n - k \in Nat /\ k + (n - k) = n
  OBVIOUS
<1>2. \A i \in 1 .. n - k : h[i] = g[k + i]
  OBVIOUS
<1> HIDE DEF h
<1>3. PICK d \in Nat : n = k + d /\ IsShift(h, g, k, d)
  BY <1>1, <1>2 DEF IsShift
<1>4. /\ IsConcat(Flat(g, n), Flat(g, k), Flat(h, d))
      /\ Flat(h, d) \in Seq(S) /\ Flat(g, k) \in Seq(S)
  BY <1>1, <1>3, FlatShift
<1>5. /\ Flat(g, n) \in Seq(S)
      /\ Len(Flat(g, k)) \in Nat /\ Len(Flat(g, k)) <= Len(Flat(g, n))
  BY <1>4, ConcatIs
<1>6. QED
  BY <1>4, <1>5

(* Empty sequences add nothing.                                            *)
LEMMA FlatSkip ==
  ASSUME NEW S, NEW n \in Nat, NEW k \in 0 .. n, NEW g, AreSeqs(g, n, S),
         \A i \in k + 1 .. n : g[i] = <<>>
  PROVE  Flat(g, n) = Flat(g, k)
<1> DEFINE P == {j \in Nat : k + j <= n => Flat(g, k + j) = Flat(g, k)}
<1>1. 0 \in P
  OBVIOUS
<1>2. ASSUME NEW j \in Nat, j \in P PROVE j + 1 \in P
  <2>1. SUFFICES ASSUME k + (j + 1) <= n PROVE Flat(g, k + (j + 1)) = Flat(g, k)
    OBVIOUS
  <2> DEFINE c == k + j
             d == k + (j + 1)
  <2>2. /\ c \in Nat /\ d \in Nat /\ d = c + 1 /\ d \in 0 .. n
        /\ c <= n /\ d \in k + 1 .. n
    BY <2>1
  <2> HIDE DEF c, d
  <2>3. AreSeqs(g, d, S)
    BY <2>2, FewerAreSeqs
  <2>4. /\ IsConcat(Flat(g, d), Flat(g, c), g[d]) /\ Flat(g, c) \in Seq(S)
        /\ g[d] \in Seq(S) /\ g[d] = <<>>
    BY <2>2, <2>3, FlatStep
  <2>5. Flat(g, d) = Flat(g, c)
    <3>1. IsConcat(Flat(g, d), Flat(g, c), <<>>)
      BY <2>4, Zenon
    <3>2. QED
      BY <2>4, <3>1, ConcatEmptySeq, Zenon DEF IsConcat
  <2>6. QED
    BY <1>2, <2>2, <2>5 DEF c, d
<1>3. Nat \subseteq P
  <2> HIDE DEF P
  <2>1. QED
    BY <1>1, <1>2, Induction
<1>4. n - k \in Nat /\ k + (n - k) = n /\ n <= n
  OBVIOUS
<1>5. k + (n - k) <= n => Flat(g, k + (n - k)) = Flat(g, k)
  BY <1>3, <1>4
<1>6. QED
  BY <1>4, <1>5

(* f has at i what h has at j: a predicate for the same reason.            *)
SameAt(f, i, h, j) == f[i] = h[j]

(* Which entry an element of Flat comes from, and its place there.         *)
LEMMA FlatElement ==
  ASSUME NEW S, NEW n \in Nat, NEW g, AreSeqs(g, n, S),
         NEW i \in 1 .. Len(Flat(g, n))
  PROVE  \E k \in 1 .. n : /\ Len(Flat(g, k - 1)) < i /\ i <= Len(Flat(g, k))
                          /\ \E j \in 1 .. Len(g[k]) :
                                i = Len(Flat(g, k - 1)) + j /\ SameAt(Flat(g, n), i, g[k], j)
<1> DEFINE K == {k \in 0 .. n : i <= Len(Flat(g, k))}
<1>1. n \in K
  OBVIOUS
<1>2. PICK k \in 0 .. n : k \in K /\ \A j \in K : k <= j
  <2>1. K \subseteq Nat /\ K # {}
    BY <1>1
  <2>2. \E k \in K : \A j \in K : k <= j
    <3> HIDE DEF K
    <3>1. QED
      BY <2>1, LeastElement
  <2>3. QED
    BY <2>2
<1>3. k # 0
  <2>1. SUFFICES ASSUME k = 0 PROVE FALSE
    OBVIOUS
  <2>2. Len(Flat(g, k)) = 0
    BY <2>1, FlatZero
  <2>3. QED
    BY <1>2, <2>2
<1>4. PICK p \in 0 .. n : k = p + 1 /\ p = k - 1 /\ k \in 1 .. n
  BY <1>3
<1>5. i <= Len(Flat(g, k)) /\ ~(i <= Len(Flat(g, p)))
  BY <1>2, <1>4
<1> HIDE DEF K
<1>6. AreSeqs(g, k, S)
  BY FewerAreSeqs
<1>7. /\ IsConcat(Flat(g, k), Flat(g, p), g[k])
      /\ Flat(g, p) \in Seq(S) /\ g[k] \in Seq(S)
  BY <1>4, <1>6, FlatStep
<1>8. PICK rest \in Seq(S) : IsConcat(Flat(g, n), Flat(g, k), rest)
  BY FlatGrows
<1>9. Flat(g, k) \in Seq(S)
  BY FlatGrows
<1>10. Flat(g, n)[i] = Flat(g, k)[i]
  BY <1>5, <1>8, <1>9, ConcatIs
<1>11. /\ Len(Flat(g, p)) \in Nat /\ Len(g[k]) \in Nat
       /\ Len(Flat(g, k)) = Len(Flat(g, p)) + Len(g[k])
       /\ \A j \in 1 .. Len(g[k]) : Flat(g, k)[Len(Flat(g, p)) + j] = g[k][j]
  BY <1>7, ConcatIs
<1>12. Len(Flat(g, p)) < i
  BY <1>5, <1>11
<1>13. PICK j \in 1 .. Len(g[k]) : i = Len(Flat(g, p)) + j
  <2>1. /\ i - Len(Flat(g, p)) \in 1 .. Len(g[k])
        /\ i = Len(Flat(g, p)) + (i - Len(Flat(g, p)))
    BY <1>5, <1>11, <1>12
  <2>2. QED
    BY <2>1
<1>14. Flat(g, k)[i] = g[k][j]
  BY <1>11, <1>13
<1>15. SameAt(Flat(g, n), i, g[k], j)
  BY <1>10, <1>14 DEF SameAt
<1>16. QED
  BY <1>4, <1>5, <1>12, <1>13, <1>15

(* Every element of an entry is in Flat, at its place after the entries    *)
(* before it.                                                              *)
LEMMA FlatHas ==
  ASSUME NEW S, NEW n \in Nat, NEW g, AreSeqs(g, n, S),
         NEW k \in 1 .. n, NEW p \in 0 .. n, k = p + 1,
         NEW j \in 1 .. Len(g[k]), NEW i \in Nat, i = Len(Flat(g, p)) + j
  PROVE  i \in 1 .. Len(Flat(g, n)) /\ SameAt(Flat(g, n), i, g[k], j)
<1>1. p \in Nat /\ k \in Nat /\ k \in 0 .. n
  OBVIOUS
<1>2. AreSeqs(g, k, S)
  BY <1>1, FewerAreSeqs
<1>3. /\ IsConcat(Flat(g, k), Flat(g, p), g[k])
      /\ Flat(g, p) \in Seq(S) /\ g[k] \in Seq(S)
  BY <1>1, <1>2, FlatStep
<1>4. PICK rest \in Seq(S) : IsConcat(Flat(g, n), Flat(g, k), rest)
  BY <1>1, FlatGrows
<1>5. /\ Len(Flat(g, p)) \in Nat /\ Len(g[k]) \in Nat /\ Flat(g, k) \in Seq(S)
      /\ Len(Flat(g, k)) = Len(Flat(g, p)) + Len(g[k])
      /\ \A x \in 1 .. Len(g[k]) : Flat(g, k)[Len(Flat(g, p)) + x] = g[k][x]
  BY <1>3, ConcatIs
<1>6. /\ Len(rest) \in Nat /\ Len(Flat(g, n)) = Len(Flat(g, k)) + Len(rest)
      /\ \A x \in 1 .. Len(Flat(g, k)) : Flat(g, n)[x] = Flat(g, k)[x]
  BY <1>4, <1>5, ConcatIs
<1>7. /\ Len(Flat(g, p)) + j \in 1 .. Len(Flat(g, k))
      /\ Len(Flat(g, p)) + j \in 1 .. Len(Flat(g, n))
  BY <1>5, <1>6
<1>8. Flat(g, n)[Len(Flat(g, p)) + j] = g[k][j]
  BY <1>5, <1>6, <1>7
<1>9. QED
  BY <1>1, <1>5, <1>7, <1>8 DEF SameAt

(* Entries of equal lengths flatten to equal lengths.                      *)
LEMMA FlatLengths ==
  ASSUME NEW S, NEW T, NEW n \in Nat, NEW g, NEW h, AreSeqs(g, n, S), AreSeqs(h, n, T),
         \A i \in 1 .. n : Len(g[i]) = Len(h[i])
  PROVE  \A k \in 0 .. n : Len(Flat(g, k)) = Len(Flat(h, k))
<1> DEFINE P == {k \in Nat : k <= n => Len(Flat(g, k)) = Len(Flat(h, k))}
<1>1. 0 \in P
  BY FlatZero
<1>2. ASSUME NEW k \in Nat, k \in P PROVE k + 1 \in P
  <2>1. SUFFICES ASSUME NEW l \in 1 .. n, l = k + 1 PROVE Len(Flat(g, l)) = Len(Flat(h, l))
    OBVIOUS
  <2>2. l \in Nat /\ l \in 0 .. n /\ k <= n
    BY <2>1
  <2>3. AreSeqs(g, l, S) /\ AreSeqs(h, l, T)
    BY <2>2, FewerAreSeqs
  <2>4. /\ IsConcat(Flat(g, l), Flat(g, k), g[l])
        /\ Flat(g, k) \in Seq(S) /\ g[l] \in Seq(S)
    BY <2>1, <2>2, <2>3, FlatStep
  <2>5. /\ IsConcat(Flat(h, l), Flat(h, k), h[l])
        /\ Flat(h, k) \in Seq(T) /\ h[l] \in Seq(T)
    BY <2>1, <2>2, <2>3, FlatStep
  <2>6. Len(Flat(g, l)) = Len(Flat(g, k)) + Len(g[l])
    BY <2>4, ConcatIs
  <2>7. Len(Flat(h, l)) = Len(Flat(h, k)) + Len(h[l])
    BY <2>5, ConcatIs
  <2>8. Len(Flat(g, k)) = Len(Flat(h, k)) /\ Len(g[l]) = Len(h[l])
    BY <1>2, <2>2
  <2>9. QED
    BY <2>6, <2>7, <2>8
<1>3. Nat \subseteq P
  <2> HIDE DEF P
  <2>1. QED
    BY <1>1, <1>2, Induction
<1>4. QED
  BY <1>3
-------------------------------------------------------------------------------
(* FirstOf is what its name says: the first entry of the order that is a   *)
(* fault, or "ok" if none is.                                              *)
LEMMA FirstOfIs ==
  ASSUME NEW order, DOMAIN order \subseteq Nat, NEW f,
          NEW i \in DOMAIN order, order[i] \in f,
         \A j \in DOMAIN order : j < i => order[j] \notin f
  PROVE  FirstOf(order, f) = order[i]
<1> DEFINE found == {k \in DOMAIN order : order[k] \in f}
<1>2. i \in found /\ \A j \in found : i <= j
  OBVIOUS
<1>3. \A k \in found : (\A j \in found : k <= j) => k = i
  BY <1>2
<1>4. (CHOOSE k \in found : \A j \in found : k <= j) = i
  BY <1>2, <1>3
<1>5. QED
  BY <1>2, <1>4 DEF FirstOf

(* A body with none of the faults is in order. *)
LEMMA NoneOf ==
  ASSUME NEW order, NEW f, \A j \in DOMAIN order : order[j] \notin f
  PROVE  FirstOf(order, f) = "ok"
BY DEF FirstOf

(* The handler's two groups of tests, one after the other, find what the   *)
(* command line's one list finds, and each group reports its own faults    *)
(* only: "Mirrors routes/check.rs's validation order" (cli.rs:398).        *)
THEOREM SameOrder ==
  ASSUME NEW f
  PROVE  /\ FirstOf(CliTests, f) = IF FirstOf(BeforeInputBytes, f) # "ok"
                                   THEN FirstOf(BeforeInputBytes, f)
                                   ELSE FirstOf(AfterInputBytes, f)
         /\ FirstOf(BeforeInputBytes, f) \in {"ok", "bad_request", "empty_text"}
         /\ FirstOf(AfterInputBytes, f) \in {"ok", "invalid_mode", "empty_langs",
                                             "unknown_language", "too_large"}
<1> DEFINE B == BeforeInputBytes
           A == AfterInputBytes
           C == CliTests
<1>1. DOMAIN B = 1 .. 2 /\ DOMAIN A = 1 .. 4 /\ DOMAIN C = 1 .. 6
  BY DEF BeforeInputBytes, AfterInputBytes, CliTests
<1>2. /\ B[1] = "bad_request" /\ B[2] = "empty_text"
      /\ A[1] = "invalid_mode" /\ A[2] = "empty_langs"
      /\ A[3] = "unknown_language" /\ A[4] = "too_large"
      /\ C[1] = B[1] /\ C[2] = B[2]
      /\ C[3] = A[1] /\ C[4] = A[2] /\ C[5] = A[3] /\ C[6] = A[4]
  BY DEF BeforeInputBytes, AfterInputBytes, CliTests
<1> HIDE DEF A, B, C
<1>3. /\ B[1] \in f => FirstOf(B, f) = B[1]
      /\ B[1] \notin f /\ B[2] \in f => FirstOf(B, f) = B[2]
      /\ B[1] \notin f /\ B[2] \notin f => FirstOf(B, f) = "ok"
  BY <1>1, FirstOfIs, NoneOf
<1>4. /\ A[1] \in f => FirstOf(A, f) = A[1]
      /\ A[1] \notin f /\ A[2] \in f => FirstOf(A, f) = A[2]
      /\ {A[1], A[2]} \cap f = {} /\ A[3] \in f => FirstOf(A, f) = A[3]
      /\ {A[1], A[2], A[3]} \cap f = {} /\ A[4] \in f => FirstOf(A, f) = A[4]
      /\ {A[1], A[2], A[3], A[4]} \cap f = {} => FirstOf(A, f) = "ok"
  BY <1>1, FirstOfIs, NoneOf
<1>5. /\ B[1] \in f => FirstOf(C, f) = B[1]
      /\ B[1] \notin f /\ B[2] \in f => FirstOf(C, f) = B[2]
  BY <1>1, <1>2, FirstOfIs
<1>6. ASSUME B[1] \notin f, B[2] \notin f
      PROVE  FirstOf(C, f) = FirstOf(A, f)
  <2>1. CASE A[1] \in f
    BY <1>1, <1>2, <1>4, <1>6, <2>1, FirstOfIs
  <2>2. CASE A[1] \notin f /\ A[2] \in f
    BY <1>1, <1>2, <1>4, <1>6, <2>2, FirstOfIs
  <2>3. CASE {A[1], A[2]} \cap f = {} /\ A[3] \in f
    <3>1. FirstOf(C, f) = C[5]
      BY <1>1, <1>2, <1>6, <2>3, FirstOfIs
    <3>2. QED
      BY <1>2, <1>4, <2>3, <3>1
  <2>4. CASE {A[1], A[2], A[3]} \cap f = {} /\ A[4] \in f
    <3>1. FirstOf(C, f) = C[6]
      BY <1>1, <1>2, <1>6, <2>4, FirstOfIs
    <3>2. QED
      BY <1>2, <1>4, <2>4, <3>1
  <2>5. CASE {A[1], A[2], A[3], A[4]} \cap f = {}
    <3>1. FirstOf(C, f) = "ok"
      BY <1>1, <1>2, <1>6, <2>5, NoneOf
    <3>2. QED
      BY <1>4, <2>5, <3>1
  <2>6. QED
    BY <2>1, <2>2, <2>3, <2>4, <2>5
<1>7. QED
  BY <1>2, <1>3, <1>4, <1>5, <1>6 DEF A, B, C

-------------------------------------------------------------------------------
(* Max of some of the numbers from 1 to n is the greatest of them.         *)
LEMMA MaxIs ==
  ASSUME NEW n \in Nat, NEW s \in SUBSET (1 .. n), s # {}
  PROVE  Max(s) \in s /\ \A j \in s : j <= Max(s)
<1>1. PICK i \in s : \A j \in s : j <= i
  <2>1. s \subseteq Nat /\ \A j \in s : j <= n
    OBVIOUS
  <2>2. QED
    BY <2>1, GreatestElement
<1>2. \E x \in s : \A j \in s : x >= j
  BY <1>1
<1>3. /\ Max(s) \in s
      /\ \A j \in s : Max(s) >= j
  BY <1>2, Zenon DEF Max
<1>4. QED
  BY <1>3

(* ... and there is one such number only.                                  *)
LEMMA MaxOf ==
  ASSUME NEW n \in Nat, NEW s \in SUBSET (1 .. n), NEW i \in s, \A j \in s : j <= i
  PROVE  Max(s) = i
<1>1. Max(s) \in s /\ \A j \in s : j <= Max(s)
  <2>1. s # {}
    OBVIOUS
  <2>2. QED
    BY <2>1, MaxIs, Zenon
<1>2. PICK x \in s : x = Max(s)
  BY <1>1
<1>3. x <= i /\ i <= x /\ x \in 1 .. n /\ i \in 1 .. n
  BY <1>1, <1>2
<1>4. x = i
  BY <1>3
<1>5. QED
  BY <1>2, <1>4

(***************************************************************************)
(* FoldLeft picks a function by its recursion over the sets of places, the *)
(* last one of a set first.  h is one for the first n places, where step   *)
(* gives what place k makes of a value in V.                               *)
(***************************************************************************)
FoldTo(n, V, base, step, h) ==
  /\ h \in [SUBSET (1 .. n) -> V]
  /\ \A s \in SUBSET (1 .. n) :
       h[s] = IF s = {} THEN base ELSE step[Max(s)][h[s \ {Max(s)}]]

(* There is one: by induction on the number of places.                     *)
LEMMA FoldExists ==
  ASSUME NEW n \in Nat, NEW V, NEW base \in V, NEW step \in [1 .. n -> [V -> V]]
  PROVE  \E h : FoldTo(n, V, base, step, h)
<1> DEFINE P == {m \in Nat : m <= n => \E h : FoldTo(m, V, base, step, h)}
<1>1. 0 \in P
  <2> DEFINE h == [s \in SUBSET (1 .. 0) |-> base]
  <2>1. \A s \in SUBSET (1 .. 0) : s = {}
    OBVIOUS
  <2>2. FoldTo(0, V, base, step, h)
    BY <2>1, Zenon DEF FoldTo
  <2>3. QED
    BY <2>2
<1>2. ASSUME NEW m \in Nat, m \in P PROVE m + 1 \in P
  <2>1. SUFFICES ASSUME NEW l \in 1 .. n, l = m + 1
                 PROVE  \E h : FoldTo(l, V, base, step, h)
    OBVIOUS
  <2>2. m <= n /\ l \in Nat
    BY <2>1
  <2>3. PICK g : FoldTo(m, V, base, step, g)
    BY <1>2, <2>2
  <2>a. /\ g \in [SUBSET (1 .. m) -> V]
        /\ \A s \in SUBSET (1 .. m) :
             g[s] = IF s = {} THEN base ELSE step[Max(s)][g[s \ {Max(s)}]]
    BY <2>3, Zenon DEF FoldTo
  <2> DEFINE h == [s \in SUBSET (1 .. l) |->
                     IF l \in s THEN step[l][g[s \ {l}]] ELSE g[s]]
  <2>b. \A s \in SUBSET (1 .. l) : /\ l \notin s => s \in SUBSET (1 .. m)
                                   /\ s \ {l} \in SUBSET (1 .. m)
    <3>1. \A j \in 1 .. l : j # l => j \in 1 .. m
      BY <2>1
    <3>2. QED
      BY <3>1
  <2>4. h \in [SUBSET (1 .. l) -> V]
    <3>1. ASSUME NEW s \in SUBSET (1 .. l)
          PROVE  (IF l \in s THEN step[l][g[s \ {l}]] ELSE g[s]) \in V
      <4>1. CASE l \in s
        <5>1. g[s \ {l}] \in V
          BY <2>a, <2>b
        <5>2. step[l][g[s \ {l}]] \in V
          BY <5>1
        <5>3. QED
          BY <4>1, <5>2
      <4>2. CASE l \notin s
        BY <2>a, <2>b, <4>2
      <4>3. QED
        BY <4>1, <4>2
    <3>2. QED
      BY <3>1
  <2>5. ASSUME NEW s \in SUBSET (1 .. l)
        PROVE  h[s] = IF s = {} THEN base ELSE step[Max(s)][h[s \ {Max(s)}]]
    <3>0. h[s] = IF l \in s THEN step[l][g[s \ {l}]] ELSE g[s]
      OBVIOUS
    <3>1. CASE l \in s
      <4>1. Max(s) = l
        <5>1. \A j \in s : j <= l
          BY <2>2
        <5>2. QED
          BY <2>2, <3>1, <5>1, MaxOf
      <4>2. h[s \ {l}] = g[s \ {l}]
        <5>1. s \ {l} \in SUBSET (1 .. l) /\ l \notin s \ {l}
          OBVIOUS
        <5>2. QED
          BY <5>1
      <4> HIDE DEF h
      <4>3. QED
        BY <3>0, <3>1, <4>1, <4>2
    <3>2. CASE l \notin s
      <4>1. s \in SUBSET (1 .. m)
        BY <2>b, <3>2
      <4>2. g[s] = IF s = {} THEN base ELSE step[Max(s)][g[s \ {Max(s)}]]
        BY <2>a, <4>1
      <4>3. ASSUME NEW r \in SUBSET (1 .. l), r = s \ {Max(s)}
            PROVE  h[r] = g[r]
        BY <3>2, <4>3
      <4>4. s \ {Max(s)} \in SUBSET (1 .. l)
        OBVIOUS
      <4>5. h[s \ {Max(s)}] = g[s \ {Max(s)}]
        BY <4>3, <4>4, Zenon
      <4> HIDE DEF h
      <4>6. QED
        BY <3>0, <3>2, <4>2, <4>5
    <3>3. QED
      BY <3>1, <3>2
  <2> HIDE DEF h
  <2>6. FoldTo(l, V, base, step, h)
    BY <2>4, <2>5, Zenon DEF FoldTo
  <2>7. QED
    BY <2>6
<1>3. QED
  <2> HIDE DEF P
  <2>1. n \in P
    BY <1>1, <1>2, Induction
  <2>2. QED
    BY <2>1 DEF P

(* What a fold has made of the first k places.                             *)
LEMMA FirstPlaces ==
  ASSUME NEW n \in Nat, NEW k \in 1 .. n
  PROVE  /\ 1 .. k \in SUBSET (1 .. n) /\ 1 .. k # {}
         /\ Max(1 .. k) = k
         /\ (1 .. k) \ {k} = 1 .. (k - 1)
<1>1. 1 .. k \in SUBSET (1 .. n) /\ k \in 1 .. k /\ \A j \in 1 .. k : j <= k
  OBVIOUS
<1>2. Max(1 .. k) = k
  BY <1>1, MaxOf
<1>3. (1 .. k) \ {k} = 1 .. (k - 1)
  OBVIOUS
<1>4. QED
  BY <1>1, <1>2, <1>3
=============================================================================
