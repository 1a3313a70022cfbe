--------------------------- MODULE Detection_proofs ---------------------------
(***************************************************************************)
(* Theorems about Detection and Languages: that the scan engine detects    *)
(* what the abstract definition of detection says, for every alphabet,     *)
(* folding, word list, text, list of languages, mode and cap.              *)
(*                                                                         *)
(* First what the definitions compute: positions of codepoints, the        *)
(* leftmost-longest hits, the list of reports as a flattened sequence, and *)
(* the folded text as one.  Then three invariants beside Scan's own, each  *)
(* with the theorems it gives: NormInv for the normalizer, ModesInv for    *)
(* the languages entered, MatchInv for the match list, which says that     *)
(* what is found so far is the abstract list up to find_iter's position.   *)
(***************************************************************************)
EXTENDS Languages, Scan_proofs

-------------------------------------------------------------------------------
(***************************************************************************)
(* The positions of codepoints.  ByteOf is a sum over a set, in an order   *)
(* that CHOOSE decides; SumOf is the sum in the order of the numbers.      *)
(***************************************************************************)
IsSum(t, n, s, f) ==
  /\ f \in [0 .. n -> Nat] /\ f[0] = 0
  /\ \A k \in 1 .. n : f[k] = f[k - 1] + IF k \in s THEN Width[t[k]] ELSE 0

SumOf(t, n, s) == (CHOOSE f : IsSum(t, n, s, f))[n]

(* The widths of a text are numbers.                                       *)
LEMMA WidthType ==
  ASSUME NEW t \in Seq(Codepoints), NEW k \in 1 .. Len(t)
  PROVE  t[k] \in Codepoints /\ Width[t[k]] \in Nat /\ Width[t[k]] > 0
<1>1. t[k] \in Codepoints
  BY ElementOfSeq
<1>2. Width[t[k]] \in 1 .. 4
  BY <1>1, SourceTextAssumption
<1>3. QED
  BY <1>1, <1>2

(* The sums exist.                                                         *)
LEMMA SumExists ==
  ASSUME NEW t \in Seq(Codepoints), NEW n \in 0 .. Len(t), NEW s
  PROVE  \E f : IsSum(t, n, s, f)
<1> DEFINE P == {k \in Nat : k <= n => \E f : IsSum(t, k, s, f)}
<1>1. 0 \in P
  <2>1. IsSum(t, 0, s, [k \in 0 .. 0 |-> 0])
    BY DEF IsSum
  <2>2. QED
    BY <2>1
<1>2. ASSUME NEW k \in Nat, k \in P PROVE k + 1 \in P
  <2>1. SUFFICES ASSUME NEW l \in 1 .. n, l = k + 1 PROVE \E f : IsSum(t, l, s, f)
    OBVIOUS
  <2>2. PICK f : IsSum(t, k, s, f)
    BY <1>2, <2>1
  <2>3. PICK w \in Nat : w = IF l \in s THEN Width[t[l]] ELSE 0
    <3>1. Width[t[l]] \in Nat
      BY WidthType
    <3>2. QED
      BY <3>1
  <2> DEFINE g == [i \in 0 .. l |-> IF i = l THEN f[k] + w ELSE f[i]]
  <2>4. f \in [0 .. k -> Nat] /\ f[0] = 0 /\ f[k] \in Nat
    BY <2>2 DEF IsSum
  <2>5. g \in [0 .. l -> Nat] /\ g[0] = 0
    BY <2>1, <2>4
  <2>6. ASSUME NEW i \in 1 .. l
        PROVE  g[i] = g[i - 1] + IF i \in s THEN Width[t[i]] ELSE 0
    <3>1. CASE i = l
      <4>1. g[i] = f[k] + w /\ i - 1 = k /\ g[k] = f[k]
        BY <2>1, <3>1
      <4>2. QED
        BY <2>3, <3>1, <4>1
    <3>2. CASE i # l
      <4>1. i \in 1 .. k /\ g[i] = f[i] /\ g[i - 1] = f[i - 1]
        BY <2>1, <3>2
      <4>2. f[i] = f[i - 1] + IF i \in s THEN Width[t[i]] ELSE 0
        BY <2>2, <4>1 DEF IsSum
      <4>3. QED
        BY <4>1, <4>2
    <3>3. QED
      BY <3>1, <3>2
  <2> HIDE DEF g
  <2>7. QED
    BY <2>5, <2>6 DEF IsSum
<1>3. Nat \subseteq P
  <2> HIDE DEF P
  <2>1. QED
    BY <1>1, <1>2, Induction
<1>4. n \in Nat /\ n <= n
  OBVIOUS
<1>5. QED
  BY <1>3, <1>4

(* The sum over a set with x is larger by the width at x than without.     *)
LEMMA SumAdds ==
  ASSUME NEW t \in Seq(Codepoints), NEW n \in 0 .. Len(t), NEW s,
         NEW x \in 1 .. n, x \in s, NEW r, r = s \ {x}
  PROVE  /\ SumOf(t, n, r) \in Nat
         /\ SumOf(t, n, s) = Width[t[x]] + SumOf(t, n, r)
<1> DEFINE f == CHOOSE g : IsSum(t, n, s, g)
           h == CHOOSE g : IsSum(t, n, r, g)
<1>1. IsSum(t, n, s, f) /\ IsSum(t, n, r, h)
  BY SumExists, Zenon
<1> HIDE DEF f, h
<1>2. PICK w \in Nat : w = Width[t[x]]
  BY WidthType
<1> DEFINE P == {k \in Nat : k <= n => f[k] = h[k] + IF x <= k THEN w ELSE 0}
<1>3. 0 \in P
  BY <1>1 DEF IsSum
<1>4. ASSUME NEW k \in Nat, k \in P PROVE k + 1 \in P
  <2>1. SUFFICES ASSUME NEW l \in 1 .. n, l = k + 1
                 PROVE  f[l] = h[l] + IF x <= l THEN w ELSE 0
    OBVIOUS
  <2>2. f[k] = h[k] + IF x <= k THEN w ELSE 0
    BY <1>4, <2>1
  <2>3. PICK v \in Nat : v = Width[t[l]]
    BY WidthType
  <2>4. l - 1 = k /\ k \in 0 .. n
    BY <2>1
  <2>5. /\ f[l] = f[k] + IF l \in s THEN v ELSE 0
        /\ h[l] = h[k] + IF l \in r THEN v ELSE 0
    BY <1>1, <2>3, <2>4 DEF IsSum
  <2>6. f[k] \in Nat /\ h[k] \in Nat
    BY <1>1, <2>4 DEF IsSum
  <2>7. CASE l = x
    <3>1. v = w /\ f[l] = f[k] + v /\ h[l] = h[k] /\ f[k] = h[k]
      BY <1>2, <2>1, <2>2, <2>3, <2>5, <2>6, <2>7
    <3>2. QED
      BY <2>6, <2>7, <3>1
  <2>8. CASE l # x
    <3>1. x <= l <=> x <= k
      BY <2>1, <2>8
    <3>2. QED
      BY <2>2, <2>5, <2>6, <2>8, <3>1
  <2>9. QED
    BY <2>7, <2>8
<1>5. Nat \subseteq P
  <2> HIDE DEF P
  <2>1. QED
    BY <1>3, <1>4, Induction
<1>6. n \in Nat /\ n <= n /\ x <= n /\ h[n] \in Nat
  BY <1>1 DEF IsSum
<1>7. f[n] = w + h[n]
  BY <1>5, <1>6
<1>8. QED
  BY <1>2, <1>6, <1>7 DEF SumOf, f, h

(* The sum over nothing is zero.                                           *)
LEMMA SumZero ==
  ASSUME NEW t \in Seq(Codepoints), NEW n \in 0 .. Len(t)
  PROVE  SumOf(t, n, {}) = 0
<1> DEFINE f == CHOOSE g : IsSum(t, n, {}, g)
<1>1. IsSum(t, n, {}, f)
  BY SumExists, Zenon
<1> HIDE DEF f
<1> DEFINE P == {k \in Nat : k <= n => f[k] = 0}
<1>2. 0 \in P
  BY <1>1 DEF IsSum
<1>3. ASSUME NEW k \in Nat, k \in P PROVE k + 1 \in P
  <2>1. SUFFICES ASSUME NEW l \in 1 .. n, l = k + 1 PROVE f[l] = 0
    OBVIOUS
  <2>2. l - 1 = k /\ f[k] = 0
    BY <1>3, <2>1
  <2>3. f[l] = f[l - 1] + 0
    BY <1>1 DEF IsSum
  <2>4. QED
    BY <2>2, <2>3
<1>4. Nat \subseteq P
  <2> HIDE DEF P
  <2>1. QED
    BY <1>2, <1>3, Induction
<1>5. n \in Nat /\ n <= n
  OBVIOUS
<1>6. QED
  BY <1>4, <1>5 DEF SumOf, f

(* So the set may be summed up in any order, and ByteOf is SumOf.          *)
LEMMA ByteOfIsSum ==
  ASSUME NEW t \in Seq(Codepoints), NEW n \in 0 .. Len(t), NEW k \in Nat, k = n + 1
  PROVE  ByteOf(t, k) = SumOf(t, n, 1 .. n)
<1> DEFINE D == 1 .. n
           R(g) == g = [s \in SUBSET D |->
                          IF s = {} THEN 0
                          ELSE LET x == CHOOSE y \in s : TRUE
                               IN  Width[t[x]] + g[s \ {x}]]
           sums == [s \in SUBSET D |-> SumOf(t, n, s)]
           h == CHOOSE g : R(g)
<1>0. k - 1 = n
  OBVIOUS
<1>a. ASSUME NEW s, NEW x \in 1 .. n, x \in s
      PROVE  SumOf(t, n, s) = Width[t[x]] + SumOf(t, n, s \ {x})
  <2>1. PICK r : r = s \ {x}
    OBVIOUS
  <2>2. SumOf(t, n, s) = Width[t[x]] + SumOf(t, n, r)
    BY <1>a, <2>1, SumAdds
  <2>3. QED
    BY <2>1, <2>2
<1>1. R(sums)
  <2>1. ASSUME NEW s \in SUBSET D
        PROVE  sums[s] = IF s = {} THEN 0
                         ELSE LET x == CHOOSE y \in s : TRUE
                              IN  Width[t[x]] + sums[s \ {x}]
    <3>1. CASE s = {}
      BY <3>1, SumZero
    <3>2. CASE s # {}
      <4> DEFINE x == CHOOSE y \in s : TRUE
      <4>1. x \in s /\ x \in 1 .. n /\ s \ {x} \in SUBSET D
        BY <3>2
      <4> HIDE DEF x
      <4>2. SumOf(t, n, s) = Width[t[x]] + SumOf(t, n, s \ {x})
        BY <1>a, <4>1, Zenon
      <4>3. sums[s] = Width[t[x]] + sums[s \ {x}]
        BY <4>1, <4>2
      <4>4. QED
        BY <3>2, <4>3 DEF x
    <3>3. QED
      BY <3>1, <3>2
  <2>2. sums = [s \in SUBSET D |-> sums[s]]
    OBVIOUS
  <2> HIDE DEF sums
  <2>3. QED
    BY <2>1, <2>2
<1>2. R(h)
  <2> HIDE DEF R
  <2>1. QED
    BY <1>1
<1>3. ByteOf(t, k) = h[D]
  BY <1>0 DEF ByteOf, MapThenSumSet, MapThenFoldSet
<1> HIDE DEF h
<1>4. ASSUME NEW s \in SUBSET D, s # {}
      PROVE  \E x \in 1 .. n : x \in s /\ h[s] = Width[t[x]] + h[s \ {x}]
  <2> DEFINE x == CHOOSE y \in s : TRUE
  <2>1. h[s] = Width[t[x]] + h[s \ {x}]
    BY <1>2, <1>4
  <2>2. x \in s /\ x \in 1 .. n
    BY <1>4
  <2> HIDE DEF x
  <2>3. QED
    BY <2>1, <2>2
<1>5. h[{}] = 0
  BY <1>2
<1> DEFINE P == {j \in Nat : \A s \in SUBSET D :
                               IsFiniteSet(s) /\ Cardinality(s) = j => h[s] = SumOf(t, n, s)}
<1>6. 0 \in P
  <2> SUFFICES ASSUME NEW s \in SUBSET D, IsFiniteSet(s), Cardinality(s) = 0
               PROVE  h[s] = SumOf(t, n, s)
    OBVIOUS
  <2>1. s = {}
    BY FS_EmptySet
  <2>2. QED
    BY <1>5, <2>1, SumZero
<1>7. ASSUME NEW j \in Nat, j \in P PROVE j + 1 \in P
  <2> SUFFICES ASSUME NEW s \in SUBSET D, IsFiniteSet(s), Cardinality(s) = j + 1
               PROVE  h[s] = SumOf(t, n, s)
    OBVIOUS
  <2>1. s # {}
    BY FS_EmptySet
  <2>2. PICK x \in 1 .. n : x \in s /\ h[s] = Width[t[x]] + h[s \ {x}]
    BY <1>4, <2>1
  <2>3. s \ {x} \in SUBSET D /\ IsFiniteSet(s \ {x}) /\ Cardinality(s \ {x}) = j
    <3>1. IsFiniteSet(s \ {x}) /\ Cardinality(s \ {x}) = Cardinality(s) - 1
      BY <2>2, FS_RemoveElement, Zenon
    <3>2. QED
      BY <3>1
  <2>4. h[s \ {x}] = SumOf(t, n, s \ {x})
    BY <1>7, <2>3
  <2>5. SumOf(t, n, s) = Width[t[x]] + SumOf(t, n, s \ {x})
    BY <2>2, <1>a
  <2>6. QED
    BY <2>2, <2>4, <2>5
<1>8. Nat \subseteq P
  <2> HIDE DEF P
  <2>1. QED
    BY <1>6, <1>7, Induction
<1>9. IsFiniteSet(D) /\ Cardinality(D) \in Nat /\ D \in SUBSET D
  BY FS_Interval, FS_CardinalityType
<1>10. h[D] = SumOf(t, n, D)
  BY <1>8, <1>9
<1>11. QED
  BY <1>3, <1>10

(* The first codepoint starts at byte 0, and each next one where the one   *)
(* before it ends.                                                         *)
LEMMA ByteOfStep ==
  ASSUME NEW t \in Seq(Codepoints)
  PROVE  /\ ByteOf(t, 1) = 0
         /\ \A k \in 1 .. Len(t) : /\ ByteOf(t, k) \in Nat
                                   /\ ByteOf(t, k + 1) = ByteOf(t, k) + Width[t[k]]
<1>0. Len(t) \in Nat
  BY LenProperties
<1>1. ByteOf(t, 1) = 0
  <2>1. 1 .. 0 = {} /\ 0 \in 0 .. Len(t)
    BY <1>0
  <2>2. ByteOf(t, 1) = SumOf(t, 0, 1 .. 0)
    BY <2>1, ByteOfIsSum
  <2>3. QED
    BY <2>1, <2>2, SumZero
<1>2. ASSUME NEW k \in 1 .. Len(t)
      PROVE  ByteOf(t, k) \in Nat /\ ByteOf(t, k + 1) = ByteOf(t, k) + Width[t[k]]
  <2>1. PICK p \in 0 .. Len(t) : k = p + 1 /\ p = k - 1
    BY <1>0
  <2>2. k \in 0 .. Len(t) /\ k \in Nat /\ k + 1 \in Nat
    BY <1>0
  <2> DEFINE f == CHOOSE g : IsSum(t, k, 1 .. k, g)
             h == CHOOSE g : IsSum(t, p, 1 .. p, g)
  <2>3. IsSum(t, k, 1 .. k, f) /\ IsSum(t, p, 1 .. p, h)
    BY <2>2, SumExists, Zenon
  <2>4. ByteOf(t, k + 1) = f[k] /\ ByteOf(t, k) = h[p]
    BY <2>1, <2>2, ByteOfIsSum DEF SumOf
  <2> HIDE DEF f, h
  <2> DEFINE P == {j \in Nat : j <= p => f[j] = h[j]}
  <2>5. 0 \in P
    BY <2>3 DEF IsSum
  <2>6. ASSUME NEW j \in Nat, j \in P PROVE j + 1 \in P
    <3>1. SUFFICES ASSUME NEW l \in 1 .. p, l = j + 1 PROVE f[l] = h[l]
      OBVIOUS
    <3>2. l - 1 = j /\ f[j] = h[j] /\ l \in 1 .. k
      BY <2>1, <2>6, <3>1
    <3>3. f[l] = f[l - 1] + Width[t[l]] /\ h[l] = h[l - 1] + Width[t[l]]
      BY <2>3, <3>2 DEF IsSum
    <3>4. QED
      BY <3>2, <3>3
  <2>7. Nat \subseteq P
    <3> HIDE DEF P
    <3>1. QED
      BY <2>5, <2>6, Induction
  <2>8. f[p] = h[p] /\ h[p] \in Nat
    <3>1. p \in Nat /\ p <= p /\ p \in 0 .. p
      OBVIOUS
    <3>2. QED
      BY <2>3, <2>7, <3>1 DEF IsSum
  <2>9. f[k] = f[p] + Width[t[k]]
    BY <2>1, <2>2, <2>3 DEF IsSum
  <2>10. QED
    BY <2>4, <2>8, <2>9
<1>3. QED
  BY <1>1, <1>2

(* Positions grow with the codepoints: no two start at the same byte, and  *)
(* the codepoint at the byte where the k-th starts is the k-th.            *)
LEMMA PositionsGrow ==
  ASSUME NEW t \in Seq(Codepoints), NEW j \in 1 .. Len(t), NEW k \in 1 .. Len(t), j < k
  PROVE  ByteOf(t, j) < ByteOf(t, k)
<1>0. Len(t) \in Nat
  BY LenProperties
<1> DEFINE P == {d \in Nat : j + d \in 1 .. Len(t) /\ d > 0 => ByteOf(t, j) < ByteOf(t, j + d)}
<1>1. 0 \in P
  OBVIOUS
<1>2. ASSUME NEW d \in Nat, d \in P PROVE d + 1 \in P
  <2>1. SUFFICES ASSUME NEW b \in 1 .. Len(t), b = j + d, NEW c \in 1 .. Len(t), c = j + (d + 1)
                 PROVE  ByteOf(t, j) < ByteOf(t, c)
    BY <1>0
  <2>2. c = b + 1
    BY <2>1
  <2>3. PICK w \in Nat : w = Width[t[b]] /\ w > 0
    BY WidthType
  <2>4. ByteOf(t, c) = ByteOf(t, b) + w /\ ByteOf(t, b) \in Nat /\ ByteOf(t, j) \in Nat
    BY <2>2, <2>3, ByteOfStep
  <2>5. ByteOf(t, j) <= ByteOf(t, b)
    <3>1. CASE d = 0
      BY <2>1, <2>4, <3>1
    <3>2. CASE d > 0
      BY <1>2, <2>1, <2>4, <3>2
    <3>3. QED
      BY <3>1, <3>2
  <2>6. QED
    BY <2>3, <2>4, <2>5
<1>3. Nat \subseteq P
  <2> HIDE DEF P
  <2>1. QED
    BY <1>1, <1>2, Induction
<1>4. k - j \in Nat /\ j + (k - j) = k /\ k - j > 0
  OBVIOUS
<1>5. QED
  BY <1>3, <1>4

(* No two codepoints start at one byte, so that the byte tells the         *)
(* codepoint.                                                              *)
LEMMA CodepointAtItsByte ==
  ASSUME NEW t \in Seq(Codepoints), NEW k \in 1 .. Len(t)
  PROVE  CodepointAt(t, ByteOf(t, k)) = t[k]
<1>1. ASSUME NEW j \in 1 .. Len(t), ByteOf(t, j) = ByteOf(t, k) PROVE j = k
  <2>1. ByteOf(t, j) \in Nat /\ ByteOf(t, k) \in Nat
    BY ByteOfStep
  <2>2. CASE j < k
    BY <1>1, <2>1, <2>2, PositionsGrow
  <2>3. CASE k < j
    BY <1>1, <2>1, <2>3, PositionsGrow
  <2>4. j \in Nat /\ k \in Nat
    OBVIOUS
  <2>5. QED
    BY <2>2, <2>3, <2>4
<1>2. (CHOOSE j \in 1 .. Len(t) : ByteOf(t, j) = ByteOf(t, k)) = k
  BY <1>1
<1>3. QED
  BY <1>2 DEF CodepointAt
-------------------------------------------------------------------------------
(***************************************************************************)
(* Leftmost-longest: the three conditions on C, so far as they concern     *)
(* occurrences that start before k.                                        *)
(***************************************************************************)
Disjoint(C) == \A c, d \in C : c # d => EndOf(c) <= d.n \/ EndOf(d) <= c.n

Longest(s, terms, C) ==
  \A c \in C, o \in Occurrences(s, terms) : o.n = c.n => Len(o.term) <= Len(c.term)

CoversTo(s, terms, C, k) ==
  \A o \in Occurrences(s, terms) \ C :
     o.n < k => \E c \in C : c.n <= o.n /\ o.n < EndOf(c)

(* An occurrence has a length and lies in the text.                        *)
LEMMA OccurrenceFacts ==
  ASSUME NEW s \in Seq(Letters), NEW terms, terms \subseteq Seq(Letters) \ {<<>>},
         NEW o \in Occurrences(s, terms)
  PROVE  /\ o = [n |-> o.n, term |-> o.term]
         /\ o.term \in terms /\ o.term \in Seq(Letters)
         /\ o.n \in Nat /\ Len(o.term) \in Nat /\ Len(o.term) > 0
         /\ EndOf(o) \in Nat /\ EndOf(o) = o.n + Len(o.term)
         /\ o.n < EndOf(o) /\ EndOf(o) <= Len(s)
         /\ SubSeq(s, o.n + 1, o.n + Len(o.term)) = o.term
<1>1. /\ o \in [n : 0 .. Len(s), term : terms]
      /\ o.n + Len(o.term) <= Len(s)
      /\ SubSeq(s, o.n + 1, o.n + Len(o.term)) = o.term
  BY DEF Occurrences
<1>2. /\ o = [n |-> o.n, term |-> o.term] /\ o.n \in 0 .. Len(s)
      /\ o.term \in terms /\ o.term \in Seq(Letters) /\ o.term # <<>>
  BY <1>1
<1>3. Len(o.term) \in Nat /\ Len(o.term) > 0
  BY <1>2, EmptySeq
<1>4. QED
  BY <1>1, <1>2, <1>3 DEF EndOf

(* Of the occurrences at one place there is a longest.                     *)
LEMMA LongestAt ==
  ASSUME NEW s \in Seq(Letters), NEW terms, terms \subseteq Seq(Letters) \ {<<>>},
         NEW o \in Occurrences(s, terms)
  PROVE  \E x \in Occurrences(s, terms) :
            /\ x.n = o.n
            /\ \A q \in Occurrences(s, terms) : q.n = o.n => Len(q.term) <= Len(x.term)
<1> DEFINE Lengths == {Len(q.term) : q \in {x \in Occurrences(s, terms) : x.n = o.n}}
<1>1. Len(s) \in Nat
  BY LenProperties
<1>2. \A q \in Occurrences(s, terms) : Len(q.term) \in Nat /\ Len(q.term) <= Len(s)
  <2> TAKE q \in Occurrences(s, terms)
  <2>1. /\ q.n \in Nat /\ Len(q.term) \in Nat
        /\ EndOf(q) = q.n + Len(q.term) /\ EndOf(q) <= Len(s)
    BY OccurrenceFacts
  <2>2. QED
    BY <1>1, <2>1
<1>3. Lengths \subseteq Nat /\ Lengths # {} /\ \A l \in Lengths : l <= Len(s)
  BY <1>2
<1>4. PICK l \in Lengths : \A j \in Lengths : j <= l
  <2> HIDE DEF Lengths
  <2>1. QED
    BY <1>1, <1>3, GreatestElement
<1>5. PICK x \in Occurrences(s, terms) : x.n = o.n /\ Len(x.term) = l
  OBVIOUS
<1>6. QED
  BY <1>4, <1>5

(* The set exists: going through the text, take the longest occurrence at  *)
(* each place that is not inside one taken before.                         *)
LEMMA LeftmostLongestIs ==
  ASSUME NEW s \in Seq(Letters), NEW terms, terms \subseteq Seq(Letters) \ {<<>>}
  PROVE  LET C == LeftmostLongest(s, terms)
         IN  /\ C \subseteq Occurrences(s, terms)
             /\ Disjoint(C) /\ Longest(s, terms, C)
             /\ CoversTo(s, terms, C, Len(s) + 1)
<1> DEFINE O == Occurrences(s, terms)
           Good(C, k) == /\ C \subseteq O /\ Disjoint(C) /\ Longest(s, terms, C)
                         /\ CoversTo(s, terms, C, k)
                         /\ \A c \in C : c.n < k
           P == {k \in Nat : \E C : Good(C, k)}
<1>0. Len(s) \in Nat
  BY LenProperties
<1>1. 0 \in P
  <2>1. \A o \in O : ~(o.n < 0)
    BY OccurrenceFacts
  <2>2. Good({}, 0)
    BY <2>1 DEF Disjoint, Longest, CoversTo
  <2>3. QED
    BY <2>2
<1>2. ASSUME NEW k \in Nat, k \in P PROVE k + 1 \in P
  <2>1. PICK C : Good(C, k)
    BY <1>2
  <2>0. \A o \in O : /\ o.n \in Nat /\ EndOf(o) \in Nat /\ o.n < EndOf(o)
                    /\ (o.n < k + 1 <=> o.n < k \/ o.n = k)
    <3> TAKE o \in O
    <3>1. o.n \in Nat /\ EndOf(o) \in Nat /\ o.n < EndOf(o)
      BY OccurrenceFacts
    <3>2. QED
      BY <3>1
  <2>2. CASE \E c \in C : c.n <= k /\ k < EndOf(c)
    <3>1. CoversTo(s, terms, C, k + 1)
      BY <2>0, <2>1, <2>2 DEF CoversTo
    <3>2. \A c \in C : c.n < k + 1
      BY <2>0, <2>1
    <3>3. QED
      BY <2>1, <3>1, <3>2
  <2>3. CASE \A o \in O : o.n # k
    <3>1. CoversTo(s, terms, C, k + 1)
      BY <2>0, <2>1, <2>3 DEF CoversTo
    <3>2. \A c \in C : c.n < k + 1
      BY <2>0, <2>1
    <3>3. QED
      BY <2>1, <3>1, <3>2
  <2>4. CASE /\ \E o \in O : o.n = k
             /\ \A c \in C : ~(c.n <= k /\ k < EndOf(c))
    <3>1. PICK x \in O : /\ x.n = k
                         /\ \A q \in O : q.n = k => Len(q.term) <= Len(x.term)
      BY <2>4, LongestAt
    <3> DEFINE D == C \cup {x}
    <3>2. \A c \in C : EndOf(c) <= x.n /\ c.n < k
      BY <2>0, <2>1, <2>4, <3>1
    <3>3. Disjoint(D)
      BY <2>1, <3>2 DEF Disjoint
    <3>4. Longest(s, terms, D)
      BY <2>1, <3>1 DEF Longest
    <3>5. CoversTo(s, terms, D, k + 1)
      <4> SUFFICES ASSUME NEW o \in O \ D, o.n < k + 1
                   PROVE  \E c \in D : c.n <= o.n /\ o.n < EndOf(c)
        BY DEF CoversTo
      <4>1. CASE o.n < k
        BY <2>1, <4>1 DEF CoversTo
      <4>2. CASE o.n = k
        <5>1. x.n <= o.n /\ o.n < EndOf(x)
          BY <2>0, <3>1, <4>2
        <5>2. QED
          BY <5>1
      <4>3. QED
        BY <2>0, <4>1, <4>2
    <3>6. D \subseteq O /\ \A c \in D : c.n < k + 1
      BY <2>0, <2>1, <3>1
    <3>7. Good(D, k + 1)
      BY <3>3, <3>4, <3>5, <3>6
    <3>8. QED
      BY <3>7
  <2>5. QED
    BY <2>2, <2>3, <2>4
<1>3. Nat \subseteq P
  <2> HIDE DEF P
  <2>1. QED
    BY <1>1, <1>2, Induction
<1>4. PICK C : Good(C, Len(s) + 1)
  <2>1. Len(s) + 1 \in Nat
    BY <1>0
  <2>2. QED
    BY <1>3, <2>1
<1> DEFINE Q(X) == /\ \A c, d \in X : c # d => EndOf(c) <= d.n \/ EndOf(d) <= c.n
                   /\ \A c \in X, o \in O : o.n = c.n => Len(o.term) <= Len(c.term)
                   /\ \A o \in O \ X : \E c \in X : c.n <= o.n /\ o.n < EndOf(c)
<1>5. \A o \in O : o.n < Len(s) + 1
  <2> TAKE o \in O
  <2>1. o.n \in Nat /\ EndOf(o) \in Nat /\ o.n < EndOf(o) /\ EndOf(o) <= Len(s)
    BY OccurrenceFacts
  <2>2. QED
    BY <1>0, <2>1
<1>6. C \in SUBSET O /\ Q(C)
  BY <1>4, <1>5 DEF Disjoint, Longest, CoversTo
<1>7. LeftmostLongest(s, terms) = CHOOSE X \in SUBSET O : Q(X)
  BY DEF LeftmostLongest
<1>8. LeftmostLongest(s, terms) \in SUBSET O /\ Q(LeftmostLongest(s, terms))
  <2> HIDE DEF O, Q
  <2>1. QED
    BY <1>6, <1>7, Zenon
<1>9. QED
  BY <1>8 DEF Disjoint, Longest, CoversTo

(***************************************************************************)
(* The iterator is at a place that no hit reaches over.                    *)
(***************************************************************************)
Between(C, p) == \A c \in C : c.n < p => EndOf(c) <= p

(* What find_iter yields next from such a place is in the set, nothing     *)
(* else of the set begins before its end, and the place it moves on to is  *)
(* between hits again.                                                     *)
LEMMA NextHit ==
  ASSUME NEW s \in Seq(Letters), NEW terms, terms \subseteq Seq(Letters) \ {<<>>},
         NEW C, C = LeftmostLongest(s, terms), NEW p \in Nat, Between(C, p),
         NEW o \in Occurrences(s, terms), o.n >= p,
         \A q \in Occurrences(s, terms) :
            q.n >= p => o.n < q.n \/ (o.n = q.n /\ Len(o.term) >= Len(q.term))
  PROVE  /\ o \in C
         /\ Between(C, EndOf(o))
         /\ \A c \in C : p <= c.n /\ c.n < EndOf(o) => c = o
<1> DEFINE O == Occurrences(s, terms)
<1>1. /\ C \subseteq O /\ Disjoint(C) /\ Longest(s, terms, C)
      /\ CoversTo(s, terms, C, Len(s) + 1)
  BY LeftmostLongestIs
<1>2. \A q \in O : /\ q = [n |-> q.n, term |-> q.term]
                  /\ q.n \in Nat /\ EndOf(q) \in Nat /\ q.n < EndOf(q)
                  /\ Len(q.term) \in Nat /\ EndOf(q) = q.n + Len(q.term)
                  /\ EndOf(q) <= Len(s)
                  /\ SubSeq(s, q.n + 1, q.n + Len(q.term)) = q.term
  BY OccurrenceFacts
<1>3. o \in C
  <2>1. SUFFICES ASSUME o \notin C PROVE FALSE
    OBVIOUS
  <2>2. o.n < Len(s) + 1
    BY <1>2, LenProperties
  <2>3. PICK c \in C : c.n <= o.n /\ o.n < EndOf(c)
    BY <1>1, <2>1, <2>2 DEF CoversTo
  <2>4. c \in O /\ c.n >= p
    <3>1. c \in O
      BY <1>1
    <3>2. /\ c.n \in Nat /\ EndOf(c) \in Nat /\ o.n \in Nat
          /\ c.n < p => EndOf(c) <= p
      BY <1>2, <3>1 DEF Between
    <3>3. QED
      BY <2>3, <3>1, <3>2
  <2>5. o.n = c.n /\ Len(o.term) >= Len(c.term)
    BY <1>2, <2>3, <2>4
  <2>6. Len(o.term) <= Len(c.term)
    BY <1>1, <2>5 DEF Longest
  <2>7. Len(o.term) = Len(c.term)
    BY <1>2, <2>4, <2>5, <2>6
  <2>8. o.term = c.term
    BY <1>2, <2>4, <2>5, <2>7
  <2>9. QED
    BY <1>2, <2>1, <2>4, <2>5, <2>8
<1> DEFINE a == o.n
           e == EndOf(o)
<1>a. a \in Nat /\ e \in Nat /\ a < e /\ a >= p
  BY <1>2
<1>b. ASSUME NEW c \in C
      PROVE  /\ c.n \in Nat /\ EndOf(c) \in Nat /\ c.n < EndOf(c)
             /\ c # o => EndOf(c) <= a \/ e <= c.n
             /\ c.n >= p => a <= c.n
  <2>1. c \in O
    BY <1>1
  <2>2. c.n \in Nat /\ EndOf(c) \in Nat /\ c.n < EndOf(c)
    BY <1>2, <2>1
  <2>3. c # o => EndOf(c) <= a \/ e <= c.n
    BY <1>1, <1>3 DEF Disjoint
  <2>4. c.n >= p => a < c.n \/ a = c.n
    BY <2>1
  <2>5. QED
    BY <1>a, <2>2, <2>3, <2>4
<1>4. Between(C, e)
  <2> SUFFICES ASSUME NEW c \in C, c.n < e PROVE EndOf(c) <= e
    BY DEF Between
  <2> HIDE DEF a, e
  <2>1. CASE c = o
    BY <1>a, <2>1 DEF e
  <2>2. CASE c # o
    BY <1>a, <1>b, <2>2
  <2>3. QED
    BY <2>1, <2>2
<1>5. ASSUME NEW c \in C, p <= c.n, c.n < EndOf(o) PROVE c = o
  <2>1. SUFFICES ASSUME c # o PROVE FALSE
    OBVIOUS
  <2>2. /\ c.n \in Nat /\ EndOf(c) \in Nat /\ c.n < EndOf(c)
        /\ EndOf(c) <= a \/ e <= c.n
        /\ c.n >= p => a <= c.n
    BY <1>b, <2>1
  <2>3. c.n < e
    BY <1>5
  <2> HIDE DEF a, e
  <2>4. QED
    BY <1>5, <1>a, <2>2, <2>3
<1>6. QED
  BY <1>3, <1>4, <1>5 DEF e

(***************************************************************************)
(* The reports of a language as one entry per byte: the report of the hit  *)
(* that begins there, or nothing.                                          *)
(***************************************************************************)
HitsIn(t, l) == LeftmostLongest(FoldedText(t), Patterns[l])

KeptAt(t, l, md, k) == {o \in HitsIn(t, l) : o.n = k /\ Kept(t, l, md, o)}

EntryAt(t, l, md, k) == IF KeptAt(t, l, md, k) = {} THEN <<>>
                        ELSE <<Reported(t, l, CHOOSE o \in KeptAt(t, l, md, k) : TRUE)>>

Entries(t, l, md) == [i \in Nat |-> EntryAt(t, l, md, i - 1)]

Reports(t) == {Reported(t, l, o) : l \in Langs, o \in [n : Nat, term : Seq(Letters)]}

(* The list of reports is flat: entry by entry, one per byte of the folded *)
(* text.                                                                   *)
LEMMA ReportsAreFlat ==
  ASSUME NEW t, NEW l, NEW md, NEW n \in Nat
  PROVE  ReportedUpTo(t, l, md, n) = Flat(Entries(t, l, md), n)
<1> DEFINE f == [i \in 1 .. n |-> EntryAt(t, l, md, i - 1)]
<1>1. ReportedUpTo(t, l, md, n) = FlattenSeq(f)
  BY DEF ReportedUpTo, EntryAt, KeptAt, HitsIn
<1>2. f = [i \in 1 .. n |-> Entries(t, l, md)[i]]
  BY DEF Entries
<1>3. QED
  BY <1>1, <1>2, Zenon DEF Flat

(* A text folds to letters, and the terms of a language can occur in it.   *)
FoldsToLetters(t, l) == /\ FoldedText(t) \in Seq(Letters)
                        /\ l \in DOMAIN Patterns

(* A hit of the leftmost-longest search is an occurrence of a term, and    *)
(* longer than nothing.                                                    *)
LEMMA HitIsOccurrence ==
  ASSUME NEW t, NEW l, FoldsToLetters(t, l), NEW c \in HitsIn(t, l)
  PROVE  /\ c \in Occurrences(FoldedText(t), Patterns[l])
         /\ c = [n |-> c.n, term |-> c.term]
         /\ c.n \in Nat /\ c.term \in Seq(Letters) /\ l \in Langs
         /\ EndOf(c) \in Nat /\ c.n < EndOf(c)
<1>1. /\ FoldedText(t) \in Seq(Letters) /\ l \in Langs
      /\ Patterns[l] \subseteq Seq(Letters) \ {<<>>}
  BY ScanAssumption DEF FoldsToLetters
<1>2. c \in Occurrences(FoldedText(t), Patterns[l])
  BY <1>1, LeftmostLongestIs DEF HitsIn
<1>3. QED
  BY <1>1, <1>2, OccurrenceFacts

(* Where no hit starts there is no entry; where one does, its report is    *)
(* the only one, if the mode keeps it.                                     *)
LEMMA EntryFacts ==
  ASSUME NEW t, NEW l, NEW md, FoldsToLetters(t, l)
  PROVE  /\ \A k \in Nat : EntryAt(t, l, md, k) \in Seq(Reports(t))
         /\ \A k \in Nat : (\A c \in HitsIn(t, l) : c.n # k) => EntryAt(t, l, md, k) = <<>>
         /\ \A c \in HitsIn(t, l) :
              EntryAt(t, l, md, c.n) = IF Kept(t, l, md, c) THEN <<Reported(t, l, c)>> ELSE <<>>
<1> DEFINE s == FoldedText(t)
           C == HitsIn(t, l)
<1>1. s \in Seq(Letters) /\ Patterns[l] \subseteq Seq(Letters) \ {<<>>} /\ l \in Langs
  BY ScanAssumption DEF FoldsToLetters
<1>2. C \subseteq Occurrences(s, Patterns[l]) /\ Disjoint(C)
  BY <1>1, LeftmostLongestIs DEF HitsIn
<1>3. \A c \in C : /\ c = [n |-> c.n, term |-> c.term]
                  /\ c.n \in Nat /\ c.term \in Seq(Letters)
                  /\ EndOf(c) \in Nat /\ c.n < EndOf(c)
  BY <1>1, <1>2, OccurrenceFacts
<1> HIDE DEF C
<1>4. \A c \in C : Reported(t, l, c) \in Reports(t)
  <2> TAKE c \in C
  <2>1. c \in [n : Nat, term : Seq(Letters)]
    BY <1>3
  <2>2. QED
    BY <1>1, <2>1 DEF Reports
<1>5. \A k : KeptAt(t, l, md, k) \subseteq C
  BY DEF KeptAt, C
<1>6. \A k \in Nat : EntryAt(t, l, md, k) \in Seq(Reports(t))
  <2> TAKE k \in Nat
  <2>1. CASE KeptAt(t, l, md, k) = {}
    BY <2>1, EmptySeq DEF EntryAt
  <2>2. CASE KeptAt(t, l, md, k) # {}
    <3> DEFINE o == CHOOSE o \in KeptAt(t, l, md, k) : TRUE
    <3>1. o \in C
      BY <1>5, <2>2
    <3> HIDE DEF o
    <3>2. <<Reported(t, l, o)>> \in Seq(Reports(t))
      BY <1>4, <3>1
    <3>3. EntryAt(t, l, md, k) = <<Reported(t, l, o)>>
      BY <2>2 DEF EntryAt, o
    <3>4. QED
      BY <3>2, <3>3
  <2>3. QED
    BY <2>1, <2>2
<1>7. ASSUME NEW k \in Nat, \A c \in C : c.n # k PROVE EntryAt(t, l, md, k) = <<>>
  <2>1. KeptAt(t, l, md, k) = {}
    BY <1>7 DEF KeptAt, C
  <2>2. QED
    BY <2>1 DEF EntryAt
<1>8. ASSUME NEW c \in C
      PROVE  EntryAt(t, l, md, c.n) = IF Kept(t, l, md, c) THEN <<Reported(t, l, c)>> ELSE <<>>
  <2>1. \A d \in C : d.n = c.n => d = c
    BY <1>2, <1>3 DEF Disjoint
  <2>2. KeptAt(t, l, md, c.n) = IF Kept(t, l, md, c) THEN {c} ELSE {}
    BY <2>1 DEF KeptAt, C
  <2>3. CASE Kept(t, l, md, c)
    <3>1. (CHOOSE o \in KeptAt(t, l, md, c.n) : TRUE) = c
      BY <2>2, <2>3
    <3>2. QED
      BY <2>2, <2>3, <3>1 DEF EntryAt
  <2>4. CASE ~Kept(t, l, md, c)
    BY <2>2, <2>4 DEF EntryAt
  <2>5. QED
    BY <2>3, <2>4
<1>9. QED
  BY <1>6, <1>7, <1>8 DEF C

(* The entries are sequences of reports, as many as one asks for.          *)
LEMMA EntriesAreSeqs ==
  ASSUME NEW t, NEW l, NEW md, FoldsToLetters(t, l), NEW n \in Nat
  PROVE  /\ AreSeqs(Entries(t, l, md), n, Reports(t))
         /\ ReportedUpTo(t, l, md, n) \in Seq(Reports(t))
<1>1. ASSUME NEW i \in 1 .. n PROVE Entries(t, l, md)[i] \in Seq(Reports(t))
  <2>1. i \in Nat /\ i - 1 \in Nat
    OBVIOUS
  <2>2. Entries(t, l, md)[i] = EntryAt(t, l, md, i - 1)
    BY <2>1 DEF Entries
  <2>3. QED
    BY <2>1, <2>2, EntryFacts
<1>2. AreSeqs(Entries(t, l, md), n, Reports(t))
  BY <1>1 DEF AreSeqs
<1>3. QED
  BY <1>2, ReportsAreFlat, FlatType

(* Where no hit begins nothing is reported.                                *)
LEMMA NothingBetween ==
  ASSUME NEW t, NEW l, NEW md, FoldsToLetters(t, l), NEW n \in Nat, NEW p \in 0 .. n,
         \A c \in HitsIn(t, l) : ~(p <= c.n /\ c.n < n)
  PROVE  ReportedUpTo(t, l, md, n) = ReportedUpTo(t, l, md, p)
<1> DEFINE g == Entries(t, l, md)
<1>1. ASSUME NEW i \in p + 1 .. n PROVE g[i] = <<>>
  <2>1. PICK k \in Nat : k = i - 1 /\ p <= k /\ k < n
    OBVIOUS
  <2>2. \A c \in HitsIn(t, l) : c.n # k
    BY <2>1
  <2>3. EntryAt(t, l, md, k) = <<>>
    BY <2>2, EntryFacts
  <2>4. i \in Nat
    OBVIOUS
  <2>5. QED
    BY <2>1, <2>3, <2>4 DEF Entries
<1>2. AreSeqs(g, n, Reports(t)) /\ p \in Nat
  BY EntriesAreSeqs
<1> HIDE DEF g
<1>3. Flat(g, n) = Flat(g, p)
  BY <1>1, <1>2, FlatSkip
<1>4. QED
  BY <1>2, <1>3, ReportsAreFlat DEF g

(* A hit adds its report, if it is kept, and nothing else up to its end.   *)
LEMMA HitAdds ==
  ASSUME NEW t, NEW l, NEW md, FoldsToLetters(t, l), NEW p \in Nat, NEW e \in Nat,
         NEW o \in HitsIn(t, l), o.n \in Nat, p <= o.n, o.n < e,
         \A c \in HitsIn(t, l) : p <= c.n /\ c.n < e => c = o
  PROVE  /\ Kept(t, l, md, o) => IsConcat(ReportedUpTo(t, l, md, e),
                                          ReportedUpTo(t, l, md, p), <<Reported(t, l, o)>>)
         /\ ~Kept(t, l, md, o) => ReportedUpTo(t, l, md, e) = ReportedUpTo(t, l, md, p)
<1> DEFINE g == Entries(t, l, md)
<1>1. PICK k \in Nat : k = o.n
  OBVIOUS
<1>2. PICK j \in Nat : j = k + 1
  OBVIOUS
<1>3. ReportedUpTo(t, l, md, e) = ReportedUpTo(t, l, md, j)
  <2>1. j \in 0 .. e
    BY <1>1, <1>2
  <2>2. \A c \in HitsIn(t, l) : ~(j <= c.n /\ c.n < e)
    <3> SUFFICES ASSUME NEW c \in HitsIn(t, l), j <= c.n, c.n < e PROVE FALSE
      OBVIOUS
    <3>0. c.n \in Nat
      BY HitIsOccurrence
    <3>1. p <= c.n
      BY <1>1, <1>2, <3>0
    <3>2. c = o
      BY <3>1
    <3>3. QED
      BY <1>1, <1>2, <3>2
  <2>3. QED
    BY <2>1, <2>2, NothingBetween
<1>4. ReportedUpTo(t, l, md, k) = ReportedUpTo(t, l, md, p)
  <2>1. p \in 0 .. k
    BY <1>1
  <2>2. \A c \in HitsIn(t, l) : ~(p <= c.n /\ c.n < k)
    <3> SUFFICES ASSUME NEW c \in HitsIn(t, l), p <= c.n, c.n < k PROVE FALSE
      OBVIOUS
    <3>0. c.n \in Nat
      BY HitIsOccurrence
    <3>1. c.n < e
      BY <1>1, <3>0
    <3>2. c = o
      BY <3>1
    <3>3. QED
      BY <1>1, <3>2
  <2>3. QED
    BY <2>1, <2>2, NothingBetween
<1>5. AreSeqs(g, j, Reports(t))
  BY EntriesAreSeqs
<1>6. g[j] = EntryAt(t, l, md, k)
  BY <1>2 DEF Entries
<1> HIDE DEF g
<1>7. IsConcat(Flat(g, j), Flat(g, k), g[j])
  BY <1>2, <1>5, FlatStep
<1>8. /\ ReportedUpTo(t, l, md, j) = Flat(g, j)
      /\ ReportedUpTo(t, l, md, k) = Flat(g, k)
  BY ReportsAreFlat DEF g
<1>9. IsConcat(ReportedUpTo(t, l, md, e), ReportedUpTo(t, l, md, p), EntryAt(t, l, md, k))
  BY <1>3, <1>4, <1>6, <1>7, <1>8
<1>10. EntryAt(t, l, md, k) = IF Kept(t, l, md, o) THEN <<Reported(t, l, o)>> ELSE <<>>
  BY <1>1, EntryFacts
<1>11. CASE Kept(t, l, md, o)
  BY <1>9, <1>10, <1>11
<1>12. CASE ~Kept(t, l, md, o)
  <2>1. IsConcat(ReportedUpTo(t, l, md, e), ReportedUpTo(t, l, md, p), <<>>)
    BY <1>9, <1>10, <1>12
  <2>2. ReportedUpTo(t, l, md, p) \in Seq(Reports(t)) /\ <<>> \in Seq(Reports(t))
    BY EntriesAreSeqs, EmptySeq
  <2>3. ReportedUpTo(t, l, md, e) = ReportedUpTo(t, l, md, p)
    BY <2>1, <2>2, ConcatIs
  <2>4. QED
    BY <1>12, <2>3
<1>13. QED
  BY <1>11, <1>12

-------------------------------------------------------------------------------
(***************************************************************************)
(* The folded text, the codepoint each byte of it is of, and the position  *)
(* of that codepoint, codepoint by codepoint.                              *)
(***************************************************************************)
Foldings(t) == [k \in 1 .. Len(t) |-> Folding[t[k]]]
Origins(t)  == [k \in 1 .. Len(t) |-> [i \in DOMAIN Folding[t[k]] |-> k]]
Offsets(t)  == [k \in 1 .. Len(t) |-> [i \in DOMAIN Folding[t[k]] |-> ByteOf(t, k)]]

FoldEnd(t, k) == Len(Flat(Foldings(t), k))

(* The folded text and the codepoints its bytes come from are flat,        *)
(* codepoint by codepoint.                                                 *)
LEMMA FoldedIsFlat ==
  ASSUME NEW t
  PROVE  /\ FoldedText(t) = Flat(Foldings(t), Len(t))
         /\ Origin(t) = Flat(Origins(t), Len(t))
<1>1. /\ Foldings(t) = [k \in 1 .. Len(t) |-> Foldings(t)[k]]
      /\ Origins(t) = [k \in 1 .. Len(t) |-> Origins(t)[k]]
  BY DEF Foldings, Origins
<1>2. FoldedText(t) = FlattenSeq(Foldings(t)) /\ Origin(t) = FlattenSeq(Origins(t))
  BY DEF FoldedText, Origin, Foldings, Origins
<1>3. QED
  BY <1>1, <1>2, Zenon DEF Flat

(* What a codepoint folds to is not empty, and all of it comes from that   *)
(* codepoint.                                                              *)
LEMMA FoldingType ==
  ASSUME NEW t \in Seq(Codepoints), NEW k \in 1 .. Len(t)
  PROVE  /\ Foldings(t)[k] = Folding[t[k]] /\ Foldings(t)[k] \in Seq(Letters)
         /\ Len(Foldings(t)[k]) \in Nat /\ Len(Foldings(t)[k]) > 0
         /\ Origins(t)[k] \in Seq(Nat) /\ Len(Origins(t)[k]) = Len(Foldings(t)[k])
         /\ \A i \in 1 .. Len(Foldings(t)[k]) : Origins(t)[k][i] = k
         /\ Offsets(t)[k] \in Seq(Nat) /\ Len(Offsets(t)[k]) = Len(Foldings(t)[k])
         /\ \A i \in 1 .. Len(Foldings(t)[k]) : Offsets(t)[k][i] = ByteOf(t, k)
<1>1. Folding[t[k]] \in Seq(Letters) /\ Folding[t[k]] # <<>>
  BY WidthType, SourceTextAssumption
<1>2. PICK n \in Nat : n = Len(Folding[t[k]]) /\ n > 0 /\ DOMAIN Folding[t[k]] = 1 .. n
  BY <1>1, EmptySeq, LenProperties
<1>3. ByteOf(t, k) \in Nat /\ k \in Nat
  BY ByteOfStep
<1>4. /\ Foldings(t)[k] = Folding[t[k]]
      /\ Origins(t)[k] = [i \in 1 .. n |-> k]
      /\ Offsets(t)[k] = [i \in 1 .. n |-> ByteOf(t, k)]
  BY <1>2 DEF Foldings, Origins, Offsets
<1>5. /\ Origins(t)[k] \in Seq(Nat) /\ Len(Origins(t)[k]) = n
      /\ \A i \in 1 .. n : Origins(t)[k][i] = k
  BY <1>3, <1>4
<1>6. /\ Offsets(t)[k] \in Seq(Nat) /\ Len(Offsets(t)[k]) = n
      /\ \A i \in 1 .. n : Offsets(t)[k][i] = ByteOf(t, k)
  BY <1>3, <1>4
<1>7. QED
  BY <1>1, <1>2, <1>4, <1>5, <1>6

(* The same of all codepoints, in the form the lemmas on Flat want.        *)
LEMMA FoldingsAreSeqs ==
  ASSUME NEW t \in Seq(Codepoints)
  PROVE  /\ Len(t) \in Nat
         /\ AreSeqs(Foldings(t), Len(t), Letters)
         /\ AreSeqs(Origins(t), Len(t), Nat)
         /\ AreSeqs(Offsets(t), Len(t), Nat)
         /\ FoldedText(t) \in Seq(Letters)
<1>1. Len(t) \in Nat
  BY LenProperties
<1>2. AreSeqs(Foldings(t), Len(t), Letters)
  BY FoldingType DEF AreSeqs
<1>3. AreSeqs(Origins(t), Len(t), Nat) /\ AreSeqs(Offsets(t), Len(t), Nat)
  BY FoldingType DEF AreSeqs
<1>4. FoldedText(t) \in Seq(Letters)
  BY <1>1, <1>2, FoldedIsFlat, FlatType
<1>5. QED
  BY <1>1, <1>2, <1>3, <1>4

(* The ends of the foldings grow from 0 to the length of the folded text,  *)
(* by the length of a folding at a time.                                   *)
LEMMA FoldEnds ==
  ASSUME NEW t \in Seq(Codepoints), NEW k \in 0 .. Len(t)
  PROVE  /\ FoldEnd(t, k) \in Nat
         /\ FoldEnd(t, 0) = 0 /\ FoldEnd(t, Len(t)) = Len(FoldedText(t))
         /\ \A j \in 0 .. k : FoldEnd(t, j) <= FoldEnd(t, k)
         /\ k > 0 => FoldEnd(t, k) = FoldEnd(t, k - 1) + Len(Foldings(t)[k])
         /\ Len(Flat(Origins(t), k)) = FoldEnd(t, k)
         /\ Len(Flat(Offsets(t), k)) = FoldEnd(t, k)
<1> DEFINE g == Foldings(t)
<1>1. /\ Len(t) \in Nat /\ AreSeqs(g, Len(t), Letters)
      /\ AreSeqs(Origins(t), Len(t), Nat) /\ AreSeqs(Offsets(t), Len(t), Nat)
  BY FoldingsAreSeqs
<1>2. \A i \in 1 .. Len(t) : Len(g[i]) = Len(Origins(t)[i]) /\ Len(g[i]) = Len(Offsets(t)[i])
  BY FoldingType
<1>3. FoldEnd(t, 0) = 0 /\ FoldEnd(t, Len(t)) = Len(FoldedText(t))
  BY FlatZero, FoldedIsFlat DEF FoldEnd
<1> HIDE DEF g
<1>4. AreSeqs(g, k, Letters)
  BY <1>1, FewerAreSeqs
<1>5. FoldEnd(t, k) \in Nat
  <2>1. Flat(g, k) \in Seq(Letters)
    BY <1>4, FlatType
  <2>2. QED
    BY <2>1, LenProperties DEF FoldEnd, g
<1>6. \A j \in 0 .. k : FoldEnd(t, j) <= FoldEnd(t, k)
  <2> TAKE j \in 0 .. k
  <2>1. k \in Nat
    BY <1>1
  <2>2. Len(Flat(g, j)) <= Len(Flat(g, k))
    BY <1>4, <2>1, FlatGrows
  <2>3. QED
    BY <2>2 DEF FoldEnd, g
<1>7. ASSUME k > 0 PROVE FoldEnd(t, k) = FoldEnd(t, k - 1) + Len(g[k])
  <2>1. PICK p \in Nat : k = p + 1 /\ p = k - 1
    BY <1>7
  <2>2. IsConcat(Flat(g, k), Flat(g, p), g[k]) /\ Flat(g, p) \in Seq(Letters) /\ g[k] \in Seq(Letters)
    BY <1>4, <2>1, FlatStep
  <2>3. Len(Flat(g, k)) = Len(Flat(g, p)) + Len(g[k])
    BY <2>2, ConcatIs
  <2>4. QED
    BY <2>1, <2>3 DEF FoldEnd, g
<1>8. /\ Len(Flat(Origins(t), k)) = Len(Flat(g, k))
      /\ Len(Flat(Offsets(t), k)) = Len(Flat(g, k))
  <2>1. \A j \in 0 .. Len(t) : Len(Flat(g, j)) = Len(Flat(Origins(t), j))
    BY <1>1, <1>2, FlatLengths
  <2>2. \A j \in 0 .. Len(t) : Len(Flat(g, j)) = Len(Flat(Offsets(t), j))
    BY <1>1, <1>2, FlatLengths
  <2>3. QED
    BY <2>1, <2>2
<1>9. QED
  BY <1>3, <1>5, <1>6, <1>7, <1>8 DEF FoldEnd, g

(* The origin of a folded byte is the codepoint in whose folding it is,    *)
(* and the offset map has the byte where that one starts.                  *)
LEMMA OriginIs ==
  ASSUME NEW t \in Seq(Codepoints), NEW i \in 1 .. Len(FoldedText(t))
  PROVE  /\ Origin(t)[i] \in 1 .. Len(t)
         /\ FoldEnd(t, Origin(t)[i] - 1) < i /\ i <= FoldEnd(t, Origin(t)[i])
         /\ Flat(Offsets(t), Len(t))[i] = ByteOf(t, Origin(t)[i])
<1>1. /\ Len(t) \in Nat /\ AreSeqs(Foldings(t), Len(t), Letters)
      /\ AreSeqs(Origins(t), Len(t), Nat) /\ AreSeqs(Offsets(t), Len(t), Nat)
  BY FoldingsAreSeqs
<1>2. /\ Len(t) \in 0 .. Len(t)
      /\ Len(FoldedText(t)) = Len(Flat(Foldings(t), Len(t)))
      /\ Origin(t) = Flat(Origins(t), Len(t))
  BY <1>1, FoldedIsFlat
<1>3. PICK k \in 1 .. Len(t) : /\ Len(Flat(Foldings(t), k - 1)) < i
                              /\ i <= Len(Flat(Foldings(t), k))
  BY <1>1, <1>2, FlatElement
<1>4. PICK p \in 0 .. Len(t) : p = k - 1
  BY <1>1
<1>5. /\ FoldEnd(t, p) < i /\ i <= FoldEnd(t, k) /\ FoldEnd(t, p) \in Nat
      /\ FoldEnd(t, k) = FoldEnd(t, p) + Len(Foldings(t)[k])
      /\ Len(Flat(Origins(t), p)) = FoldEnd(t, p)
      /\ Len(Flat(Offsets(t), p)) = FoldEnd(t, p)
  <2>1. k \in 0 .. Len(t) /\ k > 0
    OBVIOUS
  <2>2. QED
    BY <1>3, <1>4, <2>1, FoldEnds DEF FoldEnd
<1>6. PICK j \in 1 .. Len(Foldings(t)[k]) : i = FoldEnd(t, p) + j
  <2>1. Len(Foldings(t)[k]) \in Nat
    BY FoldingType
  <2>2. i - FoldEnd(t, p) \in 1 .. Len(Foldings(t)[k]) /\ i = FoldEnd(t, p) + (i - FoldEnd(t, p))
    BY <1>5, <2>1
  <2>3. QED
    BY <2>2
<1>7. /\ Len(Origins(t)[k]) = Len(Foldings(t)[k]) /\ Origins(t)[k][j] = k
      /\ Len(Offsets(t)[k]) = Len(Foldings(t)[k]) /\ Offsets(t)[k][j] = ByteOf(t, k)
  BY FoldingType
<1>a. /\ j \in 1 .. Len(Origins(t)[k]) /\ j \in 1 .. Len(Offsets(t)[k])
      /\ k = p + 1 /\ i \in Nat
  BY <1>1, <1>4, <1>7
<1>8. Flat(Origins(t), Len(t))[i] = Origins(t)[k][j]
  <2>1. SameAt(Flat(Origins(t), Len(t)), i, Origins(t)[k], j)
    BY <1>1, <1>5, <1>6, <1>a, FlatHas
  <2>2. QED
    BY <2>1 DEF SameAt
<1>9. Flat(Offsets(t), Len(t))[i] = Offsets(t)[k][j]
  <2>1. SameAt(Flat(Offsets(t), Len(t)), i, Offsets(t)[k], j)
    BY <1>1, <1>5, <1>6, <1>a, FlatHas
  <2>2. QED
    BY <2>1 DEF SameAt
<1>10. Origin(t)[i] = k /\ Flat(Offsets(t), Len(t))[i] = ByteOf(t, k)
  BY <1>2, <1>4, <1>5, <1>6, <1>7, <1>8, <1>9
<1>11. QED
  BY <1>4, <1>5, <1>10

(* The folded form of a range of codepoints is that part of the folded     *)
(* text: what comes after the codepoints before it.                        *)
LEMMA FoldedSlice ==
  ASSUME NEW t \in Seq(Codepoints), NEW b \in 0 .. Len(t), NEW p \in 0 .. b,
         NEW a \in Nat, a = p + 1
  PROVE  /\ IsConcat(Flat(Foldings(t), b), Flat(Foldings(t), p), FoldedText(SubSeq(t, a, b)))
         /\ FoldedText(SubSeq(t, a, b)) \in Seq(Letters)
         /\ Len(FoldedText(SubSeq(t, a, b))) \in Nat
         /\ FoldEnd(t, b) = FoldEnd(t, p) + Len(FoldedText(SubSeq(t, a, b)))
<1> DEFINE g == Foldings(t)
           u == SubSeq(t, a, b)
           h == Foldings(u)
<1>1. Len(t) \in Nat /\ AreSeqs(g, Len(t), Letters)
  BY FoldingsAreSeqs
<1>2. PICK d \in Nat : d = b - p /\ b = p + d /\ p \in Nat /\ b \in Nat
  BY <1>1
<1>3. u \in Seq(Codepoints) /\ Len(u) = d /\ \A i \in 1 .. d : u[i] = t[p + i]
  <2>1. p + d = b /\ p + 1 = a /\ p + d <= Len(t)
    BY <1>1, <1>2
  <2>2. /\ SubSeq(t, p + 1, p + d) \in Seq(Codepoints)
        /\ Len(SubSeq(t, p + 1, p + d)) = d
        /\ \A i \in 1 .. d : SubSeq(t, p + 1, p + d)[i] = t[p + i]
    BY <1>2, <2>1, SubSeqIs
  <2>3. QED
    BY <2>1, <2>2
<1>4. IsShift(h, g, p, d)
  <2>1. ASSUME NEW i \in 1 .. d PROVE h[i] = g[p + i]
    <3>1. p + i \in 1 .. Len(t) /\ i \in 1 .. Len(u)
      BY <1>1, <1>2, <1>3
    <3>2. h[i] = Folding[u[i]] /\ g[p + i] = Folding[t[p + i]]
      BY <3>1 DEF Foldings
    <3>3. QED
      BY <1>3, <3>2
  <2>2. QED
    BY <2>1 DEF IsShift
<1>5. FoldedText(u) = Flat(h, d)
  BY <1>3, FoldedIsFlat
<1> HIDE DEF g, h, u
<1>6. AreSeqs(g, b, Letters)
  BY <1>1, FewerAreSeqs
<1>7. IsConcat(Flat(g, b), Flat(g, p), Flat(h, d)) /\ Flat(g, p) \in Seq(Letters)
      /\ Flat(h, d) \in Seq(Letters)
  BY <1>2, <1>4, <1>6, FlatShift
<1>8. Len(Flat(h, d)) \in Nat /\ Len(Flat(g, b)) = Len(Flat(g, p)) + Len(Flat(h, d))
  BY <1>7, ConcatIs
<1>9. QED
  BY <1>5, <1>7, <1>8 DEF FoldEnd, g, u

(* A reported span of t: SpansHoldTheirTerm for one match. *)
HoldsItsTerm(t, r) ==
  \E a, b \in 1 .. Len(t) :
    LET Folded(x, y) == Len(FoldedText(SubSeq(t, x, y)))
        slice == FoldedText(SubSeq(t, a, b))
    IN  /\ a <= b
        /\ r.start = ByteOf(t, a)
        /\ r.end = ByteOf(t, b + 1)
        /\ \E n \in 0 .. Len(slice) - Len(r.term) :
              /\ SubSeq(slice, n + 1, n + Len(r.term)) = r.term
              /\ n < Folded(a, a)
              /\ n + Len(r.term) > Folded(a, b - 1)

(* What an occurrence is reported as holds its term: the occurrence begins *)
(* inside the folding of the first codepoint of the span and ends inside   *)
(* that of the last.                                                       *)
LEMMA ReportHoldsItsTerm ==
  ASSUME NEW t \in Seq(Codepoints), NEW l \in DOMAIN Patterns,
         NEW o \in Occurrences(FoldedText(t), Patterns[l])
  PROVE  HoldsItsTerm(t, Reported(t, l, o))
<1> DEFINE s == FoldedText(t)
           g == Foldings(t)
<1>1. /\ Len(t) \in Nat /\ s \in Seq(Letters) /\ Len(s) \in Nat
      /\ AreSeqs(g, Len(t), Letters)
  BY FoldingsAreSeqs, LenProperties
<1>2. PICK z \in Nat, w \in Nat :
         /\ z = o.n /\ w = Len(o.term) /\ w > 0 /\ z + w <= Len(s) /\ EndOf(o) = z + w
         /\ o.term \in Seq(Letters) /\ SubSeq(s, z + 1, z + w) = o.term
  <2>1. Patterns[l] \subseteq Seq(Letters) \ {<<>>}
    BY ScanAssumption
  <2>2. /\ o.term \in Seq(Letters) /\ o.n \in Nat /\ Len(o.term) \in Nat /\ Len(o.term) > 0
        /\ EndOf(o) = o.n + Len(o.term) /\ EndOf(o) <= Len(s)
        /\ SubSeq(s, o.n + 1, o.n + Len(o.term)) = o.term
    BY <1>1, <2>1, OccurrenceFacts
  <2>3. QED
    BY <2>2
<1>a. z \in Nat /\ w \in Nat /\ w > 0 /\ z + w <= Len(s)
  BY <1>2
<1>3. PICK x \in 1 .. Len(s), y \in 1 .. Len(s) : x = z + 1 /\ y = z + w /\ x <= y
  <2>1. z + 1 \in 1 .. Len(s) /\ z + w \in 1 .. Len(s) /\ z + 1 <= z + w
    BY <1>1, <1>a
  <2>2. QED
    BY <2>1
<1>4. PICK a \in 1 .. Len(t), b \in 1 .. Len(t) :
         /\ a = Origin(t)[x] /\ b = Origin(t)[y]
         /\ FoldEnd(t, a - 1) < x /\ x <= FoldEnd(t, a)
         /\ FoldEnd(t, b - 1) < y /\ y <= FoldEnd(t, b)
  BY OriginIs
<1>5. PICK p \in 0 .. Len(t), q \in 0 .. Len(t) :
         p = a - 1 /\ a = p + 1 /\ q = b - 1 /\ b = q + 1
  BY <1>1
<1>6. /\ FoldEnd(t, p) \in Nat /\ FoldEnd(t, q) \in Nat
      /\ FoldEnd(t, a) \in Nat /\ FoldEnd(t, b) \in Nat
      /\ FoldEnd(t, p) < x /\ x <= FoldEnd(t, a)
      /\ FoldEnd(t, q) < y /\ y <= FoldEnd(t, b)
  <2>1. a \in 0 .. Len(t) /\ b \in 0 .. Len(t)
    OBVIOUS
  <2>2. QED
    BY <1>4, <1>5, <2>1, FoldEnds
<1>7. a <= b
  <2>1. SUFFICES ASSUME b \in 0 .. p PROVE FALSE
    BY <1>5
  <2>2. FoldEnd(t, b) <= FoldEnd(t, p)
    BY <2>1, FoldEnds
  <2>3. QED
    BY <1>3, <1>6, <2>2
<1> DEFINE slice == FoldedText(SubSeq(t, a, b))
<1>8. /\ IsConcat(Flat(g, b), Flat(g, p), slice)
      /\ slice \in Seq(Letters) /\ Len(slice) \in Nat
      /\ FoldEnd(t, b) = FoldEnd(t, p) + Len(slice)
  <2>1. b \in 0 .. Len(t) /\ p \in 0 .. b /\ a \in Nat
    BY <1>5, <1>7
  <2>2. QED
    BY <1>5, <2>1, FoldedSlice
<1>9. /\ Len(FoldedText(SubSeq(t, a, a))) \in Nat
      /\ FoldEnd(t, a) = FoldEnd(t, p) + Len(FoldedText(SubSeq(t, a, a)))
  <2>1. a \in 0 .. Len(t) /\ p \in 0 .. a /\ a \in Nat
    BY <1>5
  <2>2. QED
    BY <1>5, <2>1, FoldedSlice
<1>10. /\ Len(FoldedText(SubSeq(t, a, b - 1))) \in Nat
       /\ FoldEnd(t, q) = FoldEnd(t, p) + Len(FoldedText(SubSeq(t, a, b - 1)))
  <2>1. p \in 0 .. q /\ a \in Nat
    BY <1>5, <1>7
  <2>2. /\ Len(FoldedText(SubSeq(t, a, q))) \in Nat
        /\ FoldEnd(t, q) = FoldEnd(t, p) + Len(FoldedText(SubSeq(t, a, q)))
    BY <1>5, <2>1, FoldedSlice
  <2>3. QED
    BY <1>5, <2>2
<1>11. \A i \in 1 .. Len(slice) : s[FoldEnd(t, p) + i] = slice[i]
  <2>1. b \in Nat /\ b \in 0 .. Len(t) /\ p \in 0 .. b
    BY <1>5, <1>7
  <2>2. PICK rest \in Seq(Letters) : IsConcat(Flat(g, Len(t)), Flat(g, b), rest)
    BY <1>1, <2>1, FlatGrows
  <2>3. Flat(g, Len(t)) = s
    BY FoldedIsFlat
  <2>4. Flat(g, b) \in Seq(Letters) /\ Flat(g, p) \in Seq(Letters)
    <3>1. AreSeqs(g, b, Letters) /\ AreSeqs(g, p, Letters)
      BY <1>1, <2>1, FewerAreSeqs
    <3>2. QED
      BY <2>1, <3>1, FlatType
  <2>5. \A i \in 1 .. Len(Flat(g, b)) : s[i] = Flat(g, b)[i]
    BY <2>2, <2>3, <2>4, ConcatIs
  <2>6. /\ Len(Flat(g, b)) = Len(Flat(g, p)) + Len(slice) /\ Len(Flat(g, p)) \in Nat
        /\ \A i \in 1 .. Len(slice) : Flat(g, b)[Len(Flat(g, p)) + i] = slice[i]
    BY <1>8, <2>4, ConcatIs
  <2>7. \A i \in 1 .. Len(slice) : Len(Flat(g, p)) + i \in 1 .. Len(Flat(g, b))
    BY <1>8, <2>6
  <2>8. QED
    BY <2>5, <2>6, <2>7 DEF FoldEnd
<1>12. PICK n \in Nat, k \in Nat :
          /\ k = Len(slice) /\ z = FoldEnd(t, p) + n /\ n + w <= k
          /\ n < Len(FoldedText(SubSeq(t, a, a)))
          /\ n + w > Len(FoldedText(SubSeq(t, a, b - 1)))
  <2> HIDE DEF slice
  <2>1. PICK fp \in Nat, fq \in Nat, k \in Nat, c \in Nat, d \in Nat :
           /\ fp = FoldEnd(t, p) /\ fq = FoldEnd(t, q) /\ k = Len(slice)
           /\ c = Len(FoldedText(SubSeq(t, a, a)))
           /\ d = Len(FoldedText(SubSeq(t, a, b - 1)))
           /\ FoldEnd(t, a) = fp + c /\ FoldEnd(t, b) = fp + k /\ fq = fp + d
           /\ fp < x /\ x <= fp + c /\ fq < y /\ y <= fp + k
    BY <1>6, <1>8, <1>9, <1>10
  <2>2. PICK n \in Nat : z = fp + n
    <3>0. fp < z + 1
      BY <1>3, <2>1
    <3>1. z - fp \in Nat /\ z = fp + (z - fp)
      BY <3>0
    <3>2. QED
      BY <3>1
  <2>a. z + 1 <= fp + c /\ fp + d < z + w /\ z + w <= fp + k
    BY <1>3, <2>1
  <2>3. n + w <= k /\ n < c /\ n + w > d
    BY <2>a, <2>2
  <2>4. QED
    BY <2>1, <2>2, <2>3
<1>13. SubSeq(slice, n + 1, n + w) = o.term
  <2> HIDE DEF s, slice
  <2>0. n + w <= Len(slice) /\ w \in Nat /\ n \in Nat
    BY <1>12
  <2>1. /\ SubSeq(slice, n + 1, n + w) \in Seq(Letters)
        /\ Len(SubSeq(slice, n + 1, n + w)) = w
        /\ \A i \in 1 .. w : SubSeq(slice, n + 1, n + w)[i] = slice[n + i]
    BY <1>8, <2>0, SubSeqIs
  <2>2. /\ SubSeq(s, z + 1, z + w) \in Seq(Letters)
        /\ Len(SubSeq(s, z + 1, z + w)) = w
        /\ \A i \in 1 .. w : SubSeq(s, z + 1, z + w)[i] = s[z + i]
    BY <1>1, <1>a, SubSeqIs
  <2>3. ASSUME NEW i \in 1 .. w PROVE slice[n + i] = o.term[i]
    <3>1. PICK j \in Nat : j = n + i /\ j \in 1 .. Len(slice) /\ z + i = FoldEnd(t, p) + j
      <4>1. z = FoldEnd(t, p) + n /\ FoldEnd(t, p) \in Nat /\ Len(slice) \in Nat
        BY <1>6, <1>8, <1>12
      <4>2. n + i \in Nat /\ n + i \in 1 .. Len(slice) /\ z + i = FoldEnd(t, p) + (n + i)
        BY <4>1, <2>0
      <4>3. QED
        BY <4>2
    <3>2. s[z + i] = slice[j]
      BY <1>11, <3>1
    <3>3. s[z + i] = o.term[i]
      BY <1>2, <2>2
    <3>4. QED
      BY <3>1, <3>2, <3>3
  <2> DEFINE u == SubSeq(slice, n + 1, n + w)
  <2>4. u \in Seq(Letters) /\ o.term \in Seq(Letters) /\ Len(u) = Len(o.term)
    BY <1>2, <2>1
  <2>5. \A i \in 1 .. Len(u) : u[i] = o.term[i]
    BY <2>1, <2>3
  <2> HIDE DEF u
  <2>6. u = o.term
    BY <2>4, <2>5, SeqEqual
  <2>7. QED
    BY <2>6 DEF u
<1>14. /\ Reported(t, l, o).start = ByteOf(t, a)
       /\ Reported(t, l, o).end = ByteOf(t, b + 1)
       /\ Reported(t, l, o).term = o.term
  <2>1. x = o.n + 1 /\ y = EndOf(o)
    BY <1>2, <1>3
  <2>2. QED
    BY <1>4, <2>1 DEF Reported
<1>15. n \in 0 .. Len(slice) - w
  BY <1>8, <1>12
<1>16. QED
  <2> DEFINE r == Reported(t, l, o)
  <2>1. Len(r.term) = w /\ SubSeq(slice, n + 1, n + Len(r.term)) = r.term
    BY <1>2, <1>13, <1>14
  <2>2. /\ n \in 0 .. Len(slice) - Len(r.term)
        /\ n < Len(FoldedText(SubSeq(t, a, a)))
        /\ n + Len(r.term) > Len(FoldedText(SubSeq(t, a, b - 1)))
    BY <1>12, <1>15, <2>1
  <2>3. a <= b /\ r.start = ByteOf(t, a) /\ r.end = ByteOf(t, b + 1)
    BY <1>7, <1>14
  <2> HIDE DEF r
  <2>4. QED
    BY <2>1, <2>2, <2>3, Zenon DEF HoldsItsTerm, r

-------------------------------------------------------------------------------
(***************************************************************************)
(* The normalizer, part of the invariant: what is normalized is the folded *)
(* form of the codepoints read, with their positions; only a whole text is *)
(* scanned; and a text refused is above the cap as a whole.                *)
(***************************************************************************)
NormInv ==
  /\ norm = Flat(Foldings(text), read)
  /\ offset_map = Flat(Offsets(text), read)
  /\ pc \notin {"normalize", "too_large"} => read = Len(text)
  /\ pc = "too_large" => Len(FoldedText(text)) > MaxNormalized

(* Nothing is read yet.                                                    *)
LEMMA NormInit == Init => NormInv
<1> SUFFICES ASSUME Init PROVE NormInv
  OBVIOUS
<1>1. read = 0 /\ norm = <<>> /\ offset_map = <<>> /\ pc = "normalize"
  BY DEF Init
<1>2. Flat(Foldings(text), read) = <<>> /\ Flat(Offsets(text), read) = <<>>
  BY <1>1, FlatZero
<1>3. QED
  BY <1>1, <1>2 DEF NormInv

(* The next codepoint adds its folding, and its position that often.       *)
LEMMA CodepointAdds ==
  ASSUME Inv, NormInv, read < Len(text)
  PROVE  /\ norm \o folded = Flat(Foldings(text), read + 1)
         /\ offset_map \o [i \in DOMAIN folded |-> ByteOf(text, read + 1)]
              = Flat(Offsets(text), read + 1)
         /\ Len(norm) \in Nat /\ Len(folded) \in Nat
         /\ Len(norm) + Len(folded) <= Len(FoldedText(text))
<1> PICK t \in Seq(Codepoints), k \in Nat, n \in Nat : t = text /\ k = read /\ n = k + 1
  <2>1. text \in Seq(Codepoints) /\ read \in Nat
    BY LenProperties DEF Inv, TypeOK
  <2>2. QED
    BY <2>1
<1>1. /\ Len(t) \in Nat /\ AreSeqs(Foldings(t), Len(t), Letters)
      /\ AreSeqs(Offsets(t), Len(t), Nat)
  BY FoldingsAreSeqs
<1>2. n \in 1 .. Len(t) /\ n \in 0 .. Len(t) /\ k \in 0 .. Len(t)
  BY <1>1
<1>3. /\ Foldings(t)[n] = folded
      /\ Offsets(t)[n] = [i \in DOMAIN folded |-> ByteOf(t, n)]
  BY <1>2 DEF Foldings, Offsets, folded
<1>4. AreSeqs(Foldings(t), n, Letters) /\ AreSeqs(Offsets(t), n, Nat)
  BY <1>1, <1>2, FewerAreSeqs
<1>5. /\ IsConcat(Flat(Foldings(t), n), Flat(Foldings(t), k), Foldings(t)[n])
      /\ IsConcat(Flat(Offsets(t), n), Flat(Offsets(t), k), Offsets(t)[n])
  BY <1>4, FlatStep
<1>6. norm = Flat(Foldings(t), k) /\ offset_map = Flat(Offsets(t), k)
  BY DEF NormInv
<1>7. /\ norm \o folded = Flat(Foldings(t), n)
      /\ offset_map \o [i \in DOMAIN folded |-> ByteOf(t, n)] = Flat(Offsets(t), n)
  BY <1>3, <1>5, <1>6, Zenon DEF IsConcat
<1>8. /\ Len(norm) \in Nat /\ Len(folded) \in Nat
      /\ Len(norm) + Len(folded) <= Len(FoldedText(t))
  <2>1. Len(norm) = FoldEnd(t, k) /\ FoldEnd(t, k) \in Nat
    BY <1>2, <1>6, FoldEnds DEF FoldEnd
  <2>2. n > 0 /\ n - 1 = k /\ Len(t) \in 0 .. Len(t)
    BY <1>1
  <2>3. FoldEnd(t, n) = FoldEnd(t, k) + Len(Foldings(t)[n])
    BY <1>2, <2>2, FoldEnds
  <2>4. FoldEnd(t, n) <= FoldEnd(t, Len(t)) /\ FoldEnd(t, Len(t)) = Len(FoldedText(t))
    BY <1>2, <2>2, FoldEnds
  <2>5. Len(folded) \in Nat
    BY <1>2, <1>3, FoldingType
  <2>6. QED
    BY <1>3, <2>1, <2>3, <2>4, <2>5
<1>9. read + 1 = n
  OBVIOUS
<1>10. QED
  BY <1>7, <1>8, <1>9

(* Reading a codepoint appends its folding and its offsets; all other      *)
(* steps leave them alone.                                                 *)
LEMMA NormStep == Inv /\ NormInv /\ [Next]_vars => NormInv'
<1> SUFFICES ASSUME Inv, NormInv, [Next]_vars PROVE NormInv'
  OBVIOUS
<1>1. CASE NormalizeCodepoint
  <2>1. /\ read < Len(text) /\ read' = read + 1 /\ UNCHANGED text
        /\ norm' = norm \o folded
        /\ offset_map' = offset_map \o [i \in DOMAIN folded |-> ByteOf(text, read + 1)]
        /\ pc = "normalize" /\ pc' = pc
    BY <1>1 DEF NormalizeCodepoint, args
  <2>2. /\ norm' = Flat(Foldings(text), read + 1)
        /\ offset_map' = Flat(Offsets(text), read + 1)
    BY <2>1, CodepointAdds
  <2>3. QED
    BY <2>1, <2>2 DEF NormInv
<1>2. CASE TooLarge
  <2>1. /\ read < Len(text) /\ Len(norm) + Len(folded) > MaxNormalized
        /\ UNCHANGED <<text, read, norm, offset_map>> /\ pc' = "too_large"
    BY <1>2 DEF TooLarge, args, input
  <2>2. /\ Len(norm) \in Nat /\ Len(folded) \in Nat
        /\ Len(norm) + Len(folded) <= Len(FoldedText(text))
    BY <2>1, CodepointAdds
  <2>3. MaxNormalized \in Nat /\ Len(FoldedText(text)) \in Nat
    BY ScanAssumption, FoldingsAreSeqs, LenProperties DEF Inv, TypeOK
  <2>4. Len(FoldedText(text)) > MaxNormalized
    BY <2>1, <2>2, <2>3
  <2>5. QED
    BY <2>1, <2>4 DEF NormInv
<1>3. CASE Normalized
  BY <1>3 DEF Normalized, NormInv, args, input
<1>4. CASE EnterLang \/ Return \/ LeaveLang
  BY <1>4 DEF EnterLang, Return, LeaveLang, NormInv, args, input
<1>5. CASE DropHit \/ Truncate \/ PushHit
  BY <1>5 DEF DropHit, Truncate, PushHit, Advance, NormInv, args, input
<1>6. CASE Returned \/ UNCHANGED vars
  BY <1>6 DEF Returned, NormInv, vars, args, input
<1>7. QED
  BY <1>1, <1>2, <1>3, <1>4, <1>5, <1>6 DEF Next

(* So the normalizer's part holds at every moment.                         *)
LEMMA NormAlways == SafetySpec => [](Inv /\ NormInv)
<1>1. Init => NormInv
  BY NormInit
<1>2. Inv /\ NormInv /\ [Next]_vars => NormInv'
  BY NormStep
<1>3. SafetySpec => []Inv
  BY InvAlways
<1>4. QED
  BY <1>1, <1>2, <1>3, PTL DEF SafetySpec

(* A scan is refused for its size exactly if the whole text, folded, is    *)
(* above the cap: normalize stops at the first codepoint that does not fit *)
(* (normalize.rs), and only then.                                          *)
THEOREM RefusedOnlyAboveTheCap == SafetySpec => []RefusedExactlyWhenTooLarge
<1>1. Inv /\ NormInv => RefusedExactlyWhenTooLarge
  <2> SUFFICES ASSUME Inv, NormInv, pc = "done"
               PROVE  ~(Len(FoldedText(text)) > MaxNormalized)
    BY DEF NormInv, RefusedExactlyWhenTooLarge
  <2>1. norm = FoldedText(text)
    BY FoldedIsFlat DEF NormInv
  <2>2. Len(norm) <= MaxNormalized /\ Len(norm) \in Nat /\ MaxNormalized \in Nat
    BY ScanAssumption, LenProperties DEF Inv, TypeOK
  <2>3. QED
    BY <2>1, <2>2
<1>2. QED
  BY <1>1, NormAlways, PTL

-------------------------------------------------------------------------------
(* An entry more is kept exactly if it is in the set.                      *)
LEMMA FilteredAppend ==
  ASSUME NEW T, NEW s \in Seq(T), NEW x \in T, NEW S, NEW more, IsAppend(more, s, x)
  PROVE  /\ Filtered(s, S) \in Seq(T)
         /\ x \in S => IsAppend(Filtered(more, S), Filtered(s, S), x)
         /\ x \notin S => Filtered(more, S) = Filtered(s, S)
<1> DEFINE P(y) == IF y \in S THEN <<y>> ELSE <<>>
           g == [i \in DOMAIN s |-> P(s[i])]
           h == [i \in DOMAIN more |-> P(more[i])]
<1>1. \A y \in T : P(y) \in Seq(T)
  <2> TAKE y \in T
  <2>1. <<y>> \in Seq(T) /\ <<>> \in Seq(T)
    BY EmptySeq
  <2>2. QED
    BY <2>1
<1>2. PICK n \in Nat : n = Len(s) /\ DOMAIN s = 1 .. n
  BY LenProperties
<1>3. /\ more \in Seq(T) /\ DOMAIN more = 1 .. n + 1 /\ more[n + 1] = x
      /\ \A i \in 1 .. n : more[i] = s[i]
  BY <1>2, AppendProperties, LenProperties DEF IsAppend
<1>4. \A i \in 1 .. n : s[i] \in T
  BY <1>2, ElementOfSeq
<1> HIDE DEF P
<1>5. g \in Seq(Seq(T)) /\ Len(g) = n
  BY <1>1, <1>2, <1>4
<1>6. h = Append(g, P(x))
  <2>1. h \in Seq(Seq(T)) /\ Len(h) = n + 1
    <3>1. \A i \in 1 .. n + 1 : more[i] \in T
      BY <1>3, <1>4
    <3>2. QED
      BY <1>1, <1>3, <3>1
  <2>2. P(x) \in Seq(T)
    BY <1>1
  <2>3. /\ Append(g, P(x)) \in Seq(Seq(T)) /\ Len(Append(g, P(x))) = n + 1
        /\ \A i \in 1 .. n : Append(g, P(x))[i] = g[i]
        /\ Append(g, P(x))[n + 1] = P(x)
    <3> HIDE DEF g
    <3>1. QED
      BY <1>5, <2>2, AppendProperties
  <2>4. \A i \in 1 .. n : h[i] = P(more[i]) /\ g[i] = P(s[i])
    BY <1>2, <1>3
  <2>5. h[n + 1] = P(x)
    BY <1>3
  <2>6. \A i \in 1 .. n + 1 : h[i] = Append(g, P(x))[i]
    <3> HIDE DEF g, h
    <3>1. QED
      BY <1>3, <2>3, <2>4, <2>5
  <2> HIDE DEF g, h
  <2>7. QED
    BY <2>1, <2>3, <2>6, SeqEqual
<1>7. Filtered(s, S) = FlattenSeq(g) /\ Filtered(more, S) = FlattenSeq(h)
  BY Zenon DEF Filtered, P
<1> HIDE DEF g, h
<1>8. P(x) \in Seq(T) /\ FlattenSeq(g) \in Seq(T)
  BY <1>1, <1>5, FlattenType
<1>9. FlattenSeq(h) = FlattenSeq(g) \o P(x)
  BY <1>5, <1>6, <1>8, FlattenAppend
<1>10. ASSUME x \in S PROVE FlattenSeq(h) = Append(FlattenSeq(g), x)
  <2>1. P(x) = <<x>>
    BY <1>10 DEF P
  <2>2. FlattenSeq(g) \o <<x>> = Append(FlattenSeq(g), x)
    BY <1>8, AppendIsConcat
  <2>3. QED
    BY <1>9, <2>1, <2>2
<1>11. ASSUME x \notin S PROVE FlattenSeq(h) = FlattenSeq(g)
  <2>1. P(x) = <<>>
    BY <1>11 DEF P
  <2>2. FlattenSeq(g) \o <<>> = FlattenSeq(g)
    BY <1>8, ConcatEmptySeq
  <2>3. QED
    BY <1>9, <2>1, <2>2
<1>12. QED
  BY <1>7, <1>8, <1>10, <1>11, Zenon DEF IsAppend

(* Of nothing, nothing is kept.                                            *)
LEMMA FilteredEmpty == \A S : Filtered(<<>>, S) = <<>>
<1> TAKE S
<1> DEFINE s == <<>>
           g == [i \in DOMAIN s |-> IF s[i] \in S THEN <<s[i]>> ELSE <<>>]
<1>1. g = <<>>
  <2>1. DOMAIN s = 1 .. 0
    OBVIOUS
  <2> HIDE DEF s
  <2>2. g = [i \in 1 .. 0 |-> IF s[i] \in S THEN <<s[i]>> ELSE <<>>]
    BY <2>1
  <2>3. QED
    BY <2>2
<1>2. Filtered(s, S) = FlattenSeq(g)
  BY Zenon DEF Filtered
<1>3. QED
  BY <1>1, <1>2, FlattenEmpty

-------------------------------------------------------------------------------
(***************************************************************************)
(* The languages entered, part of the invariant: each with the mode it is  *)
(* scanned in; none before the text is normalized; and all of them when    *)
(* the list was not cut.  `timed` trails them by the language under way.   *)
(***************************************************************************)
ModesInv ==
  /\ \A i \in 1 .. Len(mode_used) :
        mode_used[i] = [lang |-> langs[i], mode |-> ModeFor(langs[i], mode)]
  /\ pc \in {"normalize", "too_large"} => mode_used = <<>>
  /\ pc = "done" /\ ~truncated => Len(mode_used) = Len(langs)
  /\ truncated => Len(mode_used) > 0
  /\ EveryLanguageIsTimed

LoadedEntries == [lang : DOMAIN Patterns, mode : Modes]

(* No language is entered yet.                                             *)
LEMMA ModesInit == Init => ModesInv
<1> SUFFICES ASSUME Init PROVE ModesInv
  OBVIOUS
<1>1. mode_used = <<>> /\ timed = <<>> /\ pc = "normalize" /\ truncated = FALSE
  BY DEF Init
<1>2. EveryLanguageIsTimed
  BY <1>1, FilteredEmpty DEF EveryLanguageIsTimed
<1>3. Len(mode_used) = 0
  BY <1>1
<1>4. QED
  BY <1>1, <1>2, <1>3 DEF ModesInv

(* What entering a language adds to mode_used.                             *)
LEMMA EntryAdds ==
  ASSUME Inv, EnterLang
  PROVE  \E n \in Nat, l \in Langs, e \in [lang : Langs, mode : Modes] :
           /\ n = Len(mode_used) + 1 /\ n \in 1 .. Len(langs) /\ l = langs[n]
           /\ e = [lang |-> l, mode |-> ModeFor(l, mode)]
           /\ mode_used' = Append(mode_used, e)
           /\ mode_used' \in Seq([lang : Langs, mode : Modes])
           /\ Len(mode_used') = n /\ mode_used'[n] = e
           /\ \A i \in 1 .. n - 1 : mode_used'[i] = mode_used[i]
           /\ lang' = l /\ m' = e.mode
           /\ pc' = IF l \in DOMAIN Patterns THEN "find" ELSE "lang"
           /\ (e \in LoadedEntries <=> l \in DOMAIN Patterns)
<1>1. /\ mode_used \in Seq([lang : Langs, mode : Modes]) /\ langs \in Seq(Langs)
      /\ mode \in Modes \cup {NoMode}
  BY DEF Inv, TypeOK
<1>2. PICK n \in Nat : n = Len(mode_used) + 1 /\ n \in 1 .. Len(langs)
  <2>1. Len(mode_used) \in Nat /\ Len(langs) \in Nat /\ Len(mode_used) < Len(langs)
    BY <1>1, LenProperties DEF EnterLang
  <2>2. QED
    BY <2>1
<1>3. PICK l \in Langs : l = langs[n]
  BY <1>1, <1>2, ElementOfSeq
<1>4. PICK e : e = [lang |-> l, mode |-> ModeFor(l, mode)]
  OBVIOUS
<1>5. ModeFor(l, mode) \in Modes /\ e \in [lang : Langs, mode : Modes]
  BY <1>1, <1>3, <1>4, ScanAssumption DEF ModeFor, Modes, NoMode
<1>6. mode_used' = Append(mode_used, e) /\ UNCHANGED langs
      /\ pc' = IF l \in DOMAIN Patterns THEN "find" ELSE "lang"
  BY <1>2, <1>3, <1>4 DEF EnterLang, ModeFor, resolve_default_mode, args
<1>7. /\ mode_used' \in Seq([lang : Langs, mode : Modes])
      /\ Len(mode_used') = n /\ mode_used'[n] = e
      /\ \A i \in 1 .. n - 1 : mode_used'[i] = mode_used[i]
  <2>1. Len(mode_used) = n - 1
    BY <1>1, <1>2, LenProperties
  <2>2. QED
    BY <1>1, <1>2, <1>5, <1>6, <2>1, AppendProperties
<1>8. lang' = l /\ m' = e.mode
  BY <1>3, <1>6, <1>7 DEF lang, m
<1>9. e \in LoadedEntries <=> l \in DOMAIN Patterns
  BY <1>4, <1>5 DEF LoadedEntries
<1>10. QED
  BY <1>2, <1>3, <1>4, <1>5, <1>6, <1>7, <1>8, <1>9

(* A language is entered with its mode, and timed when it is left, cut or  *)
(* not.                                                                    *)
LEMMA ModesStep == Inv /\ ModesInv /\ [Next]_vars => ModesInv'
<1> SUFFICES ASSUME Inv, ModesInv, [Next]_vars PROVE ModesInv'
  OBVIOUS
<1>0. EveryLanguageIsTimed <=>
        Filtered(mode_used, LoadedEntries)
          = IF pc = "find" THEN Append(timed, [lang |-> lang, mode |-> m]) ELSE timed
  BY DEF EveryLanguageIsTimed, LoadedEntries
<1>00. EveryLanguageIsTimed' <=>
        Filtered(mode_used', LoadedEntries)
          = IF pc' = "find" THEN Append(timed', [lang |-> lang', mode |-> m']) ELSE timed'
  BY DEF EveryLanguageIsTimed, LoadedEntries
<1>1. CASE NormalizeCodepoint \/ TooLarge \/ Normalized
  <2>1. /\ UNCHANGED <<langs, mode, mode_used, truncated, timed>> /\ pc = "normalize"
        /\ pc' \in {"normalize", "too_large", "lang"} /\ mode_used = <<>>
    BY <1>1 DEF NormalizeCodepoint, TooLarge, Normalized, args, result, ModesInv
  <2>2. EveryLanguageIsTimed'
    BY <1>0, <1>00, <2>1 DEF ModesInv
  <2>3. QED
    BY <2>1, <2>2 DEF ModesInv
<1>2. CASE EnterLang
  <2>1. PICK n \in Nat, l \in Langs, e \in [lang : Langs, mode : Modes] :
           /\ n = Len(mode_used) + 1 /\ n \in 1 .. Len(langs) /\ l = langs[n]
           /\ e = [lang |-> l, mode |-> ModeFor(l, mode)]
           /\ mode_used' = Append(mode_used, e)
           /\ mode_used' \in Seq([lang : Langs, mode : Modes])
           /\ Len(mode_used') = n /\ mode_used'[n] = e
           /\ \A i \in 1 .. n - 1 : mode_used'[i] = mode_used[i]
           /\ lang' = l /\ m' = e.mode
           /\ pc' = IF l \in DOMAIN Patterns THEN "find" ELSE "lang"
           /\ (e \in LoadedEntries <=> l \in DOMAIN Patterns)
    BY <1>2, EntryAdds
  <2>2. UNCHANGED <<langs, mode, truncated, timed>> /\ pc = "lang"
    BY <1>2 DEF EnterLang, args
  <2>3. ASSUME NEW i \in 1 .. Len(mode_used')
        PROVE  mode_used'[i] = [lang |-> langs'[i], mode |-> ModeFor(langs'[i], mode')]
    <3>1. CASE i = n
      BY <2>1, <2>2, <3>1
    <3>2. CASE i # n
      <4>1. Len(mode_used) = n - 1
        <5>1. Len(mode_used) \in Nat
          BY LenProperties DEF Inv, TypeOK
        <5>2. QED
          BY <2>1, <5>1
      <4>2. i \in 1 .. n - 1
        BY <2>1, <3>2
      <4>3. mode_used[i] = [lang |-> langs[i], mode |-> ModeFor(langs[i], mode)]
        BY <4>1, <4>2 DEF ModesInv
      <4>4. QED
        BY <2>1, <2>2, <4>2, <4>3
    <3>3. QED
      BY <3>1, <3>2
  <2>4. /\ e \in LoadedEntries =>
             Filtered(mode_used', LoadedEntries) = Append(Filtered(mode_used, LoadedEntries), e)
        /\ e \notin LoadedEntries =>
             Filtered(mode_used', LoadedEntries) = Filtered(mode_used, LoadedEntries)
    <3>1. PICK T : T = [lang : Langs, mode : Modes]
      OBVIOUS
    <3>2. mode_used \in Seq(T) /\ e \in T
      BY <3>1 DEF Inv, TypeOK
    <3>3. IsAppend(mode_used', mode_used, e)
      BY <2>1, Zenon DEF IsAppend
    <3>4. /\ e \in LoadedEntries => IsAppend(Filtered(mode_used', LoadedEntries),
                                             Filtered(mode_used, LoadedEntries), e)
          /\ e \notin LoadedEntries =>
               Filtered(mode_used', LoadedEntries) = Filtered(mode_used, LoadedEntries)
      BY <3>2, <3>3, FilteredAppend
    <3>5. QED
      BY <3>4, Zenon DEF IsAppend
  <2>5. Filtered(mode_used, LoadedEntries) = timed
    BY <1>0, <2>2 DEF ModesInv
  <2>6. EveryLanguageIsTimed'
    <3>1. CASE l \in DOMAIN Patterns
      <4>1. [lang |-> lang', mode |-> m'] = e
        BY <2>1
      <4>2. QED
        BY <1>00, <2>1, <2>2, <2>4, <2>5, <3>1, <4>1
    <3>2. CASE l \notin DOMAIN Patterns
      BY <1>00, <2>1, <2>2, <2>4, <2>5, <3>2
    <3>3. QED
      BY <3>1, <3>2
  <2>7. Len(mode_used') > 0 /\ pc' \in {"find", "lang"}
    BY <2>1
  <2>8. QED
    BY <2>3, <2>6, <2>7 DEF ModesInv
<1>3. CASE Return
  <2>1. /\ UNCHANGED <<langs, mode, mode_used, truncated, timed>> /\ pc = "lang"
        /\ pc' = "done" /\ Len(mode_used) = Len(langs)
    BY <1>3 DEF Return, args, result
  <2>2. EveryLanguageIsTimed'
    BY <1>0, <1>00, <2>1 DEF ModesInv
  <2>3. QED
    BY <2>1, <2>2 DEF ModesInv
<1>4. CASE DropHit \/ PushHit
  <2>1. UNCHANGED <<langs, mode, mode_used, truncated, timed, pc>> /\ pc = "find"
    BY <1>4 DEF DropHit, PushHit, Advance, args
  <2>2. lang' = lang /\ m' = m
    BY <2>1 DEF lang, m
  <2>3. EveryLanguageIsTimed'
    BY <1>0, <1>00, <2>1, <2>2 DEF ModesInv
  <2>4. QED
    BY <2>1, <2>3 DEF ModesInv
<1>5. CASE Truncate \/ LeaveLang
  <2>1. /\ UNCHANGED <<langs, mode, mode_used>> /\ pc = "find"
        /\ timed' = Append(timed, [lang |-> lang, mode |-> m])
        /\ \/ pc' = "done" /\ truncated'
           \/ pc' = "lang" /\ UNCHANGED truncated
    BY <1>5 DEF Truncate, LeaveLang, Advance, record_lang_scan, args, result
  <2>2. EveryLanguageIsTimed'
    BY <1>0, <1>00, <2>1 DEF ModesInv
  <2>3. Len(mode_used) > 0
    BY <2>1 DEF Inv, Scanning
  <2>4. QED
    BY <2>1, <2>2, <2>3 DEF ModesInv
<1>6. CASE Returned \/ UNCHANGED vars
  <2>1. UNCHANGED <<langs, mode, mode_used, truncated, timed, pc>>
    BY <1>6 DEF Returned, vars, args, result
  <2>2. lang' = lang /\ m' = m
    BY <2>1 DEF lang, m
  <2>3. EveryLanguageIsTimed'
    BY <1>0, <1>00, <2>1, <2>2 DEF ModesInv
  <2>4. QED
    BY <2>1, <2>3 DEF ModesInv
<1>7. QED
  BY <1>1, <1>2, <1>3, <1>4, <1>5, <1>6 DEF Next

(* So the languages' part holds at every moment.                           *)
LEMMA ModesAlways == SafetySpec => [](Inv /\ ModesInv)
<1>1. Init => ModesInv
  BY ModesInit
<1>2. Inv /\ ModesInv /\ [Next]_vars => ModesInv'
  BY ModesStep
<1>3. SafetySpec => []Inv
  BY InvAlways
<1>4. QED
  BY <1>1, <1>2, <1>3, PTL DEF SafetySpec

(* "recorded regardless of whether the 256-cap trips" (scan.rs:103): each  *)
(* loaded language entered is timed once, in order, the one in which the   *)
(* list was cut included.                                                  *)
THEOREM LanguagesAreTimed == SafetySpec => []EveryLanguageIsTimed
<1>1. ModesInv => EveryLanguageIsTimed
  BY DEF ModesInv
<1>2. QED
  BY <1>1, ModesAlways, PTL

-------------------------------------------------------------------------------
(***************************************************************************)
(* A hit of the automaton.                                                 *)
(***************************************************************************)

(* While hits are looked at, the language is loaded and is the last one    *)
(* entered, its mode is the one the request gives it, and what is searched *)
(* is the folded text.                                                     *)
LEMMA FindFacts ==
  ASSUME Inv, NormInv, ModesInv, pc = "find"
  PROVE  /\ text \in Seq(Codepoints) /\ norm = FoldedText(text) /\ norm \in Seq(Letters)
         /\ offset_map = Flat(Offsets(text), Len(text))
         /\ FoldsToLetters(text, lang) /\ lang \in DOMAIN Patterns
         /\ Patterns[lang] \subseteq Seq(Letters) \ {<<>>}
         /\ at \in Nat /\ Len(norm) \in Nat /\ at <= Len(norm)
         /\ Len(mode_used) \in 1 .. Len(langs)
         /\ lang = langs[Len(mode_used)] /\ m = ModeFor(lang, mode)
<1>1. /\ text \in Seq(Codepoints) /\ norm \in Seq(Letters) /\ at \in 0 .. Len(norm)
      /\ langs \in Seq(Langs) /\ Len(mode_used) <= Len(langs)
      /\ mode_used \in Seq([lang : Langs, mode : Modes])
  BY DEF Inv, TypeOK
<1>2. norm = FoldedText(text) /\ offset_map = Flat(Offsets(text), Len(text))
  BY FoldedIsFlat DEF NormInv
<1>3. Len(mode_used) > 0 /\ lang \in DOMAIN Patterns
  BY DEF Inv, Scanning
<1>4. Patterns[lang] \subseteq Seq(Letters) \ {<<>>}
  BY <1>3, ScanAssumption
<1>5. Len(mode_used) \in Nat /\ Len(langs) \in Nat /\ Len(norm) \in Nat
  BY <1>1, LenProperties
<1>6. Len(mode_used) \in 1 .. Len(langs) /\ Len(mode_used) \in 1 .. Len(mode_used)
  BY <1>1, <1>3, <1>5
<1>7. m = ModeFor(lang, mode)
  <2>1. mode_used[Len(mode_used)] = [lang |-> langs[Len(mode_used)],
                                     mode |-> ModeFor(langs[Len(mode_used)], mode)]
    BY <1>6 DEF ModesInv
  <2>2. mode_used[Len(mode_used)].mode = ModeFor(langs[Len(mode_used)], mode)
    BY <2>1
  <2>3. QED
    BY <2>2 DEF lang, m
<1>8. at \in Nat /\ at <= Len(norm)
  BY <1>1, <1>5
<1>9. QED
  BY <1>1, <1>2, <1>3, <1>4, <1>5, <1>6, <1>7, <1>8 DEF FoldsToLetters, lang

(* The spans scan computes through the offset map are the reported ones,   *)
(* and the strict mode passes over exactly the hits that are not kept.     *)
LEMMA HitIsReported ==
  ASSUME Inv, NormInv, ModesInv, pc = "find", Ahead # {}
  PROVE  /\ hit \in Occurrences(FoldedText(text), Patterns[lang]) /\ hit.n \in Nat
         /\ hit.n >= at
         /\ \A q \in Occurrences(FoldedText(text), Patterns[lang]) :
               q.n >= at => hit.n < q.n \/ (hit.n = q.n /\ Len(hit.term) >= Len(q.term))
         /\ n_end = EndOf(hit) /\ n_end \in Nat /\ n_end <= Len(norm) /\ hit.n < n_end
         /\ [lang |-> lang, term |-> hit.term, start |-> widen_start, end |-> widen_end]
              = Reported(text, lang, hit)
         /\ Outside <=> ~Kept(text, lang, mode, hit)
<1>1. /\ text \in Seq(Codepoints) /\ norm = FoldedText(text) /\ norm \in Seq(Letters)
      /\ offset_map = Flat(Offsets(text), Len(text))
      /\ Patterns[lang] \subseteq Seq(Letters) \ {<<>>}
      /\ lang \in DOMAIN Patterns /\ at \in Nat
      /\ m = ModeFor(lang, mode)
  BY FindFacts
<1>2. hit \in Ahead
  BY <1>1, HitIsAhead
<1>3. hit \in Occurrences(norm, Patterns[lang]) /\ hit.n >= at
  BY <1>2 DEF Ahead
<1>4. \A q \in Ahead : hit.n < q.n \/ (hit.n = q.n /\ Len(hit.term) >= Len(q.term))
  <2> DEFINE Q(o) == \A q \in Ahead : o.n < q.n \/ (o.n = q.n /\ Len(o.term) >= Len(q.term))
  <2>1. \E o \in Ahead : Q(o)
    BY <1>1, HitExists
  <2>2. hit = CHOOSE o \in Ahead : Q(o)
    BY DEF hit
  <2> HIDE DEF Q
  <2>3. Q(hit)
    BY <2>1, <2>2
  <2>4. QED
    BY <2>3 DEF Q
<1>5. PICK x \in 1 .. Len(norm), y \in 1 .. Len(norm) :
         x = hit.n + 1 /\ y = EndOf(hit)
  <2>1. /\ hit.n \in Nat /\ EndOf(hit) \in Nat /\ hit.n < EndOf(hit) /\ EndOf(hit) <= Len(norm)
    BY <1>1, <1>3, OccurrenceFacts
  <2>2. Len(norm) \in Nat
    BY <1>1, LenProperties
  <2>3. hit.n + 1 \in 1 .. Len(norm) /\ EndOf(hit) \in 1 .. Len(norm)
    BY <2>1, <2>2
  <2>4. QED
    BY <2>3
<1>6. /\ hit.n \in Nat /\ EndOf(hit) \in Nat /\ hit.n < EndOf(hit) /\ EndOf(hit) <= Len(norm)
  BY <1>1, <1>3, OccurrenceFacts
<1>7. PICK j \in 1 .. Len(text), k \in 1 .. Len(text) :
         /\ j = Origin(text)[x] /\ k = Origin(text)[y]
         /\ offset_map[x] = ByteOf(text, j) /\ offset_map[y] = ByteOf(text, k)
  BY <1>1, OriginIs
<1>8. widen_start = ByteOf(text, j)
  BY <1>5, <1>7 DEF widen_start, n_start
<1>9. n_end = EndOf(hit)
  BY DEF n_end, EndOf
<1>10. widen_end = ByteOf(text, k + 1)
  <2>1. CodepointAt(text, ByteOf(text, k)) = text[k]
    BY <1>1, CodepointAtItsByte
  <2>2. ByteOf(text, k + 1) = ByteOf(text, k) + Width[text[k]]
    BY <1>1, ByteOfStep
  <2>3. offset_map[n_end] = ByteOf(text, k)
    BY <1>5, <1>7, <1>9
  <2>4. QED
    BY <2>1, <2>2, <2>3 DEF widen_end
<1>11. /\ Reported(text, lang, hit).start = widen_start
       /\ Reported(text, lang, hit).end = widen_end
       /\ [lang |-> lang, term |-> hit.term, start |-> widen_start, end |-> widen_end]
              = Reported(text, lang, hit)
  BY <1>5, <1>7, <1>8, <1>10 DEF Reported
<1>12. Outside <=> ~Kept(text, lang, mode, hit)
  BY <1>1, <1>11 DEF Outside, Kept, WholeWords
<1>13. QED
  BY <1>1, <1>3, <1>4, <1>6, <1>9, <1>11, <1>12 DEF Ahead

(* Every reported span holds its term, as SpansHoldTheirTerm says.         *)
LEMMA SpansStep ==
  Inv /\ NormInv /\ ModesInv /\ SpansHoldTheirTerm /\ [Next]_vars => SpansHoldTheirTerm'
<1> SUFFICES ASSUME Inv, NormInv, ModesInv, SpansHoldTheirTerm, [Next]_vars
             PROVE  SpansHoldTheirTerm'
  OBVIOUS
<1>1. /\ SpansHoldTheirTerm <=> \A i \in DOMAIN matches : HoldsItsTerm(text, matches[i])
      /\ SpansHoldTheirTerm' <=> \A i \in DOMAIN matches' : HoldsItsTerm(text', matches'[i])
  BY DEF SpansHoldTheirTerm, HoldsItsTerm
<1>2. CASE PushHit
  <2> PICK r : r = Reported(text, lang, hit)
    OBVIOUS
  <2>1. /\ Ahead # {} /\ pc = "find" /\ UNCHANGED text
        /\ matches' = Append(matches, [lang |-> lang, term |-> hit.term,
                                       start |-> widen_start, end |-> widen_end])
    BY <1>2 DEF PushHit, Advance, args
  <2>2. matches' = Append(matches, r)
    BY <2>1, HitIsReported
  <2>3. HoldsItsTerm(text, r)
    BY <2>1, FindFacts, HitIsReported, ReportHoldsItsTerm
  <2>4. matches \in Seq(SpanRecord(text))
    BY DEF Inv, SlicesAtCodepoints
  <2>5. PICK n \in Nat : n = Len(matches) /\ DOMAIN matches = 1 .. n
    BY <2>4, LenProperties
  <2>6. /\ DOMAIN matches' = 1 .. n + 1
        /\ matches'[n + 1] = r /\ \A i \in 1 .. n : matches'[i] = matches[i]
    BY <2>2, <2>5
  <2>7. \A i \in 1 .. n + 1 : HoldsItsTerm(text, matches'[i])
    <3> TAKE i \in 1 .. n + 1
    <3>1. CASE i = n + 1
      BY <2>3, <2>6, <3>1
    <3>2. CASE i # n + 1
      BY <1>1, <2>5, <2>6, <3>2
    <3>3. QED
      BY <3>1, <3>2
  <2>8. QED
    BY <1>1, <2>1, <2>6, <2>7
<1>3. CASE ~PushHit
  <2>1. UNCHANGED <<text, matches>>
    BY <1>3 DEF Next, NormalizeCodepoint, TooLarge, Normalized, EnterLang, Return, DropHit,
                Truncate, LeaveLang, Returned, Advance, vars, args, result
  <2>2. QED
    BY <1>1, <2>1
<1>4. QED
  BY <1>2, <1>3

(* The two parts together.                                                 *)
LEMMA ScanAlways == SafetySpec => [](Inv /\ NormInv /\ ModesInv)
BY NormAlways, ModesAlways, PTL

(* Every reported span is a range of whole codepoints of the text whose    *)
(* folded form has the term in it, and no narrower one does there:         *)
(* widen_to_source (scan.rs) widens by as much as is needed.               *)
THEOREM SpansAreTight == SafetySpec => []SpansHoldTheirTerm
<1>1. Init => SpansHoldTheirTerm
  BY DEF Init, SpansHoldTheirTerm
<1>2. QED
  BY <1>1, SpansStep, ScanAlways, PTL DEF SafetySpec

-------------------------------------------------------------------------------
(***************************************************************************)
(* The full list is the lists of the languages one after the other.        *)
(***************************************************************************)
Lists(t, ls, md) == [i \in 1 .. Len(ls) |-> MatchesIn(t, ls[i], md)]

(* The first k languages have the first k lists.                           *)
LEMMA ListsAreSeqs ==
  ASSUME NEW t \in Seq(Codepoints), NEW ls \in Seq(Langs), NEW md
  PROVE  /\ Len(ls) \in Nat
         /\ AreSeqs(Lists(t, ls, md), Len(ls), Reports(t))
         /\ FullList(t, ls, md) = Flat(Lists(t, ls, md), Len(ls))
         /\ \A k \in 0 .. Len(ls) :
              FullList(t, SubSeq(ls, 1, k), md) = Flat(Lists(t, ls, md), k)
<1>1. PICK n \in Nat : n = Len(ls) /\ DOMAIN ls = 1 .. n
  BY LenProperties
<1>2. ASSUME NEW l PROVE MatchesIn(t, l, md) \in Seq(Reports(t))
  <2>1. CASE l \notin DOMAIN Patterns
    BY <2>1, EmptySeq DEF MatchesIn
  <2>2. CASE l \in DOMAIN Patterns
    <3>1. FoldsToLetters(t, l) /\ Len(FoldedText(t)) \in Nat
      BY <2>2, FoldingsAreSeqs, LenProperties DEF FoldsToLetters
    <3>2. ReportedUpTo(t, l, md, Len(FoldedText(t))) \in Seq(Reports(t))
      BY <3>1, EntriesAreSeqs
    <3>3. QED
      BY <2>2, <3>2 DEF MatchesIn
  <2>3. QED
    BY <2>1, <2>2
<1>3. AreSeqs(Lists(t, ls, md), n, Reports(t))
  BY <1>1, <1>2 DEF AreSeqs, Lists
<1>4. FullList(t, ls, md) = Flat(Lists(t, ls, md), n)
  <2>1. [i \in DOMAIN ls |-> MatchesIn(t, ls[i], md)]
          = [i \in 1 .. n |-> Lists(t, ls, md)[i]]
    BY <1>1 DEF Lists
  <2>2. QED
    BY <2>1, Zenon DEF FullList, Flat
<1>5. ASSUME NEW k \in 0 .. n
      PROVE  FullList(t, SubSeq(ls, 1, k), md) = Flat(Lists(t, ls, md), k)
  <2> DEFINE u == SubSeq(ls, 1, k)
  <2>1. DOMAIN u = 1 .. k /\ \A i \in 1 .. k : u[i] = ls[i]
    <3>1. 0 + k <= Len(ls) /\ k \in Nat /\ 0 \in Nat /\ 0 + 1 = 1 /\ 0 + k = k
      BY <1>1
    <3>2. /\ SubSeq(ls, 0 + 1, 0 + k) \in Seq(Langs) /\ Len(SubSeq(ls, 0 + 1, 0 + k)) = k
          /\ \A i \in 1 .. k : SubSeq(ls, 0 + 1, 0 + k)[i] = ls[0 + i]
      BY <3>1, SubSeqIs
    <3>3. u \in Seq(Langs) /\ Len(u) = k /\ \A i \in 1 .. k : u[i] = ls[i]
      BY <3>1, <3>2
    <3> HIDE DEF u
    <3>4. QED
      BY <3>3, LenProperties
  <2> HIDE DEF u
  <2>2. \A i \in 1 .. k : i \in 1 .. Len(ls)
    BY <1>1
  <2>3. [i \in DOMAIN u |-> MatchesIn(t, u[i], md)]
          = [i \in 1 .. k |-> Lists(t, ls, md)[i]]
    BY <2>1, <2>2 DEF Lists
  <2>4. QED
    BY <2>3, Zenon DEF FullList, Flat, u
<1>6. QED
  BY <1>1, <1>3, <1>4, <1>5

(* One language's list, and where it stands in the full one.               *)
LEMMA ListAdds ==
  ASSUME NEW t \in Seq(Codepoints), NEW ls \in Seq(Langs), NEW md,
         NEW n \in 1 .. Len(ls), NEW k \in Nat, n = k + 1
  PROVE  /\ Lists(t, ls, md)[n] = MatchesIn(t, ls[n], md)
         /\ MatchesIn(t, ls[n], md) \in Seq(Reports(t))
         /\ Flat(Lists(t, ls, md), k) \in Seq(Reports(t))
         /\ Flat(Lists(t, ls, md), n) \in Seq(Reports(t))
         /\ IsConcat(Flat(Lists(t, ls, md), n), Flat(Lists(t, ls, md), k),
                     MatchesIn(t, ls[n], md))
<1> DEFINE g == Lists(t, ls, md)
<1>1. Len(ls) \in Nat /\ AreSeqs(g, Len(ls), Reports(t))
  BY ListsAreSeqs
<1>2. g[n] = MatchesIn(t, ls[n], md)
  BY DEF Lists
<1> HIDE DEF g
<1>3. n \in Nat /\ n \in 0 .. Len(ls)
  BY <1>1
<1>4. AreSeqs(g, n, Reports(t))
  BY <1>1, <1>3, FewerAreSeqs
<1>5. IsConcat(Flat(g, n), Flat(g, k), g[n]) /\ Flat(g, k) \in Seq(Reports(t))
      /\ g[n] \in Seq(Reports(t))
  BY <1>3, <1>4, FlatStep
<1>6. Flat(g, n) \in Seq(Reports(t))
  BY <1>3, <1>4, FlatType
<1>7. QED
  BY <1>2, <1>5, <1>6 DEF g

(***************************************************************************)
(* The list, part of the invariant.  Between languages it is the lists of  *)
(* those entered; within one, what comes before it and the reports up to   *)
(* find_iter's position, which no hit reaches over; once cut, it has more  *)
(* after it in the lists of the languages entered, but not in those        *)
(* without the last.                                                       *)
(***************************************************************************)
Before(k) == Flat(Lists(text, langs, mode), k)

MatchInv ==
  /\ pc \in {"normalize", "too_large"} => matches = <<>>
  /\ pc = "lang" \/ (pc = "done" /\ ~truncated) => matches = Before(Len(mode_used))
  /\ pc = "find" => /\ IsConcat(matches, Before(Len(mode_used) - 1),
                                ReportedUpTo(text, lang, mode, at))
                    /\ Between(HitsIn(text, lang), at)
  /\ truncated => /\ \E rest \in Seq(Reports(text)) \ {<<>>} :
                        IsConcat(Before(Len(mode_used)), matches, rest)
                  /\ matches \in Seq(Reports(text))
                  /\ Len(Before(Len(mode_used) - 1)) <= MaxMatches

(* Nothing is found yet.                                                   *)
LEMMA MatchInit == Init => MatchInv
BY DEF Init, MatchInv

(* Where the list stands while hits are looked at.                         *)
LEMMA ListFacts ==
  ASSUME Inv, NormInv, ModesInv, MatchInv, pc = "find"
  PROVE  \E n \in 1 .. Len(langs), k \in Nat :
           /\ n = Len(mode_used) /\ n = k + 1 /\ k = Len(mode_used) - 1
           /\ IsConcat(matches, Before(k), ReportedUpTo(text, lang, mode, at))
           /\ Before(k) \in Seq(Reports(text)) /\ Before(n) \in Seq(Reports(text))
           /\ ReportedUpTo(text, lang, mode, at) \in Seq(Reports(text))
           /\ MatchesIn(text, lang, mode) \in Seq(Reports(text))
           /\ IsConcat(Before(n), Before(k), MatchesIn(text, lang, mode))
           /\ MatchesIn(text, lang, mode)
                = ReportedUpTo(text, lang, mode, Len(FoldedText(text)))
<1>1. PICK n \in 1 .. Len(langs), k \in Nat :
         n = Len(mode_used) /\ n = k + 1 /\ k = Len(mode_used) - 1
  <2>1. Len(mode_used) \in 1 .. Len(langs)
    BY FindFacts
  <2>2. Len(mode_used) - 1 \in Nat /\ Len(mode_used) = (Len(mode_used) - 1) + 1
    BY <2>1
  <2>3. QED
    BY <2>1, <2>2
<1>2. text \in Seq(Codepoints) /\ langs \in Seq(Langs) /\ lang = langs[n]
  BY <1>1 DEF Inv, TypeOK, lang
<1>3. /\ Before(k) \in Seq(Reports(text)) /\ Before(n) \in Seq(Reports(text))
      /\ MatchesIn(text, lang, mode) \in Seq(Reports(text))
      /\ IsConcat(Before(n), Before(k), MatchesIn(text, lang, mode))
  BY <1>1, <1>2, ListAdds DEF Before
<1>4. IsConcat(matches, Before(k), ReportedUpTo(text, lang, mode, at))
  BY <1>1 DEF MatchInv
<1>5. ReportedUpTo(text, lang, mode, at) \in Seq(Reports(text))
  BY FindFacts, EntriesAreSeqs
<1>6. MatchesIn(text, lang, mode) = ReportedUpTo(text, lang, mode, Len(FoldedText(text)))
  BY FindFacts DEF MatchesIn
<1>7. QED
  BY <1>1, <1>3, <1>4, <1>5, <1>6

(* A hit adds its report to those up to the iterator's position, if it is  *)
(* kept, and the new position is between hits again.                       *)
LEMMA HitMoves ==
  ASSUME Inv, NormInv, ModesInv, MatchInv, pc = "find", Ahead # {}
  PROVE  /\ Between(HitsIn(text, lang), n_end)
         /\ n_end \in Nat /\ n_end \in 0 .. Len(FoldedText(text))
         /\ <<Reported(text, lang, hit)>> \in Seq(Reports(text))
         /\ ReportedUpTo(text, lang, mode, n_end) \in Seq(Reports(text))
         /\ Kept(text, lang, mode, hit) =>
              IsConcat(ReportedUpTo(text, lang, mode, n_end),
                       ReportedUpTo(text, lang, mode, at), <<Reported(text, lang, hit)>>)
         /\ ~Kept(text, lang, mode, hit) =>
              ReportedUpTo(text, lang, mode, n_end) = ReportedUpTo(text, lang, mode, at)
<1>1. /\ FoldsToLetters(text, lang) /\ at \in Nat /\ norm = FoldedText(text)
      /\ Patterns[lang] \subseteq Seq(Letters) \ {<<>>} /\ norm \in Seq(Letters)
      /\ Len(norm) \in Nat
  BY FindFacts
<1>2. Between(HitsIn(text, lang), at)
  BY DEF MatchInv
<1>3. /\ hit \in Occurrences(FoldedText(text), Patterns[lang]) /\ hit.n \in Nat /\ hit.n >= at
      /\ \A q \in Occurrences(FoldedText(text), Patterns[lang]) :
            q.n >= at => hit.n < q.n \/ (hit.n = q.n /\ Len(hit.term) >= Len(q.term))
      /\ n_end = EndOf(hit) /\ n_end \in Nat /\ n_end <= Len(norm) /\ hit.n < n_end
  BY HitIsReported
<1> PICK C : C = LeftmostLongest(FoldedText(text), Patterns[lang])
  OBVIOUS
<1>4. C = HitsIn(text, lang)
  BY DEF HitsIn
<1>5. /\ hit \in C /\ Between(C, n_end)
      /\ \A c \in C : at <= c.n /\ c.n < n_end => c = hit
  <2>0. PICK p \in Nat : p = at
    BY <1>1
  <2>1. PICK s, terms, o : s = FoldedText(text) /\ terms = Patterns[lang] /\ o = hit
    OBVIOUS
  <2>2. /\ s \in Seq(Letters) /\ terms \subseteq Seq(Letters) \ {<<>>}
        /\ C = LeftmostLongest(s, terms) /\ Between(C, p)
        /\ o \in Occurrences(s, terms) /\ o.n >= p
        /\ \A q \in Occurrences(s, terms) :
              q.n >= p => o.n < q.n \/ (o.n = q.n /\ Len(o.term) >= Len(q.term))
    BY <1>1, <1>2, <1>3, <1>4, <2>0, <2>1
  <2>3. /\ o \in C /\ Between(C, EndOf(o))
        /\ \A c \in C : p <= c.n /\ c.n < EndOf(o) => c = o
    BY <2>2, NextHit
  <2>4. QED
    BY <1>3, <2>0, <2>1, <2>3
<1>6. /\ Kept(text, lang, mode, hit) =>
            IsConcat(ReportedUpTo(text, lang, mode, n_end),
                     ReportedUpTo(text, lang, mode, at), <<Reported(text, lang, hit)>>)
      /\ ~Kept(text, lang, mode, hit) =>
            ReportedUpTo(text, lang, mode, n_end) = ReportedUpTo(text, lang, mode, at)
  <2>0. PICK p \in Nat, e \in Nat : p = at /\ e = n_end
    BY <1>1, <1>3
  <2>1. PICK t, l, md, o : t = text /\ l = lang /\ md = mode /\ o = hit
    OBVIOUS
  <2>2. /\ FoldsToLetters(t, l)
        /\ o \in HitsIn(t, l) /\ o.n \in Nat /\ p <= o.n /\ o.n < e
        /\ \A c \in HitsIn(t, l) : p <= c.n /\ c.n < e => c = o
    BY <1>1, <1>3, <1>4, <1>5, <2>0, <2>1
  <2>3. /\ Kept(t, l, md, o) => IsConcat(ReportedUpTo(t, l, md, e),
                                         ReportedUpTo(t, l, md, p), <<Reported(t, l, o)>>)
        /\ ~Kept(t, l, md, o) => ReportedUpTo(t, l, md, e) = ReportedUpTo(t, l, md, p)
    BY <2>2, HitAdds
  <2>4. QED
    BY <2>0, <2>1, <2>3
<1>7. ReportedUpTo(text, lang, mode, n_end) \in Seq(Reports(text))
  BY <1>1, <1>3, EntriesAreSeqs
<1>8. <<Reported(text, lang, hit)>> \in Seq(Reports(text))
  <2>1. hit \in [n : Nat, term : Seq(Letters)] /\ lang \in Langs
    BY <1>1, <1>4, <1>5, HitIsOccurrence
  <2>2. Reported(text, lang, hit) \in Reports(text)
    BY <2>1 DEF Reports
  <2>3. QED
    BY <2>2
<1>9. n_end \in 0 .. Len(FoldedText(text))
  BY <1>1, <1>3
<1>10. QED
  BY <1>3, <1>4, <1>5, <1>6, <1>7, <1>8, <1>9

(* When no occurrence is left, the reports up to the iterator's position   *)
(* are the language's list.                                                *)
LEMMA NothingLeft ==
  ASSUME Inv, NormInv, ModesInv, MatchInv, pc = "find", Ahead = {}
  PROVE  MatchesIn(text, lang, mode) = ReportedUpTo(text, lang, mode, at)
<1>1. /\ FoldsToLetters(text, lang) /\ at \in Nat /\ norm = FoldedText(text)
      /\ Len(norm) \in Nat /\ at <= Len(norm)
  BY FindFacts
<1>2. \A c \in HitsIn(text, lang) : ~(at <= c.n /\ c.n < Len(norm))
  <2> SUFFICES ASSUME NEW c \in HitsIn(text, lang), at <= c.n PROVE FALSE
    OBVIOUS
  <2>1. c \in Occurrences(norm, Patterns[lang]) /\ c.n \in Nat
    BY <1>1, HitIsOccurrence
  <2>2. c.n >= at
    BY <1>1, <2>1
  <2>3. QED
    BY <2>1, <2>2 DEF Ahead
<1>3. PICK n \in Nat : n = Len(norm) /\ at \in 0 .. n
  BY <1>1
<1>4. ReportedUpTo(text, lang, mode, n) = ReportedUpTo(text, lang, mode, at)
  BY <1>1, <1>2, <1>3, NothingBetween
<1>5. QED
  BY <1>1, <1>3, <1>4, ListFacts

(* What is kept when the list is cut is followed, in the lists of the      *)
(* languages entered, by the hit that did not fit.                         *)
LEMMA CutLeavesOut ==
  ASSUME Inv, NormInv, ModesInv, MatchInv, pc = "find", Ahead # {},
         Kept(text, lang, mode, hit)
  PROVE  /\ \E rest \in Seq(Reports(text)) \ {<<>>} :
                IsConcat(Before(Len(mode_used)), matches, rest)
         /\ matches \in Seq(Reports(text))
         /\ Len(Before(Len(mode_used) - 1)) <= MaxMatches
<1>1. PICK n \in 1 .. Len(langs), k \in Nat :
           /\ n = Len(mode_used) /\ n = k + 1 /\ k = Len(mode_used) - 1
           /\ IsConcat(matches, Before(k), ReportedUpTo(text, lang, mode, at))
           /\ Before(k) \in Seq(Reports(text)) /\ Before(n) \in Seq(Reports(text))
           /\ ReportedUpTo(text, lang, mode, at) \in Seq(Reports(text))
           /\ MatchesIn(text, lang, mode) \in Seq(Reports(text))
           /\ IsConcat(Before(n), Before(k), MatchesIn(text, lang, mode))
           /\ MatchesIn(text, lang, mode)
                = ReportedUpTo(text, lang, mode, Len(FoldedText(text)))
  BY ListFacts
<1> DEFINE S == Reports(text)
           full == MatchesIn(text, lang, mode)
           sofar == ReportedUpTo(text, lang, mode, at)
           more == ReportedUpTo(text, lang, mode, n_end)
           this == <<Reported(text, lang, hit)>>
<1>2. /\ more \in Seq(S) /\ this \in Seq(S) /\ IsConcat(more, sofar, this)
      /\ n_end \in Nat /\ n_end \in 0 .. Len(FoldedText(text))
  BY HitMoves
<1>3. PICK rest \in Seq(S) : IsConcat(full, more, rest)
  <2>1. PICK g : g = Entries(text, lang, mode)
    OBVIOUS
  <2>2. PICK len \in Nat : len = Len(FoldedText(text))
    BY FindFacts
  <2>3. FoldsToLetters(text, lang)
    BY FindFacts
  <2>4. AreSeqs(g, len, S) /\ n_end \in 0 .. len
    BY <1>2, <2>1, <2>2, <2>3, EntriesAreSeqs
  <2>5. \E rest \in Seq(S) : IsConcat(Flat(g, len), Flat(g, n_end), rest)
    BY <2>4, FlatGrows
  <2>6. full = Flat(g, len) /\ more = Flat(g, n_end)
    BY <1>1, <1>2, <2>1, <2>2, ReportsAreFlat
  <2>7. QED
    BY <2>5, <2>6
<1> DEFINE left == this \o rest
<1>4. left \in Seq(S) /\ left # <<>> /\ IsConcat(left, this, rest)
  <2>1. Len(this) = 1
    OBVIOUS
  <2> HIDE DEF this
  <2>2. left \in Seq(S) /\ Len(left) = Len(this) + Len(rest) /\ Len(rest) \in Nat
    BY <1>2, ConcatProperties, LenProperties
  <2>3. Len(left) # 0
    BY <2>1, <2>2
  <2>4. IsConcat(left, this, rest)
    BY Zenon DEF IsConcat
  <2> HIDE DEF left
  <2>5. QED
    BY <2>2, <2>3, <2>4, EmptySeq
<1> HIDE DEF S, full, sofar, more, this, left
<1>5. IsConcat(full, sofar, left)
  <2>1. sofar \in Seq(S)
    BY <1>1 DEF sofar, S
  <2>2. QED
    BY <1>2, <1>3, <1>4, <2>1, ConcatRegroups
<1>6. IsConcat(Before(n), matches, left)
  <2>1. /\ sofar \in Seq(S) /\ Before(k) \in Seq(S)
        /\ IsConcat(matches, Before(k), sofar) /\ IsConcat(Before(n), Before(k), full)
    BY <1>1 DEF sofar, full, S
  <2>2. QED
    BY <1>4, <1>5, <2>1, ConcatRegroups
<1>7. matches \in Seq(S) /\ Len(Before(k)) \in Nat /\ Len(Before(k)) <= Len(matches)
  <2>1. sofar \in Seq(S) /\ Before(k) \in Seq(S) /\ IsConcat(matches, Before(k), sofar)
    BY <1>1 DEF sofar, S
  <2>2. /\ matches \in Seq(S) /\ Len(Before(k)) \in Nat /\ Len(sofar) \in Nat
        /\ Len(matches) = Len(Before(k)) + Len(sofar)
    BY <2>1, ConcatIs
  <2>3. QED
    BY <2>2
<1>8. Len(matches) <= MaxMatches /\ MaxMatches \in Nat
  BY ScanAssumption DEF Inv, TypeOK
<1>9. Len(matches) \in Nat
  BY <1>7, LenProperties
<1>10. Len(Before(k)) <= MaxMatches
  BY <1>7, <1>8, <1>9
<1>11. QED
  BY <1>1, <1>4, <1>6, <1>7, <1>10 DEF S

(* A hit is kept or dropped as the list says, find_iter passes over what   *)
(* holds no hit, and the list is cut only when there is more to come.      *)
LEMMA MatchStep ==
  Inv /\ Inv' /\ NormInv /\ ModesInv /\ MatchInv /\ [Next]_vars => MatchInv'
<1> SUFFICES ASSUME Inv, Inv', NormInv, ModesInv, MatchInv, [Next]_vars PROVE MatchInv'
  OBVIOUS
<1>0. UNCHANGED <<text, langs, mode>> => \A k : Before(k)' = Before(k)
  BY DEF Before
<1>00. (truncated => pc = "done") /\ (truncated' => pc' = "done")
  BY DEF Inv, CutEnds
<1>1. CASE NormalizeCodepoint \/ TooLarge \/ Normalized
  <2>1. /\ UNCHANGED <<text, langs, mode, mode_used, matches, truncated>> /\ pc = "normalize"
        /\ pc' \in {"normalize", "too_large", "lang"} /\ mode_used = <<>> /\ matches = <<>>
    BY <1>1 DEF NormalizeCodepoint, TooLarge, Normalized, args, result, ModesInv, MatchInv
  <2>2. Before(Len(mode_used)) = <<>>
    <3>1. Len(mode_used) = 0
      BY <2>1
    <3>2. QED
      BY <3>1, FlatZero DEF Before
  <2>3. ~truncated /\ ~truncated'
    BY <1>00, <2>1
  <2>4. QED
    BY <1>0, <2>1, <2>2, <2>3 DEF MatchInv
<1>2. CASE EnterLang
  <2>1. PICK n \in Nat, l \in Langs, e \in [lang : Langs, mode : Modes] :
           /\ n = Len(mode_used) + 1 /\ n \in 1 .. Len(langs) /\ l = langs[n]
           /\ e = [lang |-> l, mode |-> ModeFor(l, mode)]
           /\ mode_used' = Append(mode_used, e)
           /\ mode_used' \in Seq([lang : Langs, mode : Modes])
           /\ Len(mode_used') = n /\ mode_used'[n] = e
           /\ \A i \in 1 .. n - 1 : mode_used'[i] = mode_used[i]
           /\ lang' = l /\ m' = e.mode
           /\ pc' = IF l \in DOMAIN Patterns THEN "find" ELSE "lang"
           /\ (e \in LoadedEntries <=> l \in DOMAIN Patterns)
    BY <1>2, EntryAdds
  <2>2. /\ UNCHANGED <<text, langs, mode, matches, truncated>> /\ pc = "lang" /\ at' = 0
    BY <1>2 DEF EnterLang, args
  <2>3. PICK k \in Nat : k = Len(mode_used) /\ n = k + 1 /\ k = n - 1
    <3>1. Len(mode_used) \in Nat
      BY LenProperties DEF Inv, TypeOK
    <3>2. QED
      BY <2>1, <3>1
  <2>4. matches = Before(k) /\ ~truncated'
    BY <1>00, <2>2, <2>3 DEF MatchInv
  <2>5. /\ MatchesIn(text, l, mode) \in Seq(Reports(text))
        /\ Before(k) \in Seq(Reports(text))
        /\ IsConcat(Before(n), Before(k), MatchesIn(text, l, mode))
    <3>1. text \in Seq(Codepoints) /\ langs \in Seq(Langs)
      BY DEF Inv, TypeOK
    <3>2. n \in 1 .. Len(langs) /\ n = k + 1 /\ l = langs[n]
      BY <2>1, <2>3
    <3>3. QED
      BY <3>1, <3>2, ListAdds DEF Before
  <2>6. CASE l \notin DOMAIN Patterns
    <3>1. IsConcat(Before(n), Before(k), <<>>)
      BY <2>5, <2>6 DEF MatchesIn
    <3>2. Before(n) = Before(k)
      BY <2>5, <3>1, ConcatEmptySeq, Zenon DEF IsConcat
    <3>3. matches' = Before(Len(mode_used))' /\ pc' = "lang"
      BY <2>1, <2>2, <2>4, <2>6, <3>2 DEF Before
    <3>4. QED
      BY <2>4, <3>3 DEF MatchInv
  <2>7. CASE l \in DOMAIN Patterns
    <3>1. ReportedUpTo(text, l, mode, 0) = <<>>
      BY ReportsAreFlat, FlatZero
    <3>2. IsConcat(Before(k), Before(k), <<>>)
      BY <2>5, ConcatEmptySeq, Zenon DEF IsConcat
    <3>3. IsConcat(matches, Before(k), ReportedUpTo(text, l, mode, 0))
      BY <2>4, <3>1, <3>2, Zenon
    <3>4. Between(HitsIn(text, l), 0)
      <4>1. FoldsToLetters(text, l)
        BY <2>7, FoldingsAreSeqs DEF Inv, TypeOK, FoldsToLetters
      <4>2. \A c \in HitsIn(text, l) : ~(c.n < 0)
        BY <4>1, HitIsOccurrence
      <4>3. QED
        BY <4>2 DEF Between
    <3>5. Len(mode_used') - 1 = k /\ pc' = "find"
      BY <2>1, <2>3, <2>7
    <3>6. /\ IsConcat(matches, Before(Len(mode_used) - 1), ReportedUpTo(text, lang, mode, at))'
          /\ Between(HitsIn(text, lang), at)'
      BY <2>1, <2>2, <3>3, <3>4, <3>5 DEF Before
    <3>7. QED
      BY <2>4, <3>5, <3>6 DEF MatchInv
  <2>8. QED
    BY <2>6, <2>7
<1>3. CASE Return
  BY <1>0, <1>00, <1>3 DEF Return, args, result, MatchInv
<1>4. CASE DropHit
  <2>1. /\ UNCHANGED <<text, langs, mode, mode_used, matches, truncated, pc>>
        /\ pc = "find" /\ Ahead # {} /\ Outside /\ at' = n_end
    BY <1>4 DEF DropHit, Advance, args
  <2>2. lang' = lang
    BY <2>1 DEF lang
  <2>3. /\ ReportedUpTo(text, lang, mode, n_end) = ReportedUpTo(text, lang, mode, at)
        /\ Between(HitsIn(text, lang), n_end)
    BY <2>1, HitIsReported, HitMoves
  <2>4. IsConcat(matches, Before(Len(mode_used) - 1), ReportedUpTo(text, lang, mode, at))
    BY <2>1 DEF MatchInv
  <2>5. QED
    BY <1>0, <1>00, <2>1, <2>2, <2>3, <2>4 DEF MatchInv
<1>5. CASE PushHit
  <2>1. /\ UNCHANGED <<text, langs, mode, mode_used, truncated, pc>>
        /\ pc = "find" /\ Ahead # {} /\ ~Outside /\ at' = n_end
        /\ matches' = Append(matches, [lang |-> lang, term |-> hit.term,
                                       start |-> widen_start, end |-> widen_end])
    BY <1>5 DEF PushHit, Advance, args
  <2>2. lang' = lang
    BY <2>1 DEF lang
  <2>3. matches' = Append(matches, Reported(text, lang, hit)) /\ Kept(text, lang, mode, hit)
    BY <2>1, HitIsReported
  <2> DEFINE S == Reports(text)
             sofar == ReportedUpTo(text, lang, mode, at)
             more == ReportedUpTo(text, lang, mode, n_end)
             this == <<Reported(text, lang, hit)>>
             first == Before(Len(mode_used) - 1)
  <2>4. /\ IsConcat(more, sofar, this) /\ this \in Seq(S)
        /\ Between(HitsIn(text, lang), n_end)
    BY <2>1, <2>3, HitMoves
  <2>5. /\ IsConcat(matches, first, sofar) /\ first \in Seq(S) /\ sofar \in Seq(S)
    BY <2>1, ListFacts
  <2>6. IsConcat(matches', matches, this)
    <3>1. matches \in Seq(S)
      <4> HIDE DEF S, sofar, first
      <4>1. QED
        BY <2>5, ConcatIs
    <3>2. PICK r : r = Reported(text, lang, hit)
      OBVIOUS
    <3>3. r \in S
      BY <2>4, <3>2
    <3> HIDE DEF S
    <3>4. Append(matches, r) = matches \o <<r>>
      BY <3>1, <3>3, AppendIsConcat
    <3>5. QED
      BY <2>3, <3>2, <3>4 DEF IsConcat
  <2>7. IsConcat(matches', first, more)
    <3> HIDE DEF S, sofar, more, this, first
    <3>1. QED
      BY <2>4, <2>5, <2>6, ConcatRegroups
  <2>8. QED
    BY <1>0, <1>00, <2>1, <2>2, <2>4, <2>7 DEF MatchInv
<1>6. CASE LeaveLang
  <2>1. /\ UNCHANGED <<text, langs, mode, mode_used, matches, truncated>>
        /\ pc = "find" /\ pc' = "lang" /\ Ahead = {}
    BY <1>6 DEF LeaveLang, args, result
  <2>2. MatchesIn(text, lang, mode) = ReportedUpTo(text, lang, mode, at)
    BY <2>1, NothingLeft
  <2>3. \E k : /\ IsConcat(matches, Before(k), ReportedUpTo(text, lang, mode, at))
               /\ IsConcat(Before(Len(mode_used)), Before(k), MatchesIn(text, lang, mode))
    BY <2>1, ListFacts
  <2>4. matches = Before(Len(mode_used))
    BY <2>2, <2>3, Zenon DEF IsConcat
  <2>5. QED
    BY <1>0, <1>00, <2>1, <2>4 DEF MatchInv
<1>7. CASE Truncate
  <2>1. /\ UNCHANGED <<text, langs, mode, mode_used, matches>>
        /\ pc = "find" /\ pc' = "done" /\ Ahead # {} /\ ~Outside /\ truncated'
    BY <1>7 DEF Truncate, Advance, args
  <2>2. /\ \E rest \in Seq(Reports(text)) \ {<<>>} :
                IsConcat(Before(Len(mode_used)), matches, rest)
        /\ matches \in Seq(Reports(text))
        /\ Len(Before(Len(mode_used) - 1)) <= MaxMatches
    BY <2>1, HitIsReported, CutLeavesOut
  <2>3. QED
    BY <1>0, <2>1, <2>2 DEF MatchInv
<1>8. CASE Returned \/ UNCHANGED vars
  <2>1. UNCHANGED <<text, langs, mode, mode_used, matches, truncated, pc, at>>
    BY <1>8 DEF Returned, vars, args, result
  <2>2. lang' = lang
    BY <2>1 DEF lang
  <2>3. QED
    BY <1>0, <2>1, <2>2 DEF MatchInv
<1>9. QED
  BY <1>1, <1>2, <1>3, <1>4, <1>5, <1>6, <1>7, <1>8 DEF Next

(* All parts of the invariant together.                                    *)
LEMMA MatchAlways == SafetySpec => [](Inv /\ NormInv /\ ModesInv /\ MatchInv)
<1>1. Init => MatchInv
  BY MatchInit
<1>2. Inv /\ Inv' /\ NormInv /\ ModesInv /\ MatchInv /\ [Next]_vars => MatchInv'
  BY MatchStep
<1>3. SafetySpec => [](Inv /\ NormInv /\ ModesInv)
  BY ScanAlways
<1>4. QED
  BY <1>1, <1>2, <1>3, PTL DEF SafetySpec

-------------------------------------------------------------------------------
(* How the result of a call that is over lies in the full list.            *)
LEMMA DoneFacts ==
  ASSUME Inv, ModesInv, MatchInv, pc = "done"
  PROVE  LET full == FullList(text, langs, mode)
         IN  /\ full \in Seq(Reports(text)) /\ matches \in Seq(Reports(text))
             /\ Len(matches) \in Nat /\ Len(matches) <= MaxMatches
             /\ ~truncated => matches = full
             /\ truncated => /\ Len(matches) = MaxMatches
                             /\ \E rest \in Seq(Reports(text)) \ {<<>>} :
                                   IsConcat(full, matches, rest)
<1> DEFINE S == Reports(text)
           full == FullList(text, langs, mode)
<1> PICK n \in Nat, k \in Nat : n = Len(langs) /\ k = Len(mode_used) /\ k <= n
  <2>1. Len(langs) \in Nat /\ Len(mode_used) \in Nat /\ Len(mode_used) <= Len(langs)
    BY LenProperties DEF Inv, TypeOK
  <2>2. QED
    BY <2>1
<1> PICK g : g = Lists(text, langs, mode)
  OBVIOUS
<1>1. AreSeqs(g, n, S) /\ full = Flat(g, n)
  BY ListsAreSeqs DEF Inv, TypeOK
<1>2. Before(Len(mode_used)) = Flat(g, k)
  BY DEF Before
<1> HIDE DEF S, full
<1>3. PICK more \in Seq(S) : IsConcat(Flat(g, n), Flat(g, k), more)
  <2>1. k \in 0 .. n
    OBVIOUS
  <2>2. QED
    BY <1>1, <2>1, FlatGrows
<1>4. Flat(g, n) \in Seq(S) /\ Flat(g, k) \in Seq(S)
  <2>1. k \in 0 .. n
    OBVIOUS
  <2>2. AreSeqs(g, k, S)
    BY <1>1, <2>1, FewerAreSeqs
  <2>3. QED
    BY <1>1, <2>2, FlatType
<1>5. ~truncated => matches = full
  <2>1. SUFFICES ASSUME ~truncated PROVE matches = full
    OBVIOUS
  <2>2. matches = Flat(g, k) /\ k = n
    BY <1>2, <2>1 DEF MatchInv, ModesInv
  <2>3. QED
    BY <1>1, <2>2
<1>6. ASSUME truncated
      PROVE  matches \in Seq(S) /\ \E rest \in Seq(S) \ {<<>>} : IsConcat(full, matches, rest)
  <2>1. PICK rest \in Seq(S) \ {<<>>} : IsConcat(Flat(g, k), matches, rest)
    BY <1>2, <1>6 DEF MatchInv, S
  <2>2. matches \in Seq(S)
    BY <1>6 DEF MatchInv, S
  <2> DEFINE all == rest \o more
  <2>3. all \in Seq(S) /\ IsConcat(all, rest, more)
    BY <1>3, <2>1, ConcatProperties, Zenon DEF IsConcat
  <2>4. all # <<>>
    <3>1. Len(rest) \in Nat /\ Len(rest) # 0
      BY <2>1, EmptySeq, LenProperties
    <3> HIDE DEF all
    <3>2. Len(all) = Len(rest) + Len(more) /\ Len(more) \in Nat
      BY <1>3, <2>1, <2>3, ConcatIs
    <3>3. Len(all) # 0
      BY <3>1, <3>2
    <3>4. QED
      BY <3>3, EmptySeq
  <2> HIDE DEF all
  <2>5. IsConcat(Flat(g, n), matches, all)
    <3>1. rest \in Seq(S)
      BY <2>1
    <3>2. QED
      BY <1>3, <2>1, <2>2, <2>3, <3>1, ConcatRegroups
  <2>6. QED
    BY <1>1, <2>2, <2>3, <2>4, <2>5
<1>7. matches \in Seq(S)
  BY <1>1, <1>4, <1>5, <1>6 DEF Inv, TypeOK
<1>8. Len(matches) \in Nat
  BY <1>7, LenProperties
<1>9. Len(matches) <= MaxMatches /\ (truncated => Len(matches) = MaxMatches)
  BY DEF Inv, TypeOK
<1>10. QED
  BY <1>1, <1>4, <1>5, <1>6, <1>7, <1>8, <1>9 DEF S, full

(* The result is the beginning of the full leftmost-longest list of the    *)
(* requested languages, MaxMatches of it, and it is flagged exactly when   *)
(* something was left out: what find_iter, the strict mode's `continue`    *)
(* and the cap in the inner loop of scan amount to.                        *)
THEOREM ResultIsPrefix == SafetySpec => []ResultIsPrefixOfFullList
<1>1. Inv /\ ModesInv /\ MatchInv => ResultIsPrefixOfFullList
  <2> DEFINE full == FullList(text, langs, mode)
  <2> SUFFICES ASSUME Inv, ModesInv, MatchInv, pc = "done"
               PROVE  /\ matches = SubSeq(full, 1, Min({Len(full), MaxMatches}))
                      /\ truncated <=> Len(full) > MaxMatches
    BY Zenon DEF ResultIsPrefixOfFullList
  <2> PICK S : S = Reports(text)
    OBVIOUS
  <2> PICK full1 : full1 = full
    OBVIOUS
  <2>1. /\ full1 \in Seq(S) /\ matches \in Seq(S)
        /\ Len(matches) \in Nat /\ Len(matches) <= MaxMatches
        /\ ~truncated => matches = full1
        /\ truncated => /\ Len(matches) = MaxMatches
                        /\ \E rest \in Seq(S) \ {<<>>} : IsConcat(full1, matches, rest)
    BY DoneFacts
  <2>2. MaxMatches \in Nat /\ Len(full1) \in Nat
    BY <2>1, ScanAssumption, LenProperties
  <2>3. PICK k \in Nat, n \in Nat, x \in Nat :
           k = Len(matches) /\ n = Len(full1) /\ x = MaxMatches
    BY <2>1, <2>2
  <2>4. k <= n /\ (truncated <=> n > x) /\ k = (IF n <= x THEN n ELSE x)
        /\ \A i \in 1 .. k : full1[i] = matches[i]
    <3>1. CASE ~truncated
      BY <2>1, <2>3, <3>1
    <3>2. CASE truncated
      <4>1. PICK rest \in Seq(S) : rest # <<>> /\ IsConcat(full1, matches, rest)
        BY <2>1, <3>2
      <4>2. Len(rest) \in Nat /\ Len(rest) # 0
        BY <4>1, EmptySeq, LenProperties
      <4>a. matches \in Seq(S) /\ rest \in Seq(S) /\ IsConcat(full1, matches, rest)
        BY <2>1, <4>1
      <4>b. /\ Len(full1) = Len(matches) + Len(rest)
            /\ \A i \in 1 .. Len(matches) : full1[i] = matches[i]
        BY <4>a, ConcatIs
      <4>3. n = k + Len(rest) /\ k = x /\ \A i \in 1 .. k : full1[i] = matches[i]
        BY <2>1, <2>3, <3>2, <4>b
      <4>4. QED
        BY <3>2, <4>2, <4>3
    <3>3. QED
      BY <2>1, <3>1, <3>2
  <2>5. Min({n, x}) = k
    BY <2>4 DEF Min
  <2>6. SubSeq(full1, 1, k) = matches
    <3>1. /\ SubSeq(full1, 0 + 1, 0 + k) \in Seq(S) /\ Len(SubSeq(full1, 0 + 1, 0 + k)) = k
          /\ \A i \in 1 .. k : SubSeq(full1, 0 + 1, 0 + k)[i] = full1[0 + i]
      <4>1. 0 + k <= Len(full1) /\ 0 \in Nat
        BY <2>3, <2>4
      <4>2. QED
        BY <2>1, <4>1, SubSeqIs
    <3> DEFINE u == SubSeq(full1, 1, k)
    <3>2. u \in Seq(S) /\ Len(u) = Len(matches) /\ \A i \in 1 .. k : u[i] = full1[i]
      BY <2>3, <3>1
    <3> HIDE DEF u
    <3>3. \A i \in 1 .. Len(u) : u[i] = matches[i]
      BY <2>3, <2>4, <3>2
    <3>4. u = matches
      BY <2>1, <3>2, <3>3, SeqEqual
    <3>5. QED
      BY <3>4 DEF u
  <2>7. QED
    BY <2>3, <2>4, <2>5, <2>6
<1>2. QED
  BY <1>1, MatchAlways, PTL

(* mode_used is the requested languages in their order, each with the mode *)
(* it is scanned in, to the end or, when the list was cut, to the language *)
(* of the first match that was left out.                                   *)
THEOREM ModesFollowRequest == SafetySpec => []ModeUsedFollowsRequest
<1>1. Inv /\ ModesInv /\ MatchInv => ModeUsedFollowsRequest
  <2> DEFINE Entry(i) == [lang |-> langs[i], mode |-> ModeFor(langs[i], mode)]
             Upto(i) == Len(FullList(text, SubSeq(langs, 1, i), mode))
  <2> SUFFICES ASSUME Inv, ModesInv, MatchInv, pc = "done"
               PROVE  /\ mode_used = [i \in 1 .. Len(mode_used) |-> Entry(i)]
                      /\ ~truncated => Len(mode_used) = Len(langs)
                      /\ truncated => /\ Upto(Len(mode_used)) > MaxMatches
                                      /\ Upto(Len(mode_used) - 1) <= MaxMatches
    BY Zenon DEF ModeUsedFollowsRequest
  <2>1. mode_used = [i \in 1 .. Len(mode_used) |-> Entry(i)]
    <3>1. mode_used = [i \in 1 .. Len(mode_used) |-> mode_used[i]]
      BY DEF Inv, TypeOK
    <3>2. \A i \in 1 .. Len(mode_used) : mode_used[i] = Entry(i)
      BY DEF ModesInv
    <3> HIDE DEF Entry
    <3>3. QED
      BY <3>1, <3>2
  <2>2. ~truncated => Len(mode_used) = Len(langs)
    BY DEF ModesInv
  <2>3. ASSUME truncated
        PROVE  Upto(Len(mode_used)) > MaxMatches /\ Upto(Len(mode_used) - 1) <= MaxMatches
    <3>1. PICK k \in 0 .. Len(langs), p \in 0 .. Len(langs) :
             k = Len(mode_used) /\ p = Len(mode_used) - 1
      <4>1. /\ Len(langs) \in Nat /\ Len(mode_used) \in Nat /\ Len(mode_used) <= Len(langs)
            /\ Len(mode_used) > 0
        BY <2>3, LenProperties DEF Inv, TypeOK, ModesInv
      <4>2. Len(mode_used) \in 0 .. Len(langs) /\ Len(mode_used) - 1 \in 0 .. Len(langs)
        BY <4>1
      <4>3. QED
        BY <4>2
    <3>2. Upto(k) = Len(Before(k)) /\ Upto(p) = Len(Before(p))
      BY ListsAreSeqs DEF Before, Inv, TypeOK
    <3>3. PICK rest \in Seq(Reports(text)) : rest # <<>> /\ IsConcat(Before(k), matches, rest)
      BY <2>3, <3>1 DEF MatchInv
    <3>4. /\ matches \in Seq(Reports(text)) /\ Len(Before(p)) <= MaxMatches
          /\ Len(matches) = MaxMatches
      BY <2>3, <3>1 DEF MatchInv, Inv, TypeOK
    <3>5. Len(rest) \in Nat /\ Len(rest) # 0
      BY <3>3, EmptySeq, LenProperties
    <3>6. Len(Before(k)) = Len(matches) + Len(rest) /\ Len(matches) \in Nat
      BY <3>3, <3>4, ConcatIs
    <3>7. Len(Before(k)) > MaxMatches
      BY <3>4, <3>5, <3>6
    <3>8. QED
      BY <3>1, <3>2, <3>4, <3>7
  <2>4. QED
    BY <2>1, <2>2, <2>3
<1>2. QED
  BY <1>1, MatchAlways, PTL

-------------------------------------------------------------------------------
(***************************************************************************)
(* The languages listing.                                                  *)
(***************************************************************************)

(* What is in a filtered sequence: the entries that are in the set.        *)
LEMMA FilteredHas ==
  ASSUME NEW T, NEW s \in Seq(T), NEW S
  PROVE  /\ Filtered(s, S) \in Seq(T)
         /\ \A i \in 1 .. Len(Filtered(s, S)) :
              Filtered(s, S)[i] \in S /\ \E k \in 1 .. Len(s) : Filtered(s, S)[i] = s[k]
         /\ \A k \in 1 .. Len(s) :
              s[k] \in S => \E i \in 1 .. Len(Filtered(s, S)) : Filtered(s, S)[i] = s[k]
<1> DEFINE P(y) == IF y \in S THEN <<y>> ELSE <<>>
<1>1. PICK n \in Nat : n = Len(s) /\ DOMAIN s = 1 .. n
  BY LenProperties
<1> DEFINE g == [i \in 1 .. n |-> P(s[i])]
<1>2. \A k \in 1 .. n : /\ g[k] \in Seq(T) /\ Len(g[k]) \in Nat
                        /\ s[k] \in S => Len(g[k]) = 1 /\ g[k][1] = s[k]
                        /\ s[k] \notin S => Len(g[k]) = 0
  <2> TAKE k \in 1 .. n
  <2>1. s[k] \in T
    BY <1>1, ElementOfSeq
  <2>2. CASE s[k] \in S
    <3>1. g[k] = <<s[k]>>
      BY <2>2
    <3>2. <<s[k]>> \in Seq(T) /\ Len(<<s[k]>>) = 1 /\ <<s[k]>>[1] = s[k]
      BY <2>1
    <3> HIDE DEF g
    <3>3. QED
      BY <2>2, <3>1, <3>2
  <2>3. CASE s[k] \notin S
    <3>1. g[k] = <<>>
      BY <2>3
    <3> HIDE DEF g
    <3>2. QED
      BY <2>3, <3>1, EmptySeq
  <2>4. QED
    BY <2>2, <2>3
<1>3. Filtered(s, S) = Flat(g, n)
  <2>1. [i \in DOMAIN s |-> P(s[i])] = [i \in 1 .. n |-> g[i]]
    BY <1>1
  <2>2. QED
    BY <2>1, Zenon DEF Filtered, Flat
<1> HIDE DEF g
<1>4. AreSeqs(g, n, T)
  BY <1>2 DEF AreSeqs
<1>5. Flat(g, n) \in Seq(T) /\ Len(Flat(g, n)) \in Nat
  BY <1>4, FlatType, LenProperties
<1>6. ASSUME NEW i \in 1 .. Len(Flat(g, n))
      PROVE  Flat(g, n)[i] \in S /\ \E k \in 1 .. n : Flat(g, n)[i] = s[k]
  <2>1. PICK k \in 1 .. n : \E j \in 1 .. Len(g[k]) : SameAt(Flat(g, n), i, g[k], j)
    BY <1>4, FlatElement
  <2>0. PICK j \in 1 .. Len(g[k]) : SameAt(Flat(g, n), i, g[k], j)
    BY <2>1
  <2>2. Len(g[k]) = 1 /\ g[k][1] = s[k] /\ s[k] \in S
    BY <1>2
  <2>3. j = 1
    BY <2>2
  <2>4. QED
    BY <2>0, <2>2, <2>3 DEF SameAt
<1>7. ASSUME NEW k \in 1 .. n, s[k] \in S
      PROVE  \E i \in 1 .. Len(Flat(g, n)) : Flat(g, n)[i] = s[k]
  <2>1. PICK p \in 0 .. n : k = p + 1
    OBVIOUS
  <2>2. AreSeqs(g, p, T) /\ p \in Nat
    BY <1>4, FewerAreSeqs
  <2>3. PICK i \in Nat, j \in Nat : j = 1 /\ i = Len(Flat(g, p)) + j
    <3>1. Len(Flat(g, p)) \in Nat
      BY <2>2, FlatType, LenProperties
    <3>2. QED
      BY <3>1
  <2>4. j \in 1 .. Len(g[k]) /\ g[k][j] = s[k]
    BY <1>2, <1>7, <2>3
  <2>5. i \in 1 .. Len(Flat(g, n)) /\ SameAt(Flat(g, n), i, g[k], j)
    BY <1>4, <2>1, <2>3, <2>4, FlatHas
  <2>6. QED
    BY <2>4, <2>5 DEF SameAt
<1>8. QED
  BY <1>1, <1>3, <1>5, <1>6, <1>7

(* The listing has an entry for each loaded language, with its default.    *)
LEMMA ListingHas ==
  /\ all_loaded \in Seq(Langs) /\ Len(languages) = Len(all_loaded) /\ Len(all_loaded) \in Nat
  /\ languages \in Seq({[lang |-> l, mode |-> default_mode(l)] : l \in Langs})
  /\ \A i \in 1 .. Len(all_loaded) :
        languages[i] = [lang |-> all_loaded[i], mode |-> default_mode(all_loaded[i])]
  /\ \A l \in DOMAIN Patterns :
        \E i \in 1 .. Len(languages) : languages[i] = [lang |-> l, mode |-> default_mode(l)]
<1> PICK c : c = all_loaded
  OBVIOUS
<1>1. /\ c \in Seq(Langs)
      /\ \A k \in 1 .. Len(Alphabet) :
            Alphabet[k] \in DOMAIN Patterns => \E i \in 1 .. Len(c) : c[i] = Alphabet[k]
  <2>1. c = Filtered(Alphabet, DOMAIN Patterns)
    BY DEF all_loaded, Sorted
  <2>2. Alphabet \in Seq(Langs)
    BY LanguagesAssumption
  <2> PICK L, D : L = Langs /\ D = DOMAIN Patterns
    OBVIOUS
  <2>3. /\ Filtered(Alphabet, D) \in Seq(L)
        /\ \A k \in 1 .. Len(Alphabet) : Alphabet[k] \in D =>
              \E i \in 1 .. Len(Filtered(Alphabet, D)) : Filtered(Alphabet, D)[i] = Alphabet[k]
    BY <2>2, FilteredHas
  <2>4. QED
    BY <2>1, <2>3
<1>2. PICK n \in Nat : n = Len(c) /\ DOMAIN c = 1 .. n
  BY <1>1, LenProperties
<1>3. languages = [i \in 1 .. n |-> [lang |-> c[i], mode |-> default_mode(c[i])]]
  BY <1>2 DEF languages, all_loaded
<1>4. /\ languages \in Seq({[lang |-> l, mode |-> default_mode(l)] : l \in Langs})
      /\ Len(languages) = n
      /\ \A i \in 1 .. n : languages[i] = [lang |-> c[i], mode |-> default_mode(c[i])]
  <2>1. \A i \in 1 .. n : c[i] \in Langs
    BY <1>1, <1>2, ElementOfSeq
  <2>2. QED
    BY <1>3, <2>1
<1>5. ASSUME NEW l \in DOMAIN Patterns
      PROVE  \E i \in 1 .. n : languages[i] = [lang |-> l, mode |-> default_mode(l)]
  <2>1. PICK k \in 1 .. Len(Alphabet) : Alphabet[k] = l
    <3>1. Alphabet \in Seq(Langs) /\ l \in ToSet(Alphabet)
      BY LanguagesAssumption
    <3>2. QED
      BY <3>1, LenProperties DEF ToSet
  <2>2. PICK i \in 1 .. n : c[i] = l
    BY <1>1, <1>2, <2>1
  <2>3. QED
    BY <1>4, <2>2
<1>6. QED
  BY <1>1, <1>2, <1>4, <1>5

(* The engine's default and the listing's are the same.                    *)
LEMMA OneDefault == \A l : ModeFor(l, NoMode) = default_mode(l)
BY DEF ModeFor, default_mode

(* What has been timed are entries of mode_used for loaded languages.      *)
LEMMA TimedFacts ==
  ASSUME Inv, ModesInv, NEW i \in 1 .. Len(timed)
  PROVE  /\ timed[i].lang \in DOMAIN Patterns
         /\ timed[i] = [lang |-> timed[i].lang, mode |-> ModeFor(timed[i].lang, mode)]
<1> PICK f : f = Filtered(mode_used, LoadedEntries)
  OBVIOUS
<1> PICK T : T = [lang : Langs, mode : Modes]
  OBVIOUS
<1>1. mode_used \in Seq(T)
  BY DEF Inv, TypeOK
<1>2. timed \in Seq([lang : DOMAIN Patterns, mode : Modes])
  BY DEF Inv, TypeOK
<1>3. f = IF pc = "find" THEN Append(timed, [lang |-> lang, mode |-> m]) ELSE timed
  BY DEF ModesInv, EveryLanguageIsTimed, LoadedEntries
<1>4. i \in 1 .. Len(f) /\ f[i] = timed[i]
  <2>1. CASE pc = "find"
    <3>1. lang \in DOMAIN Patterns
      BY <2>1 DEF Inv, Scanning
    <3>2. f = Append(timed, [lang |-> lang, mode |-> m])
      BY <1>3, <2>1
    <3>3. Len(timed) \in Nat /\ Len(f) = Len(timed) + 1 /\ \A x \in 1 .. Len(timed) : f[x] = timed[x]
      BY <1>2, <3>2, LenProperties
    <3>4. QED
      BY <3>3
  <2>2. CASE pc # "find"
    BY <1>3, <2>2
  <2>3. QED
    BY <2>1, <2>2
<1>5. PICK k \in 1 .. Len(mode_used) : f[i] = mode_used[k]
  BY <1>1, <1>4, FilteredHas
<1>6. timed[i] \in [lang : DOMAIN Patterns, mode : Modes]
  BY <1>2, ElementOfSeq
<1>7. mode_used[k] = [lang |-> langs[k], mode |-> ModeFor(langs[k], mode)]
  BY DEF ModesInv
<1>8. QED
  BY <1>4, <1>5, <1>6, <1>7

(* A check that names neither languages nor a mode runs through the        *)
(* listing of /v1/languages, in its order and modes, and what is timed is  *)
(* timed under the mode listed (routes/languages.rs and scan.rs each       *)
(* resolve the default on their own).                                      *)
THEOREM DefaultScanIsListed == SafetySpec => []DefaultScanFollowsListing
<1>1. Inv /\ ModesInv => DefaultScanFollowsListing
  <2> SUFFICES ASSUME Inv, ModesInv, mode = NoMode
               PROVE  /\ langs = all_loaded =>
                           /\ IsPrefix(mode_used, languages)
                           /\ (pc = "done" /\ ~truncated) => mode_used = languages
                      /\ ToSet(timed) \subseteq ToSet(languages)
    BY DEF DefaultScanFollowsListing
  <2>1. ASSUME langs = all_loaded
        PROVE  /\ IsPrefix(mode_used, languages)
               /\ (pc = "done" /\ ~truncated) => mode_used = languages
    <3>1. PICK k \in Nat, n \in Nat : k = Len(mode_used) /\ n = Len(languages) /\ n = Len(langs) /\ k <= n
      <4>1. Len(mode_used) \in Nat /\ Len(mode_used) <= Len(langs)
        BY LenProperties DEF Inv, TypeOK
      <4>2. Len(langs) \in Nat /\ Len(languages) = Len(langs)
        BY <2>1, ListingHas
      <4>3. QED
        BY <4>1, <4>2
    <3>2. \A i \in 1 .. k : mode_used[i] = languages[i]
      <4> TAKE i \in 1 .. k
      <4>1. mode_used[i] = [lang |-> langs[i], mode |-> ModeFor(langs[i], mode)]
        BY <3>1 DEF ModesInv
      <4>2. i \in 1 .. Len(all_loaded)
        BY <2>1, <3>1
      <4>3. languages[i] = [lang |-> langs[i], mode |-> default_mode(langs[i])]
        BY <2>1, <4>2, ListingHas
      <4>4. QED
        BY <4>1, <4>3, OneDefault
    <3> PICK T : T = [lang : Langs, mode : Modes]
      OBVIOUS
    <3>3. mode_used \in Seq(T)
      BY DEF Inv, TypeOK
    <3>4. languages \in Seq(T)
      <4>1. \A l \in Langs : default_mode(l) \in Modes
        BY ScanAssumption DEF default_mode, Modes
      <4>2. {[lang |-> l, mode |-> default_mode(l)] : l \in Langs} \subseteq T
        BY <4>1
      <4>3. PICK E : E = {[lang |-> l, mode |-> default_mode(l)] : l \in Langs}
        OBVIOUS
      <4>4. languages \in Seq(E) /\ E \subseteq T
        BY <4>2, <4>3, ListingHas
      <4>5. QED
        BY <4>4, SeqMonotonic
    <3>5. IsPrefix(mode_used, languages)
      <4>1. IsPrefix(mode_used, languages)
              <=> Len(mode_used) <= Len(languages)
                  /\ SubSeq(mode_used, 1, Len(mode_used)) = SubSeq(languages, 1, Len(mode_used))
        BY DEF IsPrefix
      <4>2. QED
        BY <3>1, <3>2, <3>3, <3>4, <4>1
    <3>6. ASSUME pc = "done" /\ ~truncated PROVE mode_used = languages
      <4>1. Len(mode_used) = Len(languages)
        BY <3>1, <3>6 DEF ModesInv
      <4>2. \A i \in 1 .. Len(mode_used) : mode_used[i] = languages[i]
        BY <3>1, <3>2
      <4>3. QED
        BY <3>3, <3>4, <4>1, <4>2, SeqEqual
    <3>7. QED
      BY <3>5, <3>6
  <2>2. ToSet(timed) \subseteq ToSet(languages)
    <3> SUFFICES ASSUME NEW r \in ToSet(timed) PROVE r \in ToSet(languages)
      OBVIOUS
    <3>1. PICK i \in 1 .. Len(timed) : r = timed[i]
      BY LenProperties DEF ToSet, Inv, TypeOK
    <3>2. r.lang \in DOMAIN Patterns /\ r = [lang |-> r.lang, mode |-> ModeFor(r.lang, mode)]
      BY <3>1, TimedFacts
    <3>3. r = [lang |-> r.lang, mode |-> default_mode(r.lang)]
      BY <3>2, OneDefault
    <3>4. PICK j \in 1 .. Len(languages) : languages[j] = r
      BY <3>2, <3>3, ListingHas
    <3>5. DOMAIN languages = 1 .. Len(languages)
      BY ListingHas, LenProperties
    <3>6. QED
      BY <3>4, <3>5 DEF ToSet
  <2>3. QED
    BY <2>1, <2>2
<1>2. QED
  BY <1>1, ModesAlways, PTL
=============================================================================
