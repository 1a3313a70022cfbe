----------------------------- MODULE Scan_proofs -----------------------------
(***************************************************************************)
(* Theorems about Scan for every alphabet, folding, word list, text and    *)
(* cap: the type of the state with the two caps, and that every offset and *)
(* every reported span lies at codepoint boundaries.                       *)
(*                                                                         *)
(* What ByteOf sums up to is left to Detection_proofs: here a span is      *)
(* shown to begin and end at codepoints of the text, whatever their        *)
(* positions are.                                                          *)
(***************************************************************************)
EXTENDS Scan, SharedLemmas

(***************************************************************************)
(* The inductive invariant.  Besides the two properties it says that while *)
(* hits are looked at, mode_used is not empty and its last language is     *)
(* loaded, so that `lang` and Patterns[lang] mean something; and that a    *)
(* list flagged truncated belongs to a scan that is over, since a later    *)
(* push could not tell.                                                    *)
(***************************************************************************)
Scanning == pc = "find" => Len(mode_used) > 0 /\ lang \in DOMAIN Patterns
CutEnds  == truncated => pc = "done"

Inv == TypeOK /\ SlicesAtCodepoints /\ Scanning /\ CutEnds
-------------------------------------------------------------------------------
(* If an occurrence lies ahead, there is a leftmost and longest one: starts *)
(* are naturals and the lengths at a start are bounded by the text.         *)
LEMMA HitExists ==
  ASSUME norm \in Seq(Letters), lang \in DOMAIN Patterns, Ahead # {}
  PROVE  \E o \in Ahead : \A q \in Ahead :
            o.n < q.n \/ (o.n = q.n /\ Len(o.term) >= Len(q.term))
<1>1. \A o \in Ahead : o.n \in Nat /\ o.term \in Seq(Letters)
                       /\ o.n + Len(o.term) <= Len(norm)
  BY ScanAssumption, LenProperties DEF Ahead, Occurrences
<1> DEFINE Starts == {o.n : o \in Ahead}
<1>2. PICK i \in Starts : \A j \in Starts : i <= j
  <2>1. Starts \subseteq Nat /\ Starts # {}
    BY <1>1
  <2>2. QED
    BY <2>1, LeastElement
<1> DEFINE Lengths == {Len(o.term) : o \in {q \in Ahead : q.n = i}}
<1>3. PICK l \in Lengths : \A j \in Lengths : j <= l
  <2>1. Lengths \subseteq Nat
    BY <1>1, LenProperties
  <2>2. Lengths # {}
    BY <1>2
  <2>3. \A j \in Lengths : j <= Len(norm)
    BY <1>1, LenProperties
  <2>4. Len(norm) \in Nat
    BY LenProperties
  <2>5. QED
    BY <2>1, <2>2, <2>3, <2>4, GreatestElement
<1>4. PICK o \in Ahead : o.n = i /\ Len(o.term) = l
  BY <1>3
<1>5. \A q \in Ahead :
         o.n < q.n \/ (o.n = q.n /\ Len(o.term) >= Len(q.term))
  <2> TAKE q \in Ahead
  <2>1. o.n <= q.n
    BY <1>2, <1>4
  <2>2. CASE o.n = q.n
    BY <1>1, <1>3, <1>4, <2>2, LenProperties
  <2>3. CASE o.n # q.n
    BY <1>1, <2>1, <2>3
  <2>4. QED
    BY <2>2, <2>3
<1>6. QED
  BY <1>4, <1>5

(* `hit` is it.                                                            *)
LEMMA HitIsAhead ==
  ASSUME norm \in Seq(Letters), lang \in DOMAIN Patterns, Ahead # {}
  PROVE  hit \in Ahead
BY HitExists DEF hit

(* What the inner loop gets from a hit: a position strictly ahead inside   *)
(* the normalized text, a term, and a span at codepoint boundaries.        *)
LEMMA HitFacts ==
  ASSUME Inv, pc = "find", Ahead # {}
  PROVE  /\ lang \in Langs
         /\ hit.term \in Seq(Letters)
         /\ n_start \in Nat /\ n_end \in at + 1 .. Len(norm)
         /\ widen_start \in CodepointStarts(text)
         /\ widen_end \in CodepointEnds(text)
<1> USE DEF Inv
<1>1. lang \in DOMAIN Patterns /\ lang \in Langs
  BY ScanAssumption DEF Scanning
<1>2. hit \in Ahead
  BY <1>1, HitIsAhead DEF TypeOK
<1>3. /\ hit.n \in Nat /\ hit.n >= at
      /\ hit.term \in Seq(Letters) /\ hit.term # <<>>
      /\ hit.n + Len(hit.term) <= Len(norm)
  BY <1>1, <1>2, ScanAssumption DEF Ahead, Occurrences
<1>4. Len(hit.term) \in Nat /\ Len(hit.term) > 0
  BY <1>3, EmptySeq, LenProperties
<1>5. Len(norm) \in Nat /\ at \in Nat
  BY LenProperties DEF TypeOK
<1>6. n_start \in Nat /\ n_end \in at + 1 .. Len(norm)
  BY <1>3, <1>4, <1>5 DEF n_start, n_end
<1>7. /\ n_start + 1 \in 1 .. Len(offset_map)
      /\ n_end \in 1 .. Len(offset_map)
  BY <1>3, <1>4, <1>5, <1>6 DEF n_start, n_end, TypeOK
<1>8. /\ offset_map[n_start + 1] \in CodepointStarts(text)
      /\ offset_map[n_end] \in CodepointStarts(text)
  BY <1>7, ElementOfSeq DEF SlicesAtCodepoints
<1>9. widen_end \in CodepointEnds(text)
  <2> DEFINE last == offset_map[n_end]
             k == CHOOSE j \in 1 .. Len(text) : ByteOf(text, j) = last
  <2>1. k \in 1 .. Len(text) /\ ByteOf(text, k) = last
    BY <1>8 DEF CodepointStarts
  <2>2. widen_end = ByteOf(text, k) + Width[text[k]]
    BY <2>1 DEF widen_end, CodepointAt
  <2>3. QED
    BY <2>1, <2>2 DEF CodepointEnds
<1>10. QED
  BY <1>1, <1>3, <1>6, <1>8, <1>9 DEF widen_start
-------------------------------------------------------------------------------
(* The invariant holds when scan is called: everything is empty. *)
LEMMA InitInv == Init => Inv
<1> SUFFICES ASSUME Init PROVE Inv
  OBVIOUS
<1>1. TypeOK
  <2>1. text \in Seq(Codepoints) /\ langs \in Seq(Langs)
    BY ScanAssumption DEF Init
  <2>2. Len(text) \in Nat /\ Len(langs) \in Nat
    BY <2>1, LenProperties
  <2>3. /\ norm \in Seq(Letters) /\ mode_used \in Seq([lang : Langs, mode : Modes])
        /\ Len(norm) = 0 /\ Len(offset_map) = 0
        /\ Len(mode_used) = 0 /\ Len(matches) = 0
    BY EmptySeq DEF Init
  <2>4. MaxNormalized \in Nat /\ MaxMatches \in Nat
    BY ScanAssumption
  <2>5. /\ mode \in Modes \cup {NoMode} /\ read = 0 /\ at = 0
        /\ truncated = FALSE /\ pc = "normalize"
    BY DEF Init
  <2>6. /\ read \in 0 .. Len(text) /\ at \in 0 .. Len(norm)
        /\ Len(norm) <= MaxNormalized /\ Len(offset_map) = Len(norm)
        /\ Len(mode_used) <= Len(langs) /\ Len(matches) <= MaxMatches
    BY <2>2, <2>3, <2>4, <2>5
  <2>7. /\ truncated \in BOOLEAN /\ (truncated => Len(matches) = MaxMatches)
        /\ pc \in {"normalize", "lang", "find", "done", "too_large"}
    BY <2>5
  <2>8. timed \in Seq([lang : DOMAIN Patterns, mode : Modes])
    BY EmptySeq DEF Init
  <2>9. QED
    BY <2>1, <2>3, <2>5, <2>6, <2>7, <2>8 DEF TypeOK
<1>2. SlicesAtCodepoints
  BY EmptySeq DEF Init, SlicesAtCodepoints
<1>3. QED
  BY <1>1, <1>2 DEF Init, Inv, Scanning, CutEnds

(* An observation names the language being scanned, which is loaded.       *)
LEMMA RecordType ==
  ASSUME Inv, pc = "find", record_lang_scan
  PROVE  timed' \in Seq([lang : DOMAIN Patterns, mode : Modes])
<1>1. Len(mode_used) \in 1 .. Len(mode_used)
  <2>1. Len(mode_used) \in Nat /\ Len(mode_used) > 0
    BY LenProperties DEF Inv, TypeOK, Scanning
  <2>2. QED
    BY <2>1
<1>2. m \in Modes
  <2>1. mode_used \in Seq([lang : Langs, mode : Modes])
    BY DEF Inv, TypeOK
  <2>2. mode_used[Len(mode_used)] \in [lang : Langs, mode : Modes]
    BY <1>1, <2>1, ElementOfSeq
  <2>3. QED
    BY <2>2 DEF m
<1>3. [lang |-> lang, mode |-> m] \in [lang : DOMAIN Patterns, mode : Modes]
  BY <1>2 DEF Inv, Scanning
<1>4. QED
  BY <1>3, AppendProperties DEF record_lang_scan, Inv, TypeOK

(* Every step keeps it: normalizing maps each letter to the start of its   *)
(* codepoint, a hit widens to codepoint boundaries, a push needs room.     *)
LEMMA StepInv == Inv /\ [Next]_vars => Inv'
<1> SUFFICES ASSUME Inv, [Next]_vars PROVE Inv'
  OBVIOUS
<1> USE DEF Inv
<1>1. CASE NormalizeCodepoint
  <2> DEFINE origins == [i \in DOMAIN folded |-> ByteOf(text, read + 1)]
  <2>1. read + 1 \in 1 .. Len(text) /\ text[read + 1] \in Codepoints
    BY <1>1, ElementOfSeq, LenProperties DEF NormalizeCodepoint, TypeOK
  <2>2. folded \in Seq(Letters)
    BY <2>1, SourceTextAssumption DEF folded
  <2>3. ByteOf(text, read + 1) \in CodepointStarts(text)
    BY <2>1 DEF CodepointStarts
  <2>4. origins \in Seq(CodepointStarts(text)) /\ Len(origins) = Len(folded)
    <3>1. DOMAIN folded = 1 .. Len(folded) /\ Len(folded) \in Nat
      BY <2>2, LenProperties
    <3>2. origins \in [1 .. Len(folded) -> CodepointStarts(text)]
      BY <2>3, <3>1
    <3> HIDE DEF origins
    <3>3. origins \in Seq(CodepointStarts(text))
      BY <3>1, <3>2, IsASeq
    <3>4. QED
      BY <3>1, <3>2, <3>3, LenProperties
  <2>5. /\ norm' \in Seq(Letters)
        /\ Len(norm') = Len(norm) + Len(folded)
    BY <1>1, <2>2, ConcatProperties DEF NormalizeCodepoint, TypeOK
  <2>6. /\ offset_map' \in Seq(CodepointStarts(text))
        /\ Len(offset_map') = Len(offset_map) + Len(origins)
    BY <1>1, <2>4, ConcatProperties DEF NormalizeCodepoint, SlicesAtCodepoints
  <2>7. UNCHANGED <<args, result, at, timed, pc>> /\ read' = read + 1
        /\ Len(norm') <= MaxNormalized
    BY <1>1, <2>5 DEF NormalizeCodepoint
  <2>8. at' \in 0 .. Len(norm')
    BY <2>2, <2>5, <2>7, LenProperties DEF TypeOK
  <2>9. TypeOK'
    <3>1. UNCHANGED <<text, langs, mode, mode_used, matches, truncated, pc>>
      BY <2>7 DEF args, result
    <3>2. read' \in 0 .. Len(text)
      BY <2>1, <2>7, LenProperties DEF TypeOK
    <3>3. Len(offset_map') = Len(norm')
      BY <2>4, <2>5, <2>6 DEF TypeOK
    <3>4. QED
      BY <2>5, <2>7, <2>8, <3>1, <3>2, <3>3 DEF TypeOK
  <2>10. SlicesAtCodepoints'
    BY <2>6, <2>7 DEF SlicesAtCodepoints, args, result, CodepointStarts, SpanRecord,
                      CodepointEnds
  <2>11. QED
    BY <2>7, <2>9, <2>10 DEF Scanning, CutEnds, args, result, lang
<1>2. CASE TooLarge \/ Normalized \/ Return \/ LeaveLang
  <2>1. UNCHANGED <<args, input, result, at>>
        /\ pc # "done" /\ pc' \in {"too_large", "lang", "done"}
    BY <1>2 DEF TooLarge, Normalized, Return, LeaveLang
  <2>2. timed' \in Seq([lang : DOMAIN Patterns, mode : Modes])
    <3>1. CASE LeaveLang
      BY <3>1, RecordType DEF LeaveLang
    <3>2. CASE TooLarge \/ Normalized \/ Return
      BY <3>2 DEF TooLarge, Normalized, Return, TypeOK
    <3>3. QED
      BY <1>2, <3>1, <3>2
  <2>3. TypeOK'
    BY <2>1, <2>2 DEF TypeOK, args, input, result
  <2>4. SlicesAtCodepoints'
    BY <2>1 DEF SlicesAtCodepoints, args, input, result, CodepointStarts,
                SpanRecord, CodepointEnds
  <2>5. QED
    BY <2>1, <2>3, <2>4 DEF Scanning, CutEnds, result
<1>3. CASE EnterLang
  <2> DEFINE l == langs[Len(mode_used) + 1]
             entry == [lang |-> l, mode |-> IF mode = NoMode
                                            THEN resolve_default_mode(l) ELSE mode]
  <2>1. Len(mode_used) \in Nat /\ l \in Langs
    BY <1>3, ElementOfSeq, LenProperties DEF EnterLang, TypeOK
  <2>2. entry \in [lang : Langs, mode : Modes]
    BY <2>1, ScanAssumption DEF TypeOK, resolve_default_mode, Modes, NoMode
  <2>3. mode_used' = Append(mode_used, entry)
    BY <1>3 DEF EnterLang
  <2>4. /\ mode_used' \in Seq([lang : Langs, mode : Modes])
        /\ Len(mode_used') = Len(mode_used) + 1
    BY <2>2, <2>3, AppendProperties DEF TypeOK
  <2>5. /\ UNCHANGED <<args, input, matches, truncated, timed>>
        /\ at' = 0 /\ Len(mode_used) < Len(langs)
        /\ pc = "lang"
        /\ pc' = IF l \in DOMAIN Patterns THEN "find" ELSE "lang"
    BY <1>3 DEF EnterLang
  <2>6. TypeOK'
    BY <2>1, <2>4, <2>5, LenProperties DEF TypeOK, args, input
  <2>7. SlicesAtCodepoints'
    BY <2>5 DEF SlicesAtCodepoints, args, input, CodepointStarts,
                SpanRecord, CodepointEnds
  <2>8. lang' = l
    BY <2>1, <2>4, <2>5 DEF lang, args
  <2>9. QED
    BY <2>1, <2>4, <2>5, <2>6, <2>7, <2>8 DEF Scanning, CutEnds
<1>4. CASE DropHit
  <2>1. /\ UNCHANGED <<args, input, result, timed, pc>> /\ pc = "find"
        /\ at' = n_end
    BY <1>4 DEF DropHit, Advance, result
  <2>2. at' \in 0 .. Len(norm)
    BY <1>4, <2>1, HitFacts, LenProperties DEF DropHit, TypeOK
  <2>3. TypeOK'
    BY <2>1, <2>2 DEF TypeOK, args, input, result
  <2>4. SlicesAtCodepoints'
    BY <2>1 DEF SlicesAtCodepoints, args, input, result, CodepointStarts,
                SpanRecord, CodepointEnds
  <2>5. QED
    BY <2>1, <2>3, <2>4 DEF Scanning, CutEnds, args, result, lang
<1>5. CASE Truncate
  <2>1. /\ UNCHANGED <<args, input, mode_used, matches>> /\ pc = "find"
        /\ at' = n_end /\ pc' = "done" /\ truncated'
        /\ Len(matches) = MaxMatches
    BY <1>5 DEF Truncate, Advance
  <2>2. at' \in 0 .. Len(norm)
    BY <1>5, <2>1, HitFacts, LenProperties DEF Truncate, TypeOK
  <2>3. truncated' = TRUE /\ record_lang_scan
    BY <1>5 DEF Truncate
  <2>4. TypeOK'
    BY <2>1, <2>2, <2>3, RecordType DEF TypeOK, args, input
  <2>5. SlicesAtCodepoints'
    BY <2>1 DEF SlicesAtCodepoints, args, input, CodepointStarts,
                SpanRecord, CodepointEnds
  <2>6. QED
    BY <2>1, <2>4, <2>5 DEF Scanning, CutEnds
<1>6. CASE PushHit
  <2> DEFINE span == [lang |-> lang, term |-> hit.term,
                      start |-> widen_start, end |-> widen_end]
  <2>1. /\ UNCHANGED <<args, input, mode_used, truncated, timed, pc>> /\ pc = "find"
        /\ at' = n_end /\ matches' = Append(matches, span)
        /\ Len(matches) # MaxMatches
    BY <1>6 DEF PushHit, Advance
  <2>2. span \in SpanRecord(text)
    BY <1>6, HitFacts DEF PushHit, SpanRecord
  <2>3. matches' \in Seq(SpanRecord(text)) /\ Len(matches') = Len(matches) + 1
    BY <2>1, <2>2, AppendProperties DEF SlicesAtCodepoints
  <2>4. Len(matches') <= MaxMatches
    BY <2>1, <2>3, ScanAssumption, LenProperties DEF TypeOK, SlicesAtCodepoints
  <2>5. at' \in 0 .. Len(norm)
    BY <1>6, <2>1, HitFacts, LenProperties DEF PushHit, TypeOK
  <2>6. ~truncated
    BY <2>1 DEF CutEnds
  <2>7. TypeOK'
    BY <2>1, <2>4, <2>5, <2>6 DEF TypeOK, args, input
  <2>8. SlicesAtCodepoints'
    BY <2>1, <2>3 DEF SlicesAtCodepoints, args, input, CodepointStarts,
                      SpanRecord, CodepointEnds
  <2>9. QED
    BY <2>1, <2>7, <2>8 DEF Scanning, CutEnds, args, lang
<1>7. CASE UNCHANGED vars
  BY <1>7 DEF vars, args, input, result, TypeOK, SlicesAtCodepoints,
              Scanning, CutEnds, lang, CodepointStarts, SpanRecord, CodepointEnds
<1>8. QED
  BY <1>1, <1>2, <1>3, <1>4, <1>5, <1>6, <1>7 DEF Next, Returned
-------------------------------------------------------------------------------
(* The invariant holds in every state of every scan. *)
LEMMA InvAlways == SafetySpec => []Inv
  BY InitInv, StepInv, PTL DEF SafetySpec

(* The state keeps its type: neither the normalized text nor the match     *)
(* list outgrows its cap, and only a full list is flagged truncated.       *)
THEOREM TypeCorrect == SafetySpec => []TypeOK
<1>1. Inv => TypeOK
  BY DEF Inv
<1>2. QED
  BY InvAlways, <1>1, PTL

(* No slice of the caller's text is taken off a codepoint boundary.        *)
THEOREM SlicesNeverPanic == SafetySpec => []SlicesAtCodepoints
<1>1. Inv => SlicesAtCodepoints
  BY DEF Inv
<1>2. QED
  BY InvAlways, <1>1, PTL
=============================================================================
