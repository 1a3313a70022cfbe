--------------------------------- MODULE Scan ---------------------------------
(***************************************************************************)
(* Engine::scan (src/src/matcher/scan.rs) and the normalization it begins  *)
(* with (normalize.rs), as a step machine: one step per codepoint          *)
(* normalized, per language entered, per hit of the automaton looked at.   *)
(*                                                                         *)
(* The automaton is the aho_corasick crate's, built with LeftmostLongest;  *)
(* it is modelled by what its find_iter yields next from a position.       *)
(*                                                                         *)
(* Names with an underscore, marked "defect", are wrong variants of the    *)
(* operator after them, which show that a property can fail.               *)
(***************************************************************************)
EXTENDS SourceText

CONSTANTS Langs,          \* language codes
          Patterns,       \* Patterns[l]: the terms of loaded language l
          DefaultMode,    \* DEFAULT_MODE; need not have every language
          MaxNormalized,  \* MAX_NORMALIZED_BYTES
          MaxMatches,     \* MAX_MATCHES
          Texts,          \* the texts a caller may send
          LangLists       \* the language lists a caller may send

Modes == {"strict", "substring"}
NoMode == "none"

ASSUME ScanAssumption ==
  /\ DOMAIN Patterns \subseteq Langs
  /\ DOMAIN DefaultMode \subseteq Langs
  /\ \A l \in DOMAIN Patterns : Patterns[l] \subseteq Seq(Letters) \ {<<>>}
  /\ \A l \in DOMAIN DefaultMode : DefaultMode[l] \in Modes
  /\ MaxNormalized \in Nat
  /\ MaxMatches \in Nat
  /\ Texts \subseteq Seq(Codepoints)
  /\ LangLists \subseteq Seq(Langs)

VARIABLES text, langs, mode,        \* the arguments of scan
          read, norm, offset_map,   \* codepoints normalized; Normalized
          mode_used, matches, truncated,    \* ScanResult
          at,                       \* find_iter's position in norm
          timed,                    \* vv_match_duration_seconds: labels observed
          pc

args   == <<text, langs, mode>>
input  == <<read, norm, offset_map>>
result == <<mode_used, matches, truncated>>
vars   == <<args, input, result, at, timed, pc>>

(***************************************************************************)
(* The languages entered so far are as many as mode_used has entries; the  *)
(* last of them is the one being scanned.                                  *)
(***************************************************************************)
lang == langs[Len(mode_used)]
m    == mode_used[Len(mode_used)].mode

Init == /\ text \in Texts
        /\ langs \in LangLists
        /\ mode \in Modes \cup {NoMode}
        /\ read = 0
        /\ norm = <<>>
        /\ offset_map = <<>>
        /\ mode_used = <<>>
        /\ matches = <<>>
        /\ truncated = FALSE
        /\ at = 0
        /\ timed = <<>>
        /\ pc = "normalize"
-------------------------------------------------------------------------------
(***************************************************************************)
(* normalize: one codepoint.  Its letters are pushed one by one, and the   *)
(* length is compared with the cap after each, so the error comes as soon  *)
(* as the folding does not fit whole.                                      *)
(***************************************************************************)
folded == Folding[text[read + 1]]

NormalizeCodepoint_LateCheck ==       \* defect: looks at the cap before the push only
  /\ pc = "normalize"
  /\ read < Len(text)
  /\ Len(norm) <= MaxNormalized
  /\ norm' = norm \o folded
  /\ offset_map' = offset_map \o [i \in DOMAIN folded |-> ByteOf(text, read + 1)]
  /\ read' = read + 1
  /\ UNCHANGED <<args, result, at, timed, pc>>

NormalizeCodepoint_ByteMap ==         \* defect: maps to the byte, not its codepoint
  /\ pc = "normalize"
  /\ read < Len(text)
  /\ Len(norm) + Len(folded) <= MaxNormalized
  /\ norm' = norm \o folded
  /\ offset_map' = offset_map \o [i \in DOMAIN folded |-> ByteOf(text, read + 1) + i - 1]
  /\ read' = read + 1
  /\ UNCHANGED <<args, result, at, timed, pc>>

NormalizeCodepoint ==
  /\ pc = "normalize"
  /\ read < Len(text)
  /\ Len(norm) + Len(folded) <= MaxNormalized
  /\ norm' = norm \o folded
  /\ offset_map' = offset_map \o [i \in DOMAIN folded |-> ByteOf(text, read + 1)]
  /\ read' = read + 1
  /\ UNCHANGED <<args, result, at, timed, pc>>

TooLarge_AtCap ==                     \* defect: >= for >
  /\ pc = "normalize"
  /\ read < Len(text)
  /\ Len(norm) + Len(folded) >= MaxNormalized
  /\ pc' = "too_large"
  /\ UNCHANGED <<args, input, result, at, timed>>

TooLarge ==
  /\ pc = "normalize"
  /\ read < Len(text)
  /\ Len(norm) + Len(folded) > MaxNormalized
  /\ pc' = "too_large"
  /\ UNCHANGED <<args, input, result, at, timed>>

Normalized ==
  /\ pc = "normalize"
  /\ read = Len(text)
  /\ pc' = "lang"
  /\ UNCHANGED <<args, input, result, at, timed>>
-------------------------------------------------------------------------------
(***************************************************************************)
(* The outer loop.  A language enters mode_used before the engine knows    *)
(* whether it has it: an unknown one is skipped, its entry stays.          *)
(***************************************************************************)
resolve_default_mode_Strict(l) ==     \* defect: the fallback is the other mode
  IF l \in DOMAIN DefaultMode THEN DefaultMode[l] ELSE "strict"

resolve_default_mode(l) ==
  IF l \in DOMAIN DefaultMode THEN DefaultMode[l] ELSE "substring"

EnterLang ==
  /\ pc = "lang"
  /\ Len(mode_used) < Len(langs)
  /\ LET l == langs[Len(mode_used) + 1]
     IN  /\ mode_used' = Append(mode_used,
                           [lang |-> l,
                            mode |-> IF mode = NoMode THEN resolve_default_mode(l)
                                                      ELSE mode])
         /\ pc' = IF l \in DOMAIN Patterns THEN "find" ELSE "lang"
  /\ at' = 0
  /\ UNCHANGED <<args, input, matches, truncated, timed>>

Return ==
  /\ pc = "lang"
  /\ Len(mode_used) = Len(langs)
  /\ pc' = "done"
  /\ UNCHANGED <<args, input, result, at, timed>>
-------------------------------------------------------------------------------
(***************************************************************************)
(* find_iter: the next hit is the leftmost occurrence at or after `at`,    *)
(* the longest of those that start there.                                  *)
(***************************************************************************)
Occurrences(s, terms) ==
  {o \in [n : 0 .. Len(s), term : terms] :
     /\ o.n + Len(o.term) <= Len(s)
     /\ SubSeq(s, o.n + 1, o.n + Len(o.term)) = o.term}

Ahead == {o \in Occurrences(norm, Patterns[lang]) : o.n >= at}

hit == CHOOSE o \in Ahead : \A q \in Ahead :
          o.n < q.n \/ (o.n = q.n /\ Len(o.term) >= Len(q.term))

n_start == hit.n
n_end   == hit.n + Len(hit.term)

(***************************************************************************)
(* widen_to_source: from the codepoint the first byte comes from to the    *)
(* end of the codepoint the last byte comes from.                          *)
(***************************************************************************)
widen_end_Next ==                     \* defect: where the next letter's codepoint starts
  IF n_end = Len(norm) THEN ByteLen(text) ELSE offset_map[n_end + 1]

widen_start == offset_map[n_start + 1]
widen_end   == LET last == offset_map[n_end]
               IN  last + Width[CodepointAt(text, last)]

Outside == /\ m = "strict"
           /\ \/ ~is_word_boundary(text, widen_start)
              \/ ~is_word_boundary(text, widen_end)

Advance == /\ at' = n_end
           /\ UNCHANGED <<args, input, mode_used>>

(* One observation, labelled with the language and the mode.               *)
record_lang_scan == timed' = Append(timed, [lang |-> lang, mode |-> m])

(***************************************************************************)
(* The inner loop: a hit off the word boundaries is passed over in strict  *)
(* mode; otherwise it is pushed, or, when the list is full, ends the scan. *)
(***************************************************************************)
DropHit_InPlace ==                    \* defect: continue before the iterator moves on
  /\ pc = "find"
  /\ Ahead # {}
  /\ Outside
  /\ UNCHANGED vars

DropHit == /\ pc = "find"
           /\ Ahead # {}
           /\ Outside
           /\ Advance
           /\ UNCHANGED <<matches, truncated, timed, pc>>

Truncate_WhenFull ==                  \* defect: a full list is taken for a cut one
  /\ pc = "find"
  /\ Len(matches) = MaxMatches
  /\ truncated' = TRUE
  /\ pc' = "done"
  /\ record_lang_scan
  /\ UNCHANGED <<args, input, mode_used, matches, at>>

Truncate_Untimed ==                   \* defect: leaves the loop without recording
  /\ pc = "find"
  /\ Ahead # {}
  /\ ~Outside
  /\ Len(matches) = MaxMatches
  /\ truncated' = TRUE
  /\ pc' = "done"
  /\ Advance
  /\ UNCHANGED <<matches, timed>>

Truncate == /\ pc = "find"
            /\ Ahead # {}
            /\ ~Outside
            /\ Len(matches) = MaxMatches
            /\ truncated' = TRUE
            /\ pc' = "done"
            /\ record_lang_scan
            /\ Advance
            /\ UNCHANGED matches

PushHit == /\ pc = "find"
           /\ Ahead # {}
           /\ ~Outside
           /\ Len(matches) # MaxMatches
           /\ matches' = Append(matches,
                [lang |-> lang, term |-> hit.term,
                 start |-> widen_start, end |-> widen_end])
           /\ Advance
           /\ UNCHANGED <<truncated, timed, pc>>

LeaveLang == /\ pc = "find"
             /\ Ahead = {}
             /\ pc' = "lang"
             /\ record_lang_scan
             /\ UNCHANGED <<args, input, result, at>>

(* The call is over: nothing happens to a result that was returned. *)
Returned == pc \in {"done", "too_large"} /\ UNCHANGED vars

Next == \/ NormalizeCodepoint \/ TooLarge \/ Normalized
        \/ EnterLang \/ Return
        \/ DropHit \/ Truncate \/ PushHit \/ LeaveLang
        \/ Returned

SafetySpec == Init /\ [][Next]_vars
Spec == SafetySpec /\ WF_vars(Next)
-------------------------------------------------------------------------------
(***************************************************************************)
(* The type of the state.  offset_map has one entry per normalized byte,   *)
(* the normalized text never outgrows its cap, nor the matches theirs, and *)
(* only a full list is ever flagged truncated.                             *)
(***************************************************************************)
TypeOK ==
  /\ text \in Seq(Codepoints) /\ langs \in Seq(Langs)
  /\ mode \in Modes \cup {NoMode}
  /\ read \in 0 .. Len(text)
  /\ norm \in Seq(Letters) /\ Len(norm) <= MaxNormalized
  /\ Len(offset_map) = Len(norm)
  /\ mode_used \in Seq([lang : Langs, mode : Modes])
  /\ Len(mode_used) <= Len(langs)
  /\ Len(matches) <= MaxMatches
  /\ truncated \in BOOLEAN /\ (truncated => Len(matches) = MaxMatches)
  /\ at \in 0 .. Len(norm)
  /\ timed \in Seq([lang : DOMAIN Patterns, mode : Modes])
  /\ pc \in {"normalize", "lang", "find", "done", "too_large"}

(* No slice of the caller's text can panic: every entry of the offset map  *)
(* is the start of a codepoint (widen_to_source slices there), and every   *)
(* reported span runs from the start of a codepoint to the end of one      *)
(* (scan slices text[start..end]).                                         *)
SpanRecord(t) == [lang  : Langs, term : Seq(Letters),
                  start : CodepointStarts(t), end : CodepointEnds(t)]

SlicesAtCodepoints ==
  /\ offset_map \in Seq(CodepointStarts(text))
  /\ matches \in Seq(SpanRecord(text))
=============================================================================
