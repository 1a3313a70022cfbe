------------------------------ MODULE Detection ------------------------------
(***************************************************************************)
(* What a scan must return, stated over the whole text and without an      *)
(* iterator, an offset map or a cap on the way (DESIGN.md, "Match          *)
(* ordering" and "Mapping across NFKC expansions"), and the properties of  *)
(* the step machine of Scan against it.                                    *)
(***************************************************************************)
EXTENDS Scan, SequencesExt

(* The entries of s that are in S, in their order.                         *)
Filtered(s, S) ==
  FlattenSeq([i \in DOMAIN s |-> IF s[i] \in S THEN <<s[i]>> ELSE <<>>])

FoldedText(t) == FlattenSeq([k \in 1 .. Len(t) |-> Folding[t[k]]])

(* Origin(t)[i] is the codepoint of t that the i-th normalized byte is of. *)
Origin(t) ==
  FlattenSeq([k \in 1 .. Len(t) |-> [i \in DOMAIN Folding[t[k]] |-> k]])

(***************************************************************************)
(* Leftmost-longest: the one set of occurrences that are disjoint, each    *)
(* the longest at its start, such that every other occurrence starts       *)
(* inside one of them.                                                     *)
(***************************************************************************)
EndOf(o) == o.n + Len(o.term)

LeftmostLongest(s, terms) ==
  CHOOSE C \in SUBSET Occurrences(s, terms) :
    /\ \A c, d \in C : c # d => EndOf(c) <= d.n \/ EndOf(d) <= c.n
    /\ \A c \in C, o \in Occurrences(s, terms) :
          o.n = c.n => Len(o.term) <= Len(c.term)
    /\ \A o \in Occurrences(s, terms) \ C : \E c \in C : c.n <= o.n /\ o.n < EndOf(c)

(* The match an occurrence is reported as: whole codepoints of t. *)
Reported(t, l, o) == [lang  |-> l,
                      term  |-> o.term,
                      start |-> ByteOf(t, Origin(t)[o.n + 1]),
                      end   |-> ByteOf(t, Origin(t)[EndOf(o)] + 1)]

WholeWords(t, r) == is_word_boundary(t, r.start) /\ is_word_boundary(t, r.end)

ModeFor(l, md) == IF md # NoMode THEN md
                  ELSE IF l \in DOMAIN DefaultMode THEN DefaultMode[l]
                  ELSE "substring"

Kept(t, l, md, o) == ModeFor(l, md) = "strict" => WholeWords(t, Reported(t, l, o))

(* The reports of the occurrences that begin in the first n bytes, in the  *)
(* order of their starts; no two of them start at one place.               *)
ReportedUpTo(t, l, md, n) ==
  LET hits    == LeftmostLongest(FoldedText(t), Patterns[l])
      From(k) == {o \in hits : o.n = k /\ Kept(t, l, md, o)}
  IN  FlattenSeq([i \in 1 .. n |-> IF From(i - 1) = {} THEN <<>>
                                   ELSE <<Reported(t, l, CHOOSE o \in From(i - 1) : TRUE)>>])

MatchesIn(t, l, md) == IF l \notin DOMAIN Patterns THEN <<>>
                       ELSE ReportedUpTo(t, l, md, Len(FoldedText(t)))

FullList(t, ls, md) ==
  FlattenSeq([i \in DOMAIN ls |-> MatchesIn(t, ls[i], md)])
-------------------------------------------------------------------------------
(* The result is the first MaxMatches of the full list, and it is flagged  *)
(* truncated exactly if the list is longer: 256 hits are not, 257 are.     *)
ResultIsPrefixOfFullList ==
  pc = "done" =>
    LET full == FullList(text, langs, mode)
    IN  /\ matches = SubSeq(full, 1, Min({Len(full), MaxMatches}))
        /\ truncated <=> Len(full) > MaxMatches

(* A text is refused exactly if its folded form is above the cap, however  *)
(* short it is in source bytes.                                            *)
RefusedExactlyWhenTooLarge ==
  pc \in {"done", "too_large"} =>
    (pc = "too_large" <=> Len(FoldedText(text)) > MaxNormalized)

(* Every reported span is a range of whole codepoints of the caller's text *)
(* (text[start..end] cannot panic), its folded form contains the term, and *)
(* no shorter range of codepoints inside it does at the same place: the    *)
(* span without its first or without its last codepoint has lost part of   *)
(* the occurrence.                                                         *)
SpansHoldTheirTerm ==
  \A i \in DOMAIN matches :
    \E a, b \in 1 .. Len(text) :
      LET Folded(x, y) == Len(FoldedText(SubSeq(text, x, y)))
          slice == FoldedText(SubSeq(text, a, b))
      IN  /\ a <= b
          /\ matches[i].start = ByteOf(text, a)
          /\ matches[i].end = ByteOf(text, b + 1)
          /\ \E n \in 0 .. Len(slice) - Len(matches[i].term) :
                /\ SubSeq(slice, n + 1, n + Len(matches[i].term)) = matches[i].term
                /\ n < Folded(a, a)
                /\ n + Len(matches[i].term) > Folded(a, b - 1)

(* mode_used names the requested languages in their order with the mode    *)
(* each is scanned in: all of them, or, when the list was cut, those up to *)
(* the language of the first match that was left out.                      *)
ModeUsedFollowsRequest ==
  pc = "done" =>
    LET Entry(i) == [lang |-> langs[i], mode |-> ModeFor(langs[i], mode)]
        Before(i) == Len(FullList(text, SubSeq(langs, 1, i), mode))
    IN  /\ mode_used = [i \in 1 .. Len(mode_used) |-> Entry(i)]
        /\ ~truncated => Len(mode_used) = Len(langs)
        /\ truncated => /\ Before(Len(mode_used)) > MaxMatches
                        /\ Before(Len(mode_used) - 1) <= MaxMatches

(* vv_match_duration_seconds is "recorded regardless of whether the        *)
(* 256-cap trips" (scan.rs:103): a call that is over has one observation   *)
(* for each entry of mode_used that names a loaded language, under its     *)
(* mode, the language in which it was cut included; one under way has them *)
(* for all but the one it is scanning.                                     *)
EveryLanguageIsTimed ==
  LET loaded == Filtered(mode_used, [lang : DOMAIN Patterns, mode : Modes])
  IN  loaded = IF pc = "find" THEN Append(timed, [lang |-> lang, mode |-> m])
                              ELSE timed

(* The call ends: every hit, even of a one-letter term, moves find_iter    *)
(* forward.                                                                *)
ScanEnds == <>(pc \in {"done", "too_large"})
-------------------------------------------------------------------------------
(* "On any 200 response, mode_used is populated with an entry for every    *)
(* requested (or defaulted) language" (DESIGN.md:109); "One entry per      *)
(* scanned language" (scan.rs:45), all of which are to be scanned before   *)
(* truncation (DESIGN.md:111).                                             *)
ModeUsedForEveryLanguage == pc = "done" => Len(mode_used) = Len(langs)

(* "Leftmost-longest, non-overlapping matches within each language"        *)
(* (API.md): no byte of the text is in two reported matches of a language. *)
MatchesDoNotOverlap ==
  \A i, j \in DOMAIN matches :
    (i < j /\ matches[i].lang = matches[j].lang)
      => matches[i].end <= matches[j].start

(* "Scans the supplied text against one or more loaded languages and       *)
(* returns all matches" (API.md:51): a text that is a listed term, letter  *)
(* for letter, has a match.                                                *)
ListedTermsAreFound ==
  (pc = "done" /\ ~truncated) =>
    \A l \in ToSet(langs) \cap DOMAIN Patterns :
      text \in Patterns[l] =>
        \E i \in DOMAIN matches : matches[i].lang = l
=============================================================================
