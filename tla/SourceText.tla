------------------------------ MODULE SourceText ------------------------------
(***************************************************************************)
(* The caller's text as the matcher sees it.  A text is a sequence of      *)
(* codepoints; positions in it are byte offsets, as in the Rust string.    *)
(* What Unicode says of a codepoint is a constant: its UTF-8 width, what   *)
(* NFKC and case folding make of it, and whether it is part of a word.     *)
(* A folded letter stands for one byte of normalized text.                 *)
(***************************************************************************)
EXTENDS Naturals, Sequences, FiniteSets, FiniteSetsExt

CONSTANTS Codepoints,       \* the alphabet of source texts
          Letters,          \* the alphabet of normalized texts
          Width,            \* Width[c]: bytes of c in UTF-8
          Folding,          \* Folding[c]: once(c).nfkc().default_case_fold()
          WordCodepoints    \* codepoints no word boundary falls between

ASSUME SourceTextAssumption ==
  /\ Width \in [Codepoints -> 1 .. 4]
  /\ DOMAIN Folding = Codepoints
  /\ \A c \in Codepoints : Folding[c] \in Seq(Letters) /\ Folding[c] # <<>>
  /\ WordCodepoints \subseteq Codepoints

(* The byte at which the k-th codepoint of t starts (char_indices). *)
ByteOf(t, k) == MapThenSumSet(LAMBDA j : Width[t[j]], 1 .. k - 1)

ByteLen(t) == ByteOf(t, Len(t) + 1)

CodepointStarts(t) == {ByteOf(t, k) : k \in 1 .. Len(t)}
CodepointEnds(t)   == {ByteOf(t, k) + Width[t[k]] : k \in 1 .. Len(t)}

(* The codepoint that starts at byte b of t. *)
CodepointAt(t, b) == t[CHOOSE k \in 1 .. Len(t) : ByteOf(t, k) = b]

(***************************************************************************)
(* boundary.rs.  The edges of the text are boundaries; inside it, UAX #29  *)
(* is abstracted to its main rule: no boundary between two word            *)
(* codepoints, one everywhere else between two codepoints.                 *)
(***************************************************************************)
is_word_boundary(t, b) ==
  \/ b \in {0, ByteLen(t)}
  \/ \E k \in 2 .. Len(t) : /\ ByteOf(t, k) = b
                            /\ ~({t[k - 1], t[k]} \subseteq WordCodepoints)
=============================================================================
