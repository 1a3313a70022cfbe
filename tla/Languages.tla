------------------------------ MODULE Languages ------------------------------
(***************************************************************************)
(* GET /v1/languages, and what a check without a list of languages scans:  *)
(* two places that sort the engine's languages and give each its default   *)
(* mode, on their own.                                                     *)
(***************************************************************************)
EXTENDS Detection

CONSTANT Alphabet       \* the languages in alphabetical order

ASSUME LanguagesAssumption == /\ Alphabet \in Seq(Langs)
                              /\ DOMAIN Patterns \subseteq ToSet(Alphabet)

(* The keys of a hash map, sorted. *)
Sorted(codes) == Filtered(Alphabet, codes)

default_mode_Strict(l) ==             \* defect: the fallback is not the engine's
  IF l \in DOMAIN DefaultMode THEN DefaultMode[l] ELSE "strict"

default_mode(l) == IF l \in DOMAIN DefaultMode THEN DefaultMode[l] ELSE "substring"

languages == LET codes == Sorted(DOMAIN Patterns)
             IN  [i \in DOMAIN codes |->
                    [lang |-> codes[i], mode |-> default_mode(codes[i])]]

(* A check with langs omitted. *)
all_loaded == Sorted(DOMAIN Patterns)
-------------------------------------------------------------------------------
(* "This is the canonical order used for match concatenation when langs is *)
(* omitted on /v1/check" (DESIGN.md:136): a check that names neither       *)
(* languages nor a mode runs through the listing, in its order and in the  *)
(* modes it lists, to its end unless it is cut; and a scan in a            *)
(* language's default mode is timed under the mode the listing gives.      *)
DefaultScanFollowsListing ==
  mode = NoMode =>
    /\ langs = all_loaded => /\ IsPrefix(mode_used, languages)
                             /\ (pc = "done" /\ ~truncated) => mode_used = languages
    /\ ToSet(timed) \subseteq ToSet(languages)
=============================================================================
