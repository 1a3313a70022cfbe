-------------------------------- MODULE MCScan --------------------------------
(***************************************************************************)
(* A small alphabet with every kind of folding the matcher meets:          *)
(*   a, b   ASCII letters, one byte each                                   *)
(*   A      a fullwidth capital: three bytes, folds to the one letter a    *)
(*   lig    a ligature such as U+FB01: three bytes, folds to a and b       *)
(*   sp     a separator, the only codepoint outside words                  *)
(* Language x has terms that overlap and contain each other and one that   *)
(* spans a separator, y has a default mode of strict, z is not loaded.     *)
(***************************************************************************)
EXTENDS Languages

CONSTANTS a, b, A, lig, sp, x, y, z

MCCodepoints == {a, b, A, lig, sp}
MCLetters    == {a, b, sp}
MCWidth      == [c \in MCCodepoints |-> IF c \in {A, lig} THEN 3 ELSE 1]
MCFolding    == [c \in MCCodepoints |-> CASE c = A -> <<a>>
                                          [] c = lig -> <<a, b>>
                                          [] OTHER -> <<c>>]
MCWords      == MCCodepoints \ {sp}

MCLangs == {x, y, z}
MCAlphabet == <<x, y, z>>

MCPatterns == [l \in {x, y} |-> IF l = x THEN {<<a>>, <<b>>, <<a, b, b>>}
                                         ELSE {<<a, b>>, <<b, a>>, <<b, sp, a>>}]
MCDefaultMode == [l \in {y} |-> "strict"]

TextsUpTo(n) == UNION {[1 .. k -> MCCodepoints] : k \in 1 .. n}

(* A list that writes a term with a capital, as dictionaries do.  build.rs *)
(* trims the lines of a list and leaves their letters as they are.         *)
CapitalLetters  == MCLetters \cup {A}
CapitalPatterns == [l \in {x} |-> {<<b, b>>, <<A, b>>}]

Texts3 == TextsUpTo(3)
Texts4 == TextsUpTo(4)

(* What the request handler lets through, without and with repetitions,    *)
(* and what the library function is defined for beyond that.               *)
DistinctLists == {<<x>>, <<y>>, <<x, y>>, <<y, x>>}
AnyLists      == DistinctLists \cup {<<x, x>>, <<y, y, x>>, <<z>>, <<x, z, y>>}
=============================================================================
