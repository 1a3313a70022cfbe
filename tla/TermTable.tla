------------------------------ MODULE TermTable ------------------------------
(***************************************************************************)
(* The term table that build.rs compiles into the binary.  A vendored      *)
(* directory is a function from file names to files, a file a sequence of  *)
(* lines, a line a sequence of characters.                                 *)
(*                                                                         *)
(* Sorting is left out: a language's terms go into one automaton, where    *)
(* their order does not show once the duplicates are gone.                 *)
(***************************************************************************)
EXTENDS Naturals, Sequences, FiniteSetsExt

CONSTANTS ALLOWLIST,    \* language codes, each the name of a file
          SKIP_LIST,    \* other files that are known to be there
          White         \* the white-space characters

(* str::trim *)
Trim(line) == LET ink == {i \in DOMAIN line : line[i] \notin White}
              IN  IF ink = {} THEN <<>> ELSE SubSeq(line, Min(ink), Max(ink))

(* The three assertions of validate. *)
validate(files) == /\ ALLOWLIST \cap SKIP_LIST = {}
                   /\ ALLOWLIST \subseteq files
                   /\ files \subseteq ALLOWLIST \cup SKIP_LIST

Terms_KeepsBlank(lines) ==            \* defect: blank lines are not filtered out
  {Trim(lines[i]) : i \in DOMAIN lines}

Terms(lines) == {Trim(lines[i]) : i \in DOMAIN lines} \ {<<>>}

(* The build succeeds, every language having a term at least. *)
Builds(vendor) == /\ validate(DOMAIN vendor)
                  /\ \A code \in ALLOWLIST : Terms(vendor[code]) # {}

load_terms(vendor) == [code \in ALLOWLIST |-> Terms(vendor[code])]
=============================================================================
