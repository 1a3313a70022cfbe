--------------------------------- MODULE MCCli ---------------------------------
(***************************************************************************)
(* Small instances of Cli: two languages, lists of up to three entries,    *)
(* and a cap that two matches in one language and one in the other exceed. *)
(***************************************************************************)
EXTENDS Cli

MCCodes    == {"de", "en", " EN", "EN", "xx", ""}
MCTrimmed  == [c \in MCCodes |-> IF c = " EN" THEN "EN" ELSE c]
MCLowered  == [c \in MCCodes |-> IF c = "EN" THEN "en" ELSE c]
MCCompiled == <<"de", "en">>

(* A plain check of a text without a match. *)
Basic == [command |-> "check", given |-> {"text"}, dash |-> FALSE, tty |-> TRUE,
          readable |-> TRUE, utf8 |-> TRUE, parses |-> TRUE, text |-> "fine",
          mode |-> "absent", langs |-> {}, hits |-> [l \in {"de", "en"} |-> 0],
          plain |-> FALSE, verbose |-> FALSE]

(* Every set of flags, with and without a terminal. *)
Called == {[Basic EXCEPT !.given = g, !.tty = t, !.dash = d,
                         !.mode = IF "mode" \in g THEN "strict" ELSE "absent",
                         !.langs = IF "lang" \in g THEN {<<"en">>} ELSE {}] :
             g \in SUBSET Flags, t \in BOOLEAN, d \in BOOLEAN}

(* Every way a source can fail or be wrong. *)
Read == {[Basic EXCEPT !.given = {f}, !.dash = d, !.readable = r, !.utf8 = u,
                       !.parses = p] :
           f \in {"text", "file", "stdin", "json_input"}, d \in BOOLEAN,
           r \in BOOLEAN, u \in BOOLEAN, p \in BOOLEAN}

(* Every combination of faults, in the flags and in a JSON body. *)
Wrong == {[Basic EXCEPT !.text = t, !.mode = m, !.langs = l, !.given =
              IF j THEN {"json_input"}
              ELSE {"text"} \cup (IF m # "absent" THEN {"mode"} ELSE {})
                           \cup (IF l # {} THEN {"lang"} ELSE {})] :
            t \in {"empty", "fine", "huge"}, m \in {"absent", "strict", "unheard-of"},
            l \in {{}, {<<"en">>}, {<<" EN">>}, {<<"EN", "xx">>}, {<<"">>}},
            j \in BOOLEAN}
         \cup {[Basic EXCEPT !.text = t, !.mode = m, !.langs = {<<>>},
                             !.given = {"json_input"}] :
                  t \in {"empty", "fine", "huge"}, m \in {"absent", "unheard-of"}}

(* Every number of matches on both sides of the cap, and lists with        *)
(* repetitions, in both output formats, verbose and not.                   *)
Matching == {[Basic EXCEPT !.hits = [l \in {"de", "en"} |-> IF l = "de" THEN n ELSE k],
                           !.given = {"text"} \cup IF s = {} THEN {} ELSE {"lang"},
                           !.langs = s, !.plain = p, !.verbose = v] :
               n \in 0 .. 2, k \in 0 .. 2, p \in BOOLEAN, v \in BOOLEAN,
               s \in {{}, {<<"en", "en">>}, {<<"en", "de">>}, {<<"en", "de", "EN">>}}}

Other == {[Basic EXCEPT !.command = c, !.given = {}, !.plain = p] :
            c \in {"languages", "version", "help", "mistake"}, p \in BOOLEAN}

MCInvocations == Called \cup Read \cup Wrong \cup Matching \cup Other
=============================================================================
