------------------------------ MODULE MCStartup ------------------------------
(***************************************************************************)
(* Small instances of Startup: two languages, vendored directories with    *)
(* blank, padded, duplicate, missing and unknown files, and list fields of *)
(* up to three entries.  The texts a variable may hold are read as figment *)
(* reads them: Literals is the table of those it parses.                   *)
(***************************************************************************)
EXTENDS Startup

CONSTANTS a, sp, p1, p2

MCVendors ==
  {[f \in {"en", "de", "LICENSE"} |-> <<<<sp, a>>, << >>, <<a>>, <<a, sp, a>>, <<sp>>>>],
   [f \in {"en", "de"} |-> IF f = "en" THEN <<<<sp>>, << >>>> ELSE <<<<a>>>>],
   [f \in {"en"} |-> <<<<a>>>>],
   [f \in {"en", "de", "NEWS"} |-> <<<<a>>>>]}

(* Texts, what is between their commas, and what trim makes of them.       *)
MCEntries == {"", " ", "j,", "en", "de", " en", " EN", "EN", "xx", "j", "k", "k ", "1", "1 ",
              "2", "j,k ,j", "j, ", "EN, en", "xx,en", "1 ,2", "2,1", "1,1 ", "-1", "2.5",
              "true", "{k=1}", "[en", "[EN, de]", "[1, 2]", "[k, true]", "'k'", "\"k\"",
              "\"2\"", "\"j,k ,j\"", "[\"1\", \"2\"]", "[]"}
MCSplit   == [e \in MCEntries |-> CASE e = "j,k ,j" -> <<"j", "k ", "j">>
                                    [] e = "j, " -> <<"j", " ">>
                                    [] e = "EN, en" -> <<"EN", " en">>
                                    [] e = "xx,en" -> <<"xx", "en">>
                                    [] e = "1 ,2" -> <<"1 ", "2">>
                                    [] e = "2,1" -> <<"2", "1">>
                                    [] e = "1,1 " -> <<"1", "1 ">>
                                    [] OTHER -> <<e>>]
MCTrimmed == [e \in MCEntries |-> CASE e = " " -> "" [] e = " EN" -> "EN" [] e = " en" -> "en"
                                    [] e = "1 " -> "1" [] e = "k " -> "k"
                                    [] e = "j, " -> "j," [] OTHER -> e]
MCLowered == [e \in MCEntries |-> CASE e = " EN" -> " en" [] e = "EN" -> "en"
                                    [] OTHER -> e]
MCSeconds == [e \in {"1", "2", "-1", "2.5"} |->
                CASE e = "1" -> 1 [] e = "2" -> 2 [] e = "-1" -> -1 [] OTHER -> 3]
MCUsize   == [e \in {"1", "2"} |-> IF e = "1" THEN 1 ELSE 2]

String(e) == [form |-> "string", of |-> e]
Char(e)   == [form |-> "char", of |-> e]
Number(e) == [form |-> "number", of |-> e]
Other(e)  == [form |-> "other", of |-> e]
List(s)   == [form |-> "list", items |-> s]
Texts(s)  == List([i \in DOMAIN s |-> String(s[i])])

Numerals   == {"1", "2", "-1", "2.5"}
MCLiterals ==
  [e \in Numerals \cup {"1 ", "true", "{k=1}", "[EN, de]", "[1, 2]", "[k, true]", "'k'", "\"k\"",
                        "\"2\"", "\"j,k ,j\"", "[\"1\", \"2\"]", "[]"} |->
     CASE e \in Numerals            -> Number(e)
       [] e = "1 "                  -> Number("1")
       [] e = "[EN, de]"            -> Texts(<<"EN", "de">>)
       [] e = "[1, 2]"              -> List(<<Number("1"), Number("2")>>)
       [] e = "[k, true]"           -> List(<<String("k"), Other("true")>>)
       [] e = "[\"1\", \"2\"]"      -> Texts(<<"1", "2">>)
       [] e = "[]"                  -> Texts(<<>>)
       [] e = "'k'"                 -> Char("k")
       [] e = "\"k\""               -> String("k")
       [] e = "\"2\""               -> String("2")
       [] e = "\"j,k ,j\""          -> String("j,k ,j")
       [] OTHER                     -> Other(e)]
MCUnparsed == {"j,", "j,k ,j", "j, ", "EN, en", "xx,en", "1 ,2", "2,1", "1,1 ", "[en"}

Of(keys, langs, buckets) ==
  [f \in Fields |-> CASE f = "api_keys" -> keys
                      [] f = "langs" -> langs
                      [] f = "histogram_buckets" -> buckets
                      [] OTHER -> {}]
Plain(addr, cap) == [Of({}, {}, {}) EXCEPT !.listen_addr = addr, !.max_inflight = cap]

OneOf(values) == {{}} \cup {{v} : v \in values}

(* The lists against each other, two at a time; literals of every form in  *)
(* each of them; and the two plain fields, beside a key.                   *)
MCEnvironments ==
  {Of(k, l, {}) : k \in OneOf({"k", "j,k ,j", "", "j, "}),
                  l \in OneOf({"en", "EN, en", "xx,en", ""})}
  \cup {Of({"k"}, l, b) : l \in OneOf({"EN, en", "xx,en"}),
                          b \in OneOf({"1 ,2", "2,1", "1,1 ", "xx", "2"})}
  \cup {Of({k}, {}, {}) : k \in {"1 ", "true", "{k=1}", "[k, true]", "'k'", "\"k\"",
                                "\"j,k ,j\"", "[EN, de]", "[]"}}
  \cup {Of({"k"}, {l}, {}) : l \in {"true", "[EN, de]", "[en", " EN"}}
  \cup {Of({"k"}, {}, {b}) : b \in {"[1, 2]", "[\"1\", \"2\"]", "\"2\"", "2.5"}}
  \cup {[Plain(a1, m) EXCEPT !.api_keys = {"k"}] :
          a1 \in OneOf({"j", "1", "'k'", "[EN, de]"}),
          m \in OneOf({"2", "-1", "xx", "\"2\"", "true"})}

MCTomlFiles ==
  {Of(k, l, b) :
     k \in OneOf({Texts(<<"j", "j,k ,j", "k">>), Texts(<<>>)}),
     l \in OneOf({Texts(<<"EN">>), Texts(<<>>)}),
     b \in OneOf({Texts(<<"2">>), List(<<Number("1"), Number("2")>>)})}
  \cup {Of({v}, {}, {}) : v \in {String("j,k ,j"), Number("1"), Texts(<<"xx", "k">>),
                                List(<<String("k"), Other("true")>>), Other("true")}}
  \cup {Plain(a1, m) : a1 \in OneOf({String("k"), Number("1")}),
                       m \in OneOf({Number("1"), Number("-1"), String("1")})}
=============================================================================
