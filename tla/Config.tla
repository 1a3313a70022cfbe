-------------------------------- MODULE Config --------------------------------
(***************************************************************************)
(* config.rs: the runtime configuration out of the VV_ environment and an  *)
(* optional TOML file.  A field that may be absent is a set of at most one *)
(* value.  Strings are members of Entries, which are told apart by what    *)
(* the parsers do with them.                                               *)
(***************************************************************************)
EXTENDS Integers, Sequences, SequencesExt

CONSTANTS Entries,      \* strings: list entries, and lists still to be split
          Split,        \* Split[e]: the parts of e between its commas
          Trimmed,      \* Trimmed[e]: str::trim
          Lowered,      \* Lowered[e]: str::to_ascii_lowercase
          Blank,        \* the empty string
          Seconds,      \* Seconds[e]: the finite float e stands for, if it does,
                        \* by its place in their order
          Usize,        \* Usize[e]: the usize the number e is, if it is one
          Literals,     \* Literals[e]: what a text that is a literal stands for
          Unparsed      \* texts that begin like a literal or a word and go on
                        \* with a comma, a bracket or a brace

ASSUME ConfigAssumption ==
  /\ Blank \in Entries
  /\ Split \in [Entries -> Seq(Entries) \ {<<>>}]
  /\ Trimmed \in [Entries -> Entries]
  /\ Lowered \in [Entries -> Entries]
  /\ \A e \in Entries : Lowered[e] = Blank <=> e = Blank
  /\ DOMAIN Seconds \subseteq Entries \ {Blank}
  /\ \A e \in DOMAIN Seconds : Seconds[e] \in Int

ListFields == {"api_keys", "langs", "histogram_buckets"}
Fields     == ListFields \cup {"listen_addr", "max_inflight"}

(***************************************************************************)
(* A value as figment has it, with the text it is of: "char" is one        *)
(* character between single quotes, "other" a boolean, a table, or, inside *)
(* a list, another list.                                                   *)
(***************************************************************************)
Scalar == [form : {"string", "char", "number", "other"}, of : Entries]
Value  == Scalar \cup [form : {"list"}, items : Seq(Scalar)]

(***************************************************************************)
(* Figment's Env parses what a variable holds: true and false, numbers,    *)
(* [lists] and {tables} of such, "strings" and 'c' without their quotes,   *)
(* all with blanks around them; any other text without a comma or a        *)
(* bracket is a string, trimmed.  What is none of these to its end stays   *)
(* the string it is, so that commas are left to the parsers below.         *)
(***************************************************************************)
ASSUME LiteralsAssumption == Literals \in [DOMAIN Literals -> Value]

env_value(e) ==
  IF e \in DOMAIN Literals THEN Literals[e]
  ELSE [form |-> "string", of |-> IF e \in Unparsed THEN e ELSE Trimmed[e]]

(* Figment's merge: of each field, the value of the later provider. *)
merge_TomlWins(toml, env) ==          \* defect: the providers are swapped
  [f \in Fields |-> IF toml[f] # {} THEN toml[f] ELSE env[f]]

merge(toml, env) == [f \in Fields |-> IF env[f] # {} THEN env[f] ELSE toml[f]]

(* RawConfig's types.  StringOrList is untagged: a Vec<String>, of strings  *)
(* only, or else a String, which a quoted character is not; it is one to   *)
(* Option<String>, though.                                                 *)
StringOrList_AnyItem(v) ==            \* defect: a list is taken for one of strings
  v.form \in {"string", "list"}

StringOrList(v) == \/ v.form = "string"
                   \/ /\ v.form = "list"
                      /\ \A i \in DOMAIN v.items : v.items[i].form = "string"

extracts(raw) ==
  /\ \A f \in ListFields : \A v \in raw[f] : StringOrList(v)
  /\ \A v \in raw.listen_addr : v.form \in {"string", "char"}
  /\ \A v \in raw.max_inflight : v.form = "number" /\ v.of \in DOMAIN Usize

into_vec_SplitsLists(v) ==            \* defect: entries of a list are split, too
  IF v.form = "list" THEN FlattenSeq([i \in DOMAIN v.items |-> Split[v.items[i].of]])
                     ELSE Split[v.of]

into_vec(v) == IF v.form = "list" THEN [i \in DOMAIN v.items |-> v.items[i].of]
                                  ELSE Split[v.of]

(* The first of each of the entries, in order. *)
Deduped(s) == FoldLeft(LAMBDA out, e : IF e \in ToSet(out) THEN out
                                                           ELSE Append(out, e),
                       <<>>, s)

(***************************************************************************)
(* The three parsers: each gives the set of the one value it returns,      *)
(* empty for an error.                                                     *)
(***************************************************************************)
Kept(s) == IF s = <<>> \/ Blank \in ToSet(s) THEN {} ELSE {Deduped(s)}

TrimmedVec(v) == [i \in DOMAIN into_vec(v) |-> Trimmed[into_vec(v)[i]]]

parse_api_keys(src) == Kept(TrimmedVec(src))

parse_langs(src) == Kept([i \in DOMAIN TrimmedVec(src) |-> Lowered[TrimmedVec(src)[i]]])

parse_histogram_buckets(src) ==
  LET s == TrimmedVec(src)
  IN  IF /\ s # <<>>
         /\ ToSet(s) \subseteq DOMAIN Seconds
         /\ \A i \in 2 .. Len(s) : Seconds[s[i - 1]] < Seconds[s[i]]
      THEN {[i \in DOMAIN s |-> Seconds[s[i]]]} ELSE {}

(***************************************************************************)
(* assemble: the configuration, or nothing if a parser fails.  The API     *)
(* keys are required, the address and the cap have defaults, and the other *)
(* two stay absent when they are.                                          *)
(***************************************************************************)
DEFAULT_LISTEN_ADDR  == "0.0.0.0:8080"
DEFAULT_MAX_INFLIGHT == 1024

ParsedIfGiven(field, value) == field = {} \/ value # {}

assemble(raw) ==
  LET keys    == UNION {parse_api_keys(v) : v \in raw.api_keys}
      langs   == UNION {parse_langs(v) : v \in raw.langs}
      buckets == UNION {parse_histogram_buckets(v) : v \in raw.histogram_buckets}
  IN  IF /\ keys # {}
         /\ ParsedIfGiven(raw.langs, langs)
         /\ ParsedIfGiven(raw.histogram_buckets, buckets)
      THEN {[listen_addr  |-> IF raw.listen_addr = {} THEN DEFAULT_LISTEN_ADDR
                              ELSE (CHOOSE v \in raw.listen_addr : TRUE).of,
             max_inflight |-> IF raw.max_inflight = {} THEN DEFAULT_MAX_INFLIGHT
                              ELSE Usize[(CHOOSE v \in raw.max_inflight : TRUE).of],
             api_keys |-> keys, langs |-> langs, histogram_buckets |-> buckets]}
      ELSE {}
=============================================================================
