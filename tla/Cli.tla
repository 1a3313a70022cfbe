---------------------------------- MODULE Cli ----------------------------------
(***************************************************************************)
(* The command line vv (cli.rs): one invocation from its arguments to its  *)
(* exit status.  Every line it prints is a step of its own, which may      *)
(* fail: standard output may be a pipe whose reader has left, or a full    *)
(* disk, and so may standard error.  A failed write to standard output is  *)
(* an error the code handles; eprintln! panics when standard error cannot  *)
(* be written, and the panic is caught in run.                             *)
(***************************************************************************)
EXTENDS CheckInput, SequencesExt

CONSTANTS Codes,        \* what may stand for a language code in the input
          Trimmed,      \* Trimmed[c]: str::trim
          Lowered,      \* Lowered[c]: str::to_ascii_lowercase
          Compiled,     \* compiled_langs(): the compiled codes, sorted
          MAX_MATCHES,
          Invocations   \* the ways vv may be called, see InvocationType

Flags == {"text", "file", "stdin", "json_input", "lang", "mode"}

(***************************************************************************)
(* command    "help" stands for --help and --version, "mistake" for        *)
(*            arguments clap cannot read at all                            *)
(* given      the flags of `check` that are there                          *)
(* dash       the path given is "-"                                        *)
(* tty        standard input is a terminal                                 *)
(* readable   the source can be read to its end                            *)
(* utf8, parses   the source is UTF-8; it is JSON of CheckRequest's shape  *)
(* text       what the text is; "huge" is above the normalization cap      *)
(* mode, langs    of the flags or of the JSON; langs: at most one list     *)
(* hits       how many matches the text has in a language                  *)
(***************************************************************************)
InvocationType ==
  [command : {"check", "languages", "version", "help", "mistake"},
   given : SUBSET Flags, dash : BOOLEAN, tty : BOOLEAN,
   readable : BOOLEAN, utf8 : BOOLEAN, parses : BOOLEAN,
   text : {"empty", "fine", "huge"},
   mode : {"absent", "strict", "substring", "unheard-of"},
   langs : SUBSET Seq(Codes), hits : [ToSet(Compiled) -> Nat],
   plain : BOOLEAN, verbose : BOOLEAN]

ASSUME CliAssumption ==
  /\ Compiled \in Seq(Codes) \ {<<>>}
  /\ Trimmed \in [Codes -> Codes] /\ Lowered \in [Codes -> Codes]
  /\ MAX_MATCHES \in Nat \ {0}
  /\ Invocations \subseteq InvocationType
  /\ \A i \in Invocations : \A s, t \in i.langs : s = t

VARIABLES inv, pc,
          todo,         \* the lines to print next, each with its stream
          kind,         \* the ExitKind it is going to return
          out, err,     \* the lines that got through
          exit          \* the exit status, -1 before there is one

vars == <<inv, pc, todo, kind, out, err, exit>>

Out(line) == [to |-> "stdout", line |-> line]
Err(line) == [to |-> "stderr", line |-> line]
Each(stream(_), lines) == [k \in DOMAIN lines |-> stream(lines[k])]

Init == /\ inv \in Invocations
        /\ pc = "parse"
        /\ todo = <<>>
        /\ kind = "Success"
        /\ out = <<>> /\ err = <<>>
        /\ exit = -1

(* A step of the program between two lines it prints; then prints lines.   *)
Step(from, to, k, lines) == /\ pc = from /\ todo = <<>>
                            /\ pc' = to
                            /\ kind' = k
                            /\ todo' = lines
                            /\ UNCHANGED <<inv, out, err, exit>>

Complain(from, k, what) == Step(from, "exit", k, <<Err(<<"complaint", what>>)>>)
-------------------------------------------------------------------------------
(* Cli::try_parse.  What clap prints itself may be lost: print().ok().     *)
conflicts_with_all ==
  [text       |-> {"file", "stdin", "json_input"},
   file       |-> {"text", "stdin", "json_input"},
   stdin      |-> {"text", "file", "json_input"},
   json_input |-> {"text", "file", "stdin", "lang", "mode"},
   lang       |-> {}, mode |-> {}]

Refused(i) == \/ i.command = "mistake"
              \/ \E f, g \in i.given : g \in conflicts_with_all[f]
              \/ i.command = "check" /\ "text" \in i.given /\ ~i.utf8

TryParse == \/ Refused(inv) /\ Step("parse", "exit", "Usage", <<>>)
            \/ /\ ~Refused(inv) /\ inv.command = "help"
               /\ Step("parse", "exit", "Success", <<>>)
            \/ /\ ~Refused(inv) /\ inv.command = "check"
               /\ Step("parse", "read", kind, <<>>)

(* languages and version: rows, or one document. *)
run_languages ==
  /\ ~Refused(inv) /\ inv.command = "languages"
  /\ Step("parse", "exit", "Success",
          IF inv.plain THEN [k \in DOMAIN Compiled |-> Out(<<"code", Compiled[k]>>)]
                       ELSE <<Out(<<"codes", Compiled>>)>>)

run_version == /\ ~Refused(inv) /\ inv.command = "version"
               /\ Step("parse", "exit", "Success", <<Out(<<"version">>)>>)
-------------------------------------------------------------------------------
(* check: where its text comes from. *)
AtPath(i) == IF i.dash THEN "stdin" ELSE "path"

read_text_argv_PipeFirst(i) ==        \* defect: a pipe is preferred to --text
  IF "stdin" \in i.given \/ ~i.tty THEN "stdin"
  ELSE IF "text" \in i.given THEN "argv"
  ELSE IF "file" \in i.given THEN AtPath(i) ELSE "none"

read_text_argv(i) == IF "text" \in i.given THEN "argv"
                     ELSE IF "file" \in i.given THEN AtPath(i)
                     ELSE IF "stdin" \in i.given \/ ~i.tty THEN "stdin" ELSE "none"

Json(i)   == "json_input" \in i.given
Source(i) == IF Json(i) THEN AtPath(i) ELSE read_text_argv(i)

NoSource == /\ Source(inv) = "none"
            /\ Complain("read", "Usage", "no_input")

(* read_to_string wants UTF-8; the bytes of --json-input are left to serde. *)
Obtained(i) == Source(i) = "argv" \/ (i.readable /\ (Json(i) \/ i.utf8))

read_source == IF Obtained(inv) THEN Step("read", "resolve", kind, <<>>)
                                ELSE Complain("read", "Io", "not_read")

ReadOwn   == Source(inv) \in {"argv", "path"} /\ read_source
ReadStdin == Source(inv) = "stdin" /\ read_source
-------------------------------------------------------------------------------
(* resolve_check_inputs.  A parser gives the set of the one value it        *)
(* returns, empty for an error.  Only flags are trimmed.                    *)
resolve_mode(s) == IF s \in {"absent", "strict", "substring"} THEN {s} ELSE {}

LangsOf(i) == LET list == CHOOSE s \in i.langs : TRUE
              IN  IF Json(i) THEN list ELSE [k \in DOMAIN list |-> Trimmed[list[k]]]

validate_langs(list) ==
  LET lower == [k \in DOMAIN list |-> Lowered[list[k]]]
  IN  IF ToSet(lower) \subseteq ToSet(Compiled) THEN {lower} ELSE {}

scan_langs(i) == IF i.langs = {} THEN {Compiled} ELSE validate_langs(LangsOf(i))

FaultsOf(i) ==
  IF Json(i) /\ ~(i.utf8 /\ i.parses) THEN {"bad_request"}
  ELSE {f \in {"empty_text", "invalid_mode", "empty_langs", "unknown_language"} :
          CASE f = "empty_text"       -> i.text = "empty"
            [] f = "invalid_mode"     -> resolve_mode(i.mode) = {}
            [] f = "empty_langs"      -> i.langs = {<<>>}
            [] f = "unknown_language" -> scan_langs(i) = {}}

resolve_check_inputs_LangsFirst(i) == \* defect: the order of the tests differs
  FirstOf(<<"bad_request", "empty_langs", "unknown_language", "empty_text",
            "invalid_mode">>, FaultsOf(i))

resolve_check_inputs(i) == FirstOf(CliTests, FaultsOf(i))

Resolve ==
  LET fault == resolve_check_inputs(inv)
  IN  IF fault # "ok" THEN Complain("resolve", "Usage", fault)
      ELSE Step("resolve", "scan", kind,
                IF inv.verbose THEN <<Err(<<"input">>)>> ELSE <<>>)
-------------------------------------------------------------------------------
(* What engine.scan returns (module Scan), matches by their language only:  *)
(* mode_used stops at the language whose match was the first left out.      *)
Full(i, list) == FlattenSeq([k \in DOMAIN list |->
                               [n \in 1 .. i.hits[list[k]] |-> list[k]]])

result(i) ==
  LET list    == CHOOSE s \in scan_langs(i) : TRUE
      full    == Full(i, list)
      entered == {k \in DOMAIN list :
                    k = 1 \/ Len(Full(i, SubSeq(list, 1, k - 1))) <= MAX_MATCHES}
  IN  [mode_used |-> SubSeq(list, 1, Max(entered)),
       matches   |-> SubSeq(full, 1, Min({Len(full), MAX_MATCHES})),
       truncated |-> Len(full) > MAX_MATCHES]

CountIn(s, l) == Cardinality({n \in DOMAIN s : s[n] = l})

(* --verbose: a count for every entry of mode_used, in its order.  find     *)
(* stops at the first, so a language listed twice has them all there.       *)
per_lang_Every(r) ==                  \* defect: every entry of the language counts
  [k \in DOMAIN r.mode_used |->
     <<"tally", r.mode_used[k], CountIn(r.matches, r.mode_used[k])>>]

per_lang(r) ==
  [k \in DOMAIN r.mode_used |->
     LET l == r.mode_used[k]
     IN  <<"tally", l, IF l \in ToSet(SubSeq(r.mode_used, 1, k - 1)) THEN 0
                       ELSE CountIn(r.matches, l)>>]

write_check_plain(r) ==
  [k \in DOMAIN r.matches |-> <<"match", r.matches[k]>>]
    \o IF r.truncated THEN <<<<"truncated">>>> ELSE <<>>

CheckReport(i) ==
  LET r == result(i)
  IN  IF i.plain THEN write_check_plain(r)
      ELSE <<<<"response", ToSet(r.mode_used), r.matches, r.truncated>>>>

has_hits_And(r) ==                    \* defect: && for ||
  r.matches # <<>> /\ r.truncated

has_hits(r) == r.matches # <<>> \/ r.truncated

Scan ==
  LET r == result(inv)
  IN  IF inv.text = "huge" THEN Complain("scan", "TooLarge", "too_large")
      ELSE Step("scan", "exit",
                IF has_hits(r) THEN "Hits" ELSE "Success",
                (IF inv.verbose THEN Each(Err, per_lang(r)
                                          \o IF r.truncated THEN <<<<"cut">>>> ELSE <<>>)
                                ELSE <<>>)
                  \o Each(Out, CheckReport(inv)))
-------------------------------------------------------------------------------
(* A line gets through, or does not. *)
next == Head(todo)

Emit == /\ todo # <<>>
        /\ todo' = Tail(todo)
        /\ out' = IF next.to = "stdout" THEN Append(out, next.line) ELSE out
        /\ err' = IF next.to = "stderr" THEN Append(err, next.line) ELSE err
        /\ UNCHANGED <<inv, pc, kind, exit>>

StdoutFails_Skips ==                  \* defect: a row that fails is left out
  /\ todo # <<>> /\ next.to = "stdout"
  /\ todo' = Tail(todo)
  /\ UNCHANGED <<inv, pc, kind, out, err, exit>>

StdoutFails == /\ todo # <<>> /\ next.to = "stdout"
               /\ kind' = "Io"
               /\ todo' = <<Err(<<"complaint", "not_written">>)>>
               /\ UNCHANGED <<inv, pc, out, err, exit>>

(* map_unwind_result says so on the same stream, and outside catch_unwind: *)
(* if that fails, too, main ends by a panic.                               *)
StderrFails ==
  /\ todo # <<>> /\ next.to = "stderr" /\ kind # "Panic"
  /\ kind' = "Panic"
  /\ pc' = "exit"
  /\ todo' = <<Err(<<"complaint", "internal_error">>)>>
  /\ UNCHANGED <<inv, out, err, exit>>

PanicAgain == /\ todo # <<>> /\ next.to = "stderr" /\ kind = "Panic"
              /\ pc' = "ended"
              /\ todo' = <<>>
              /\ exit' = 101
              /\ UNCHANGED <<inv, kind, out, err>>

code_Sysexits(k) ==                   \* defect: EX_IOERR, which the table has not
  CASE k = "Success" -> 0 [] k = "Hits" -> 1 [] k = "Usage" -> 2
    [] k = "TooLarge" -> 3 [] k = "Io" -> 74 [] k = "Panic" -> 70

code(k) == CASE k = "Success" -> 0 [] k = "Hits" -> 1 [] k = "Usage" -> 2
             [] k = "TooLarge" -> 3 [] k = "Io" -> 64 [] k = "Panic" -> 70

Exit == /\ pc = "exit" /\ todo = <<>>
        /\ pc' = "ended"
        /\ exit' = code(kind)
        /\ UNCHANGED <<inv, todo, kind, out, err>>

Own == \/ TryParse \/ run_languages \/ run_version
       \/ NoSource \/ ReadOwn \/ Resolve \/ Scan
       \/ Emit \/ StdoutFails \/ StderrFails \/ PanicAgain \/ Exit

Next == Own \/ ReadStdin

(* The program goes on by itself: files are read, and a line it prints is  *)
(* taken or refused.  Who writes its standard input may never close it.    *)
Spec == Init /\ [][Next]_vars /\ WF_vars(Own)
-------------------------------------------------------------------------------
TypeOK ==
  /\ inv \in Invocations
  /\ pc \in {"parse", "read", "resolve", "scan", "exit", "ended"}
  /\ kind \in {"Success", "Hits", "Usage", "TooLarge", "Io", "Panic"}
  /\ exit \in {-1, 0, 1, 2, 3, 64, 70, 101} /\ (exit >= 0 <=> pc = "ended")
  /\ \A k \in DOMAIN todo : todo[k].to \in {"stdout", "stderr"}

Report(i) == CASE i.command = "check" -> CheckReport(i)
               [] i.command = "version" -> <<<<"version">>>>
               [] i.command = "languages" ->
                    IF i.plain THEN [k \in DOMAIN Compiled |-> <<"code", Compiled[k]>>]
                               ELSE <<<<"codes", Compiled>>>>
               [] OTHER -> <<>>

(* A script that reads standard output can tell from the status what it    *)
(* has: what is printed is always a beginning of the report; with 0 or 1   *)
(* it is the whole report; and a report that is all there has one of them, *)
(* so "# truncated" is missing from a truncated list only with another.    *)
ReportIsWholeOrRefused ==
  /\ exit \in {0, 1} => out = Report(inv)
  /\ exit \in {2, 3} => out = <<>>
  /\ out # <<>> => /\ IsPrefix(out, Report(inv))
                   /\ (pc = "ended" /\ out = Report(inv)) => exit \in {0, 1}

(* The exit codes of `vv check --help` (cli.rs:41-50): 1 for matches, 0    *)
(* for none; 64 for input that could not be read, or output that could not *)
(* be written; 70 only if a line to standard error was lost.  Of a status  *)
(* the table does not have it says nothing: see PanicExitsWith70.          *)
Complaints == {err[k][2] : k \in {n \in DOMAIN err : err[n][1] = "complaint"}}

Matched(i) == \A s \in scan_langs(i) : \E k \in DOMAIN s : i.hits[s[k]] > 0

ExitTellsTheOutcome ==
  pc = "ended" =>
    /\ exit = 0 => (inv.command = "check" => ~Matched(inv))
    /\ exit = 1 => (inv.command = "check" /\ Matched(inv))
    /\ exit = 64 => Complaints = {IF inv.command = "check" /\ ~Obtained(inv)
                                  THEN "not_read" ELSE "not_written"}
    /\ exit = 70 => Complaints = {"internal_error"}

(* "Runs the CLI inside `catch_unwind` so an unexpected panic becomes exit  *)
(* 70 rather than a process abort" (cli.rs:147-148): no panic ends in any  *)
(* other status.                                                           *)
PanicExitsWith70 == (pc = "ended" /\ kind = "Panic") => exit = 70

(* The server's verdict on the request that the invocation stands for.     *)
(* "Mirrors routes/check.rs's validation order so error rows match"        *)
(* (cli.rs:398): where the server answers 400 or 422 vv exits with 2 and   *)
(* the same complaint, 413 is 3, and 200 is 0 or 1.                        *)
ServerFaults(i) ==
  IF Json(i) /\ ~(i.utf8 /\ i.parses) THEN {"bad_request"}
  ELSE (CASE i.text = "empty" -> {"empty_text"}
          [] i.text = "huge"  -> {"too_large"}
          [] OTHER -> {})
    \cup (IF i.mode = "unheard-of" THEN {"invalid_mode"} ELSE {})
    \cup UNION {IF s = <<>> THEN {"empty_langs"}
                ELSE IF \E e \in ToSet(LangsOf(i)) : Lowered[e] \notin ToSet(Compiled)
                     THEN {"unknown_language"} ELSE {} : s \in i.langs}

SameVerdictAsServer ==
  LET verdict == FirstOf(BeforeInputBytes \o AfterInputBytes, ServerFaults(inv))
      status  == Status(IF verdict = "too_large" THEN "payload_too_large" ELSE verdict)
  IN  (inv.command = "check" /\ ~Refused(inv) /\ Source(inv) # "none"
         /\ exit \in 0 .. 3) =>
        /\ exit = CASE status \in {400, 422} -> 2
                    [] status = 413 -> 3
                    [] status = 200 -> IF Matched(inv) THEN 1 ELSE 0
        /\ exit \in {2, 3} => Complaints = {verdict}

(* "Per-lang match tallies, in the order languages were scanned"           *)
(* (cli.rs:306): those that were printed before a report account for every *)
(* match in it once, also when a language is listed twice or the list cut. *)
TalliesFor(line, l) == line[1] = "tally" /\ line[2] = l

Tallied(lines, l) ==
  FoldLeft(LAMBDA n, line : IF TalliesFor(line, l) THEN n + line[3] ELSE n, 0, lines)

TalliesAccountForEveryMatch ==
  (inv.verbose /\ inv.command = "check" /\ exit \in {0, 1}) =>
    /\ \A l \in ToSet(Compiled) : Tallied(err, l) = CountIn(result(inv).matches, l)
    /\ \A l \in ToSet(result(inv).matches) : \E k \in DOMAIN err : TalliesFor(err[k], l)

(* vv comes to an end by itself, unless it is to read a standard input     *)
(* that nobody closes: not with --text or a file, whatever it is piped.    *)
AsksForStdin(i) == \/ i.dash /\ i.given \cap {"file", "json_input"} # {}
                   \/ "stdin" \in i.given
                   \/ i.given \cap {"text", "file", "json_input"} = {} /\ ~i.tty

EndsByItself ==
  (pc \notin {"parse", "read"} \/ ~AsksForStdin(inv)) ~> pc = "ended"
=============================================================================
