# Vocab Veto (banned-words-service): verification project

TLA+ modules of the service in `src/`, configurations that model-check them
with TLC, and theorems about them checked by TLAPS. `PROJECT.json` lists the
components, runs, mutants, findings, hazards and theorems, and maps every
definition to the lines it stands for.

    tlc -workers 2 -config Gate.cfg MCInflightGate      # a run
    tlapm InflightGate_proofs.tla                       # the proofs

Source paths below are relative to `src/`.

## 1. The system

A stateless HTTP server (axum on tokio) and a command-line tool over one
matching engine. Term lists are compiled into the binary.

| component | source | state | operations |
|---|---|---|---|
| in-flight gate | `src/limits.rs`, `src/state.rs` | one `AtomicUsize` shared by all tasks | admit, refuse, release by the guard's drop |
| gauge and `/metrics` | `src/routes/metrics.rs`, `src/observability.rs` | the recorder's `vv_inflight` cell | load the counter, set the gauge, render |
| scan engine | `src/matcher/scan.rs` | automaton per language (immutable); per call: lists and flags | enter language, drop / push / cut at a hit |
| normalizer | `src/matcher/normalize.rs` | per call: folded text, offset map | fold a codepoint, refuse above the cap |
| word boundaries | `src/matcher/boundary.rs` | none | is a byte offset a boundary |
| router, auth, body limit | `src/routes/mod.rs`, `src/auth.rs` | none but the metrics | pass inwards or answer |
| check handler | `src/routes/check.rs`, `src/error.rs` | per request | await body, parse, validate, scan, record, answer |
| request metrics | `src/observability.rs` | counters and histograms shared by all tasks | count on the way back |
| configuration | `src/config.rs` | none | merge TOML and environment, parse lists, assemble |
| term table | `build.rs` | none (at build time) | validate the vendored files, trim, drop blanks |
| startup, readiness, shutdown | `src/main.rs`, `src/routes/health.rs` | `AppState.ready`, the listener, open connections | the steps of `main`, signals |
| command line | `src/cli.rs`, `src/bin/vv.rs` | none | resolve inputs, scan, print, exit code |

How they interact. A request passes `red_layer`, then on `/v1` routes
authentication and the body limit, on `/v1/check` also the gate, and reaches
the handler, which calls the engine. Tasks share the in-flight counter, the
metrics and the immutable `AppState`, nothing else. A handler suspends in one
place, the wait for the body: only there may its future be dropped. A `/metrics`
request reads the gate's counter into the recorder. `main` builds engine and
state out of the configuration and the compiled terms.

What is hard. Interleavings of the gate's add, compare and subtract; every exit
path giving its slot back once; scrapes in the middle of a request; the order
of layers and validations; widening from folded bytes to source codepoints;
the two caps at their boundary; signals at any moment of startup and serving.
`PROJECT.json` lists these as hazards, each at its line.

## 2. The modules

| module | models | extends / instantiates |
|---|---|---|
| `Admission` | what the cap promises, without a counter (abstract) | |
| `InflightGate` | `limits.rs` per atomic operation | implements `Admission` |
| `InflightGate_proofs` | theorems | `InflightGate`, TLAPS |
| `InflightGauge` | overlapping scrapes beside the gate | `InflightGate` |
| `InflightGauge_proofs` | theorems | `InflightGauge`, `InflightGate_proofs` |
| `SourceText` | codepoints, UTF-8 widths, folding, word boundaries | |
| `Scan` | normalize and `Engine::scan`, step by step | `SourceText` |
| `Detection` | the declarative result, and the properties of `Scan` | `Scan` |
| `Languages` | the listing and the default scan | `Detection` |
| `Scan_proofs` | theorems | `Scan`, `SharedLemmas` |
| `Detection_proofs` | theorems | `Languages`, `Scan_proofs` |
| `CheckInput` | faults of a body, the order they are found in, statuses | |
| `SharedLemmas` | lemmas: induction, flattening, folds, order of faults | `CheckInput`, TLAPS |
| `Server` | router, layers, handler and metrics | `CheckInput`; implements `InflightGate` |
| `Server_proofs` | theorems | `Server`, `SharedLemmas`; instantiates `InflightGate_proofs` |
| `Cli` | `cli.rs`, one invocation | `CheckInput` |
| `Cli_proofs` | theorems | `Cli`, `SharedLemmas` |
| `TermTable` | `build.rs` | |
| `Config` | `config.rs` | |
| `Auth` | `auth.rs`, the header against the keys | `Config` |
| `Startup` | `main.rs`, readiness, shutdown | `Auth`, `TermTable` |
| `Startup_proofs` | theorems | `Startup`, `SharedLemmas` |
| `MC...` | instances for TLC | |

**InflightGate.** `pc[r]` is how far a request is; `inflight` the counter.
`Admit` and `Refuse` are the `fetch_add` with the branch on the value it
returned (one atomic operation: the returned value is private to the task from
then on). `Retract` is the refusal's `fetch_sub`, `DropGuard` the guard's, after
a return (`HandlerReturns`, `BodyFails`) and after a dropped future
(`Disconnect`) alike. A member of `Requests` is a place a request may occupy and
is used again and again, so behaviours are unbounded in length. Additions and
subtractions wrap at `MaxUsize`. The operations are `Relaxed`; on a single cell
that is still one modification order, which is what interleaving gives.

**InflightGauge** adds `gauge` and, per scrape, a program counter and the value
loaded. `during` and `overlapped` are history variables for the properties.

**Scan** takes one step per codepoint normalized, per language entered and per
hit. `norm`, `offset_map`, `mode_used`, `matches`, `truncated` are the code's
variables. The Aho-Corasick crate is external: `hit` is what `find_iter` yields
next under `LeftmostLongest`. A folded letter is one byte; a codepoint has a
UTF-8 width and a folding of one or more letters, so that several folded bytes
share an origin and origins are several bytes wide, which is what widening is
about. `timed` is `vv_match_duration_seconds`: the labels of its observations,
which are recorded on two ways out of the inner loop.

**Detection** states the result over the whole text: leftmost-longest as the one
set of occurrences with three closure conditions, spans through `Origin`, the
strict filter, concatenation. It uses no iterator, map or cap. The list of a
language is put together place by place (`ReportedUpTo`), not by sorting a set,
so that it can be reasoned about: no two hits start at one place.

**Languages** puts `routes/languages.rs` beside the scan: both sort the loaded
languages and fall back to a default mode, each in code of its own.

**Server** has a step wherever a task touches shared state or suspends.
`CheckInput` gives a body as the set of its faults; `FirstOf` picks the one an
order of early returns reports, and the order of `cli.rs` is kept beside the
handler's. Requests are sent at most once here, so counters are bounded; a
counter or histogram is a number of increments or observations per label. The
path `/nowhere` stands for all that have no route: the fallback's 404, labelled
`other` by `classify_endpoint`.

**Cli** is one invocation of `vv`: what clap excludes, where the text comes
from, the validation (flags are trimmed, JSON is not), the scan's result as
counts by language, `--verbose` tallies, both formats, the exit status. Every
line printed is a step that may fail, on standard output (an error the code
turns into a status) and on standard error (`eprintln!` panics; the panic is
caught and reported on the same stream, outside `catch_unwind`).

**Startup** has an action per step of `main`, and clients and signals between
them. `Config`, `Auth` and `TermTable` are pure. SIGINT is handled only by the
future given to `with_graceful_shutdown`; `Kill` is every other end by signal.
The inputs are enumerated in the initial states: vendored directories, the
environment, an optional TOML file. A string is one member of `Entries`; its
parts between commas, its trimmed and lowered forms and the number it may be are
functions on them, so that the environment's split and the file's arrays are
part of the model. A field or a parser's result is a set of at most one value:
empty is absent, or an error.

A `Value` is what figment gives of a string, a quoted character, a number, a
boolean or table (`"other"`), or a list of such; `StringOrList` and `extracts`
take from these what the types of `RawConfig` take. Figment parses what a
variable holds before any code of this repository sees it, so `VV_API_KEYS=true`
is a boolean, `VV_LANGS=[en,de]` a list and `VV_API_KEYS="k"` the text without
its quotes. Its syntax is external: `Literals` is the table of the texts it reads
as literals and `Unparsed` the texts that are none to their end and stay as they
are; anything else is a trimmed string. The theorems hold for any such table, the
run has one with literals of every form.

An operator with an underscore and the word *defect* is a wrong variant of the
one after it. Nothing uses it; replacing the right one by it makes the property
named in `PROJECT.json` ("mutants") fail.

## 3. What the runs show

| run | instance | distinct states | result |
|---|---|---|---|
| `gate` | 5 requests, cap 2, usize to 6 | 3,888 | counter exact, cap holds, refusals justified, slots come back, implements `Admission` |
| `gate_spurious_503` | 3 requests, cap 1 | | a refusal with a free slot |
| `gauge_solo` | 2 requests, 2 scrapes, cap 1 | 63,798 | a scrape alone is current |
| `gauge_overlap` | same | | overlapping scrapes are not |
| `scan_exact` | texts up to 4 codepoints of 5 kinds, 8 language lists, caps 6 and 2 | 216,727 | result = declarative result, spans sound, ends |
| `scan_mode_used` | texts up to 3, match cap 2 | | a cut scan has no entry for later languages |
| `scan_overlap` | texts up to 3, match cap 4 | | two matches with one span |
| `scan_listed_terms` | a list with a capital | | the term itself is not found |
| `server` | 3 requests: one of 49 kinds, a plain or keyless check, a truncated one; cap 1 | 76,234 | accounts add up, metrics never contradict, answers in the order of layers and tests, implements `InflightGate`, nobody stuck |
| `cli` | 554 invocations, 2 languages, match cap 3, any line may fail | 6,916 | the status tells what was printed, same verdict as the server, tallies add up, ends |
| `cli_panic` | same | | a panic ends with 101 |
| `startup` | 4 directories, 86 environments, 43 TOML files or none, 2 clients | 148,064 | refuses the wrong, serves the right, admits the keys, loses no request |

Why the bounds are enough. The gate's processes are alike and its decisions
compare a count with the cap: below, at and above the cap with two in each of
the critical stages needs five requests and a cap of two; the general case is
proved. Scans: a text of four codepoints has expansions at either edge and in
the middle, a word boundary inside and outside a hit, hits that contain, overlap
and touch each other; six folded bytes are passed by four ligatures (eight) and
met exactly by three; the match cap of two is passed and met. Lists repeat
languages, name an unloaded one and are in both orders. Server: three requests
are one that holds the slot, one that is refused, and one that is refused
because of the other; the first is of every kind (each set of faults in a body
that is read, each credential and size before a good body, a body that breaks
off, one that is no JSON behind each layer that answers before it is read), the
general case is proved. Startup: lists of up to three entries, from both sources,
reach duplicate, blank, padded, capital, unknown, unsorted and equal neighbours
and an item with a comma; every field gets values of several forms, from a
variable (`1`, `true`, `{k=1}`, `[1, 2]`, `[k, true]`, `'k'`, `"k"`, `["1", "2"]`,
`[]`, an open bracket) and, as values, from the file. Cli: every set of flags
with and without a terminal and a path of `-`; every way a source fails; every
combination of faults in flags and in JSON; every number of matches on both sides
of the cap, with languages repeated; a failure of standard output or standard
error at any line.

`CHECK_DEADLOCK FALSE` is in the configurations where the instance really
stops: the finite requests of `Server`, a stopped process in `Startup`, an
invocation that has ended in `Cli`. A scan that has returned stutters explicitly
(`Returned`).

Fairness. The tokio runtime polls every runnable task, so a request's own
server-side steps are weakly fair; a scan is plain sequential code, and so is `vv`, whose files are read and whose lines are taken
or refused. *Nothing* is assumed of clients, nor of who writes to the standard
input of `vv`: the code has no timeout, so `SlotsComeBack`, `EveryRequestEnds`
and `EndsByItself` are stated up to the points where somebody else keeps the
program waiting. `Startup` states no fairness and no liveness: that an interrupted
server exits once its connections have ended is axum's doing, and nothing in this
code makes them end.

### Findings

1. **Spurious 503** (`gate_spurious_503`): `limits.rs:28` counts a request while
   it is being refused; another may be refused because of it although a slot is
   free. What does hold is `RefusedOnlyWhenCounted`. The cap itself is safe.
2. **Stale gauge** (`gauge_overlap`): load and set are two operations, and
   overlapping scrapes can render a value from before they began.
3. **`mode_used` of a cut scan** (`scan_mode_used`): `break 'outer` stops the
   scan at the cap, against DESIGN.md:109 and :111.
4. **Matches that overlap** (`scan_overlap`): two hits inside one expanding
   codepoint are reported with the same span, against API.md:219.
5. **Terms are not folded** (`scan_listed_terms`): `build.rs` trims lines only,
   so a term listed with a capital can match nothing.
6. **A panic that exits with 101** (`cli_panic`): the comment on `run`
   (cli.rs:147-148) says an unexpected panic becomes exit 70. With a standard
   error that cannot be written, `eprintln!` panics, and the `eprintln!` in
   `map_unwind_result` panics again, outside `catch_unwind`: the status is 101,
   which the table of exit codes (cli.rs:41-50) does not have.

Other disagreements of code and documents that the models show; they have no run
of their own, and the property that states what the code does says so in its
comment:

- `GET /v1/languages` with a declared length above the body limit is answered
  413, as the router's comment has it share "everything in the chain except the
  gate" (routes/mod.rs:34-45). API.md:132-138 and openapi.yaml:137-157 list 200,
  401 and 500 for it. `AnsweredInOrder` has the 413.
- A list variable whose text figment reads as a literal is of another form than
  a list: `VV_HISTOGRAM_BUCKETS=0.5` and `VV_API_KEYS=true` keep the server from
  starting, although DESIGN.md:186 and :189 call them comma-separated lists, of
  which one item is one of length one; and `VV_LANGS=[en,de]`, which they do not
  mention, is accepted. `RefusedExactlyWhenWrong` has the first as `WrongForm`.

## 4. What is proved

For all values of the constants, under the named assumptions of the modules
(`GateAssumption`: finitely many requests, not more than a usize counts, any
cap; `ServerAssumption`: the same, of the declared kinds; `ScanAssumption`,
`SourceTextAssumption`, `LanguagesAssumption`: terms and foldings are not empty,
the tables have the domains they should, the alphabet has every loaded language;
`CliAssumption`: some language is compiled in, invocations have their type;
`ConfigAssumption`: the functions on strings have their types, a comma split has
a part at least, lower case makes nothing blank that was not, buckets are
ordered like numbers; `LiteralsAssumption`: what figment parses is a value;
`StartupAssumption`: a field has at most one value in each source). Every safety property that a run checks is a theorem.

*Shared lemmas* (`SharedLemmas`). The library's induction takes the property as
an operator, which no installed prover can instantiate; here it is a set of
numbers (`Induction`, out of the least element of its complement), and that is
enough for what is recursive in the models. `FlattenSeq` and `FoldLeft` choose a
function by its recursion: `FlatExists` and `FoldExists` show that there is one,
and then what it computes follows along the sequence (`FlatStep`,
`FlatElement`, `FirstPlaces`). `FirstOfIs`: the first entry of an order that is a
fault; `SameOrder`: two groups of tests with a metric between them report what
one list of the same order does.

*Gate* (`InflightGate_proofs`). `TypeOK` is not inductive: a `fetch_sub` at zero
would wrap. The invariant adds `CounterExact` (the counter is the cardinality of
the requests that added and have not subtracted) and `AtMostMaxGuarded`. Each
action adds one request to `Counted`, removes one, or moves one inside it; the
lemmas `EntersCounted` and `LeavesCounted` give the cardinalities, and a
subtraction happens only to a member, so the counter is positive. The cap
follows because the guards are among the counted, of whom there are fewer than
the cap when one is admitted. From the invariant: `TypeCorrect`,
`CounterIsExact`, `CapHolds`, the action property `RefusalsAreJustified`, and
`GateImplementsAdmission`, where `MappedStep` sends every action to one of
`Admission` or to a stutter.

*Scan* (`Scan_proofs`). The invariant is `TypeOK`, `SlicesAtCodepoints`,
`Scanning` (in the inner loop `mode_used` is not empty and its last language is
loaded) and `CutEnds` (a truncated scan is over, since otherwise a push would
break "only a full list is flagged"). `HitIsAhead` shows that `CHOOSE` in `hit`
finds an occurrence, by the least start and the greatest length there;
`HitFacts` that it has a length, moves the iterator on and widens to codepoint
boundaries. `TypeCorrect` and `SlicesNeverPanic` follow.

*Detection* (`Detection_proofs`): that the scan returns what `Detection` says it
must. First what the definitions mean. `ByteOf` is a sum over a set, in an order
that `CHOOSE` decides; `ByteOfIsSum` makes it the sum in order, so that each
codepoint starts where the one before it ends. `LeftmostLongestIs` shows that
the set with the three closure conditions exists, by going through the text;
`OriginIs` and `FoldedSlice` relate a folded byte to its codepoint and the
folding of a slice to the slice of the folding. Then three invariants beside
that of `Scan`:

- `NormInv`: what is normalized is the folding of the codepoints read, with
  their positions. It gives `RefusedOnlyAboveTheCap`: a prefix above the cap is
  a text above it.
- `ModesInv`: the languages entered, each with its mode; all of them unless the
  list was cut. It gives `LanguagesAreTimed` and, with what the listing has,
  `DefaultScanIsListed`.
- `MatchInv`: the matches are the lists of the languages left and, of the
  present one, what begins before find_iter's position, a place no hit of the
  set reaches over (`Between`); once cut, there is a hit more in the lists than
  was kept. `ResultIsPrefixOfFullList` itself speaks of the end only and is not
  inductive. `NextHit` is the step: what `find_iter` yields from such a place is
  the next hit of the set, and the place after it is such a place.
  `ResultIsPrefix` and `ModesFollowRequest` follow.

`SpansAreTight` is inductive with `NormInv` and `ModesInv`: a match is what
`HitIsReported` says it is, and `ReportHoldsItsTerm` that this needs its first
and last codepoint.

*Gauge* (`InflightGauge_proofs`). `SoloScrapeIsCurrent` needs `Fresh`: the
counter's present value and the one a scrape loaded are in `during`, and until
it renders, the gauge of a scrape that was not overlapped is what it stored. The
last holds because of two scrapes in progress each has marked the other: whoever
sets the gauge meanwhile overlaps. The gate's own invariant comes along and
bounds the values.

*Server* (`Server_proofs`). `MappedStep` sends every step to one of the gate or
to a stutter, hence `ServerImplementsGate` and, by an instance of the gate's
theorems, the exact counter, `CapInServer`, `RefusalsInServer` and
`ServerImplementsAdmission`: the promise is kept by the server as a whole.
`AnswersAreInOrder` is not inductive: `Shape` says of each stage which tests
the request has passed, so that the branch taken is the one the order gives. `AccountsAddUp` and `NoContradiction` follow from `Accounts`: each metric is the
cardinality of a set of requests determined by stages and answers (`CountedAs`, `TimedAs`,
`TurnedAway`, `Measured`, `Matched`, `Truncated`), at every moment and not only
when the server is quiet. A step adds one request to one of the sets and
increments its metric, or leaves both; the contradictions are excluded by
inclusions between the sets. All three hold for any finite set of requests of
any kinds.

*Startup* (`Startup_proofs`). `Typed` carries "the build was right" to the point
where the engine is made, so that no automaton has no term or an empty one.
`Announced` says what each stage of `main` may rely on (a recorder, then gauges,
then the flag, then connections); `AnswersComeReady` is its last part.
`NoRequestIsLost` goes through the steps.

`Decided` says that the configuration, the languages and the refusals are those
that the environment, the file and the vendored lists give, which no step
changes; the rest is about the pure part. `RawField` and `ItemsAre`: what is
parsed is the variable, or else what is in the file, and its items are those the
operator wrote. `ExtractsIs`: the types of `RawConfig` refuse exactly a value of
another form than its field. `KeysAre`, `LangsAre`, `BucketsAre`: a parser refuses exactly the
wrong lists and keeps what it accepts; the code compares neighbouring buckets
and the property any two, so this takes an induction. `DedupedIs` and
`MatchedIs`: leaving out duplicates loses nothing, and comparing a token with
every key finds it wherever it is. `LoadFails` and `LoadIs` put these together,
and `RefusedForAReason`, `WrittenIsServed` and `TheKeysAreAdmitted` follow.

*Command line* (`Cli_proofs`). No property of it is inductive: they speak of what
has been printed, and a line printed was due long before. `Phase` says, at every
place of the program, what is printed and what is due. On course, printed and
due lines together are the verbose log and then the report (`OnCourse`); after a
failure there is one complaint, due, printed or lost, the report is cut short if
it was begun, and the status is the one that goes with the complaint (`Failed`,
`Due`). One lemma per action shows that it stays so; `ReportIsPrinted`,
`StatusTellsTheOutcome` and `TalliesAreExact` read it off at the end, the last by
a fold over the lines of the log against the counts of the result
(`TalliedIs`, `TalliesAdd`). `VerdictsAgree` uses that the two groups of
tests of the handler, joined, are the list of the command line (`TestsAgree`).
`ExitTellsTheOutcome` lets 64 mean an unreadable source for `vv check` only:
`vv languages` and `vv version` read none, whatever their invocation names, and
end with 64 when the report cannot be written.

The theorems are about the safety part of each specification; assumptions are
the named ones only.

Only model-checked: liveness (`SlotsComeBack`, the fairness part of
`ImplementsAdmission`, `ScanEnds`, `EveryRequestEnds`, `EndsByItself`: the
prover has no `ENABLED`). And the six violations of
section 3 that state what a document says are runs, not theorems.

## 5. What is not modelled

Logging, the values histograms observe, the exporter's text, message texts, JSON
shapes and headers, constant-time comparison. The 405 of a known path (axum's
own) and the warning for short keys (logging). TOML that does not parse, and
clap's grammar beyond exclusions. Figment's syntax: which text is which literal
is a constant (`Literals`), a boolean, a table and a list inside a list are not
told apart, and of two variables whose names differ in case only (both are
lowercased to one key) there is one. UAX #29 beyond word / other codepoints: rules
over three codepoints (`can't`, `3.14`) would need its tables, which are a
crate's. The bytes of a codepoint's folding: one folded letter is one byte. A
panic in a handler (the code constructs no `ApiError::Internal` and has no catch
layer; the models show the slices that could panic do not). Deployment files,
benches and scripts are not part of the program.

## 6. Plan

Done in this order: gate and its proofs; gauge; scan, its declarative
specification and proofs; server over both; configuration, term table, startup;
languages, authentication, command line; proofs of the server as a composition,
of the gauge and of startup; proofs of the scan against the declarative
result, of the command line and of the configuration.

Left:

1. Proofs: that a scan of the command line, given as counts by language, is one
   that `Detection` allows; what a wider abstract specification of the whole
   server (a scan inside each check) would need of both.
2. UAX #29 with rules over three codepoints (MidLetter, digits), to check the
   strict filter on `can't` and `3.14`.
