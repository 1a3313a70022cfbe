------------------------------- MODULE Startup -------------------------------
(***************************************************************************)
(* The life of a server process (main.rs), from the term lists it is       *)
(* built of and the configuration it is given to its last response: build, *)
(* configuration, recorder, languages, AppState, readiness, listener,      *)
(* serving, and the two ways to stop it.  Each step of main is an action;  *)
(* clients and signals come at any time between them.                      *)
(*                                                                         *)
(* SIGINT is handled only once the server runs, by shutdown_signal; before *)
(* that, and SIGTERM at all times, it has its default effect.              *)
(***************************************************************************)
EXTENDS Auth, TermTable

CONSTANTS Vendors,      \* vendored directories the binary may be built from
          Environments, \* the VV_ environments and
          TomlFiles,    \* TOML files it may be started with
          Probes        \* connections a client may make

ASSUME StartupAssumption ==
  /\ Environments \subseteq [Fields -> SUBSET Entries]
  /\ TomlFiles \subseteq [Fields -> SUBSET Value]
  /\ \A raw \in Environments, f \in Fields : \A s, t \in raw[f] : s = t
  /\ \A raw \in TomlFiles, f \in Fields : \A s, t \in raw[f] : s = t

VARIABLES vendor, env, toml,    \* what this process is made of; toml: at most one
          explicit,             \* VV_CONFIG_FILE names the TOML file
          stage,                \* how far main has come
          config,               \* cfg, once loaded
          recorder, gauges,     \* recorder installed, startup gauges in it;
                                \* at most one record of them
          engine,               \* the terms of every loaded language
          ready,                \* AppState.ready
          conn, seen            \* of each probe: its connection, its answer

given == <<vendor, env, toml, explicit>>
app   == <<config, recorder, gauges, engine, ready>>
net   == <<conn, seen>>
vars  == <<given, stage, app, net>>

Failures == {"not_built", "bad_config", "unknown_langs", "not_bound"}
Running  == {"load", "install", "resolve", "record", "ready", "bind",
             "serving", "draining"}
Stopped  == Failures \cup {"killed", "exited"}

Unseen == [up |-> FALSE, gauges |-> {}]

Init == /\ vendor \in Vendors
        /\ env \in Environments
        /\ toml \in {{}} \cup {{t} : t \in TomlFiles}
        /\ explicit \in BOOLEAN
        /\ stage = "build"
        /\ config = {}
        /\ recorder = FALSE
        /\ gauges = {}
        /\ engine = << >>
        /\ ready = FALSE
        /\ conn = [p \in Probes |-> "none"]
        /\ seen = [p \in Probes |-> Unseen]

Goto(from, to) == /\ stage = from
                  /\ stage' = to
                  /\ UNCHANGED <<given, net>>
-------------------------------------------------------------------------------
Build == /\ Goto("build", IF Builds(vendor) THEN "load" ELSE "not_built")
         /\ UNCHANGED app

(* build_figment, extract and assemble. *)
NoField == [f \in Fields |-> {}]
Raw == merge(IF toml = {} THEN NoField ELSE CHOOSE t \in toml : TRUE,
             [f \in Fields |-> {env_value(e) : e \in env[f]}])

load == IF (explicit /\ toml = {}) \/ ~extracts(Raw) THEN {} ELSE assemble(Raw)

Load == /\ Goto("load", IF load = {} THEN "bad_config" ELSE "install")
        /\ config' = load
        /\ UNCHANGED <<recorder, gauges, engine, ready>>

InstallRecorder == /\ Goto("install", "resolve")
                   /\ recorder' = TRUE
                   /\ UNCHANGED <<config, gauges, engine, ready>>

cfg == CHOOSE c \in config : TRUE

(* resolve_loaded_langs: all compiled languages, or the ones listed if     *)
(* each of them is compiled.                                               *)
resolve_loaded_langs_Drops(langs) ==  \* defect: unknown codes are dropped
  IF langs = {} THEN {ALLOWLIST} ELSE {UNION {ToSet(l) : l \in langs} \cap ALLOWLIST}

resolve_loaded_langs(langs) ==
  IF langs = {} THEN {ALLOWLIST}
                ELSE {codes \in {ToSet(l) : l \in langs} : codes \subseteq ALLOWLIST}

ResolveLangs ==
  LET loaded == resolve_loaded_langs(cfg.langs)
  IN  /\ Goto("resolve", IF loaded = {} THEN "unknown_langs" ELSE "record")
      /\ engine' = [l \in UNION loaded |-> load_terms(vendor)[l]]
      /\ UNCHANGED <<config, recorder, gauges, ready>>

(* A gauge set before a recorder is installed goes nowhere. *)
RecordStartup == /\ Goto("record", "ready")
                 /\ gauges' = IF recorder
                               THEN {[languages_loaded |-> Cardinality(DOMAIN engine),
                                      max_inflight |-> cfg.max_inflight]}
                               ELSE gauges
                 /\ UNCHANGED <<config, recorder, engine, ready>>

SetReady_Forgotten ==                 \* defect: the flag is never flipped
  /\ Goto("ready", "bind")
  /\ UNCHANGED app

SetReady == /\ Goto("ready", "bind")
            /\ ready' = TRUE
            /\ UNCHANGED <<config, recorder, gauges, engine>>

Bind == /\ \/ Goto("bind", "serving")
           \/ Goto("bind", "not_bound")
        /\ UNCHANGED app
-------------------------------------------------------------------------------
Listening == stage = "serving"
At(state) == {p \in Probes : conn[p] = state}

(* A client's connection is queued at the listener until the accept loop   *)
(* takes it and its request; that is answered, or the client goes.         *)
Connect(p) == /\ Listening
              /\ conn[p] = "none"
              /\ conn' = [conn EXCEPT ![p] = "queued"]
              /\ UNCHANGED <<given, stage, app, seen>>

Accept(p) == /\ Listening
             /\ conn[p] = "queued"
             /\ conn' = [conn EXCEPT ![p] = "open"]
             /\ UNCHANGED <<given, stage, app, seen>>

(* What GET /readyz and GET /metrics say at this moment. *)
Respond(p) == /\ stage \in {"serving", "draining"}
              /\ conn[p] = "open"
              /\ conn' = [conn EXCEPT ![p] = "answered"]
              /\ seen' = [seen EXCEPT ![p] = [up |-> ready, gauges |-> gauges]]
              /\ UNCHANGED <<given, stage, app>>

HangUp(p) == /\ stage \in {"serving", "draining"}
             /\ conn[p] = "open"
             /\ conn' = [conn EXCEPT ![p] = "lost"]
             /\ UNCHANGED <<given, stage, app, seen>>

(* with_graceful_shutdown: the listener is closed, which drops what it has *)
(* not handed over; the open connections are waited for.                   *)
Interrupt_Aborts ==                   \* defect: the open connections go, too
  /\ stage = "serving"
  /\ stage' = "draining"
  /\ conn' = [p \in Probes |-> IF conn[p] = "answered" THEN "answered" ELSE "lost"]
  /\ UNCHANGED <<given, app, seen>>

Interrupt == /\ stage = "serving"
             /\ stage' = "draining"
             /\ conn' = [p \in Probes |-> IF conn[p] = "queued" THEN "lost" ELSE conn[p]]
             /\ UNCHANGED <<given, app, seen>>

Drained == /\ At("open") = {}
           /\ Goto("draining", "exited")
           /\ UNCHANGED app

(* SIGTERM, or SIGINT before there is a handler for it. *)
Kill == /\ stage \in Running
        /\ stage' = "killed"
        /\ conn' = [p \in Probes |-> IF conn[p] \in {"queued", "open"} THEN "lost"
                                                                       ELSE conn[p]]
        /\ UNCHANGED <<given, app, seen>>

MainStep == \/ Build \/ Load \/ InstallRecorder \/ ResolveLangs \/ RecordStartup
            \/ SetReady \/ Bind \/ Drained

Next == \/ MainStep \/ Interrupt \/ Kill
        \/ \E p \in Probes : Connect(p) \/ Accept(p) \/ Respond(p) \/ HangUp(p)

(* An open connection may stay for ever: the server sets its clients no    *)
(* limit, before an interrupt or after.                                    *)
Spec == Init /\ [][Next]_vars
-------------------------------------------------------------------------------
(* The type of the state.  No automaton is built of an empty set of terms, *)
(* and none of an empty term, which would hit everywhere with length zero  *)
(* and make widen_to_source look at the byte before the hit.               *)
TypeOK ==
  /\ vendor \in Vendors /\ env \in Environments
  /\ \A t \in toml : t \in TomlFiles
  /\ explicit \in BOOLEAN
  /\ stage \in {"build"} \cup Running \cup Stopped
  /\ {recorder, ready} \subseteq BOOLEAN
  /\ DOMAIN engine \subseteq ALLOWLIST
  /\ \A l \in DOMAIN engine : engine[l] # {} /\ << >> \notin engine[l]
  /\ conn \in [Probes -> {"none", "queued", "open", "answered", "lost"}]
  /\ \A p \in Probes : seen[p].up \in BOOLEAN

(* What the operator wrote for a field, as figment has it: the variable if *)
(* there is one, or else the file's value.  Of a list field, its items, of *)
(* a plain one, its text.                                                  *)
Written(f) == IF env[f] # {} THEN {env_value(e) : e \in env[f]}
                             ELSE UNION {t[f] : t \in toml}
Items(f)   == {IF v.form = "list" THEN [i \in DOMAIN v.items |-> v.items[i].of]
                                  ELSE Split[v.of] : v \in Written(f)}

TextOf(f)  == {v.of : v \in {w \in Written(f) : w.form # "list"}}

Clean(s)     == {Trimmed[e] : e \in ToSet(s)}
CleanCodes(s) == {Lowered[e] : e \in Clean(s)}

BadBuckets(s) ==
  LET t == [i \in DOMAIN s |-> Trimmed[s[i]]]
  IN  \/ \E i \in DOMAIN t : t[i] \notin DOMAIN Seconds
      \/ \E i, j \in DOMAIN t : i < j /\ Seconds[t[i]] >= Seconds[t[j]]

(* A value that is not what its field asks for: text, or a list of texts   *)
(* only, for a list; text for the address; a count for the cap.            *)
NotText(v) == v.form \in {"char", "number", "other"}

WrongForm(f) ==
  \E v \in Written(f) :
    \/ f \in ListFields /\ NotText(v)
    \/ f \in ListFields /\ v.form = "list" /\ \E i \in DOMAIN v.items : NotText(v.items[i])
    \/ f = "listen_addr" /\ v.form \in {"number", "other", "list"}
    \/ f = "max_inflight" /\ ~(v.form = "number" /\ v.of \in DOMAIN Usize)

WrongConfig == \/ explicit /\ toml = {}
               \/ \E f \in Fields : WrongForm(f)
               \/ Written("api_keys") = {}
               \/ \E f \in ListFields : \E s \in Items(f) : s = <<>> \/ Blank \in Clean(s)
               \/ \E s \in Items("histogram_buckets") : BadBuckets(s)

UnknownLangs == \E s \in Items("langs") : ~(CleanCodes(s) \subseteq ALLOWLIST)

(* A process refuses to start exactly for the reasons DESIGN.md:184-189    *)
(* gives (no key, a blank entry, buckets that do not ascend, a code that   *)
(* is not compiled in, an explicit file that is missing), which hold for   *)
(* both sources alike, or for one DESIGN does not give: what takes effect  *)
(* is, as figment reads it, of another form than its field.  So one bucket *)
(* or a key of digits in the environment is a reason, and VV_API_KEYS=true *)
(* or a TOML array of numbers, although each is a list of length one or    *)
(* more.  Duplicates, padding, quotes and capitals are no reason, nor is a *)
(* wrong value the environment overrides.                                  *)
RefusedExactlyWhenWrong ==
  /\ stage = "bad_config" => WrongConfig
  /\ stage = "unknown_langs" => UnknownLangs
  /\ stage \in {"serving", "draining", "exited"} => ~WrongConfig /\ ~UnknownLangs

Up == stage \in {"serving", "draining", "exited"}

(* What serves is what the operator wrote, the environment before the      *)
(* file, and a default for what is in neither: the address, the cap, which *)
(* the gauge reports as well; every language listed, no others, with every *)
(* line of its file that is not blank; buckets that ascend.                *)
ServesTheConfiguration ==
  Up =>
    /\ cfg.listen_addr \in IF Written("listen_addr") = {} THEN {DEFAULT_LISTEN_ADDR}
                           ELSE TextOf("listen_addr")
    /\ cfg.max_inflight \in IF Written("max_inflight") = {} THEN {DEFAULT_MAX_INFLIGHT}
                            ELSE {Usize[e] : e \in TextOf("max_inflight") \cap DOMAIN Usize}
    /\ DOMAIN engine = IF Written("langs") = {} THEN ALLOWLIST
                       ELSE UNION {CleanCodes(s) : s \in Items("langs")}
    /\ \A l \in DOMAIN engine : \A line \in ToSet(vendor[l]) :
         Trim(line) = << >> \/ Trim(line) \in engine[l]
    /\ \A b \in cfg.histogram_buckets : \A i, j \in DOMAIN b : i < j => b[i] < b[j]

(* A bearer token is admitted exactly if the operator listed it: any of    *)
(* the keys, in any place of the list; padding does not count, an item of  *)
(* a TOML array that holds a comma is one key, and none of its parts is.   *)
(* A key that is not visible ASCII starts the server and admits nobody.    *)
AdmitsExactlyTheKeys ==
  Up => \A keys \in cfg.api_keys, header \in Headers :
          /\ header = {} <=> check(keys, header) = "missing"
          /\ check(keys, header) = "good" <=>
               \E h \in header : /\ h.scheme \in {"Bearer ", "bearer "}
                                 /\ h.token \notin NonAscii \cup {Blank}
                                 /\ \E s \in Items("api_keys") : h.token \in Clean(s)

(* "The listener binds only after AppState::ready flips to true"           *)
(* (routes/health.rs:3): no answer that leaves the server says not ready,  *)
(* and none lacks the gauges main sets once at startup, or has others than *)
(* the languages and the cap the server works with.                        *)
AnsweredOnlyWhenReady ==
  \A p \in At("answered") :
    /\ seen[p].up
    /\ \E g \in seen[p].gauges : /\ g.languages_loaded = Cardinality(DOMAIN engine)
                                 /\ g.max_inflight = cfg.max_inflight

(* An interrupt costs no open request its answer: only its own client, or  *)
(* a kill, does.                                                           *)
InterruptLosesNoRequest ==
  [][\A p \in Probes : (conn[p] = "open" /\ conn'[p] = "lost")
                          => stage' \in {stage, "killed"}]_vars
=============================================================================
