--------------------------- MODULE Startup_proofs ---------------------------
(***************************************************************************)
(* Theorems about Startup, for any term lists, any configuration and any   *)
(* number of clients.                                                      *)
(*                                                                         *)
(* Three invariants.  Typed: what the later steps of main rely on, that    *)
(* the build was right by the time the engine is made.  Announced: main's  *)
(* steps come in the order which makes the recorder, the gauges and the    *)
(* flag precede every connection.  Decided: the configuration, the         *)
(* languages and the refusals are what the environment, the TOML file and  *)
(* the vendored files give, which do not change; what they give is said by *)
(* the lemmas on the parsers, up to LoadFails and LoadIs.                  *)
(***************************************************************************)
EXTENDS Startup, SharedLemmas

Stages     == {"build"} \cup Running \cup Stopped
ConnStates == {"none", "queued", "open", "answered", "lost"}

Typed ==
  /\ vendor \in Vendors /\ env \in Environments /\ explicit \in BOOLEAN
  /\ \A t \in toml : t \in TomlFiles
  /\ stage \in Stages
  /\ recorder \in BOOLEAN /\ ready \in BOOLEAN
  /\ conn \in [Probes -> ConnStates]
  /\ DOMAIN seen = Probes
  /\ \A p \in Probes : seen[p].up \in BOOLEAN
  /\ stage \notin {"build", "not_built"} => Builds(vendor)
  /\ DOMAIN engine \subseteq ALLOWLIST
  /\ \A l \in DOMAIN engine : engine[l] # {} /\ << >> \notin engine[l]

BeforeServing == {"build", "load", "install", "resolve", "record", "ready", "bind"}

(* The gauges say what the server works with. *)
GaugesIn(gs) == \E g \in gs : /\ g.languages_loaded = Cardinality(DOMAIN engine)
                              /\ g.max_inflight = cfg.max_inflight

Announced ==
  /\ stage \in {"resolve", "record"} => recorder
  /\ stage \in {"ready", "bind"} \cup {"serving", "draining"} => GaugesIn(gauges)
  /\ stage \in {"bind", "serving", "draining"} => ready
  /\ stage \in BeforeServing => \A p \in Probes : conn[p] = "none"
  /\ \A p \in At("answered") : seen[p].up /\ GaugesIn(seen[p].gauges)
-------------------------------------------------------------------------------
(* What is resolved is compiled. *)
LEMMA ResolvedAreCompiled ==
  ASSUME NEW langs PROVE UNION resolve_loaded_langs(langs) \subseteq ALLOWLIST
  BY DEF resolve_loaded_langs

(* A binary that could be built has terms for each of its languages, and   *)
(* the empty term for none.                                                *)
LEMMA BuiltTerms ==
  ASSUME NEW v, Builds(v), NEW l \in ALLOWLIST
  PROVE  load_terms(v)[l] # {} /\ << >> \notin load_terms(v)[l]
  BY DEF Builds, load_terms, Terms

(* The state main begins in has its type.                                  *)
LEMMA InitTyped == Init => Typed
<1> SUFFICES ASSUME Init PROVE Typed
  OBVIOUS
<1>1. DOMAIN << >> = {}
  OBVIOUS
<1>2. QED
  BY <1>1 DEF Init, Typed, Stages, ConnStates, Unseen

(* Every step keeps it; the engine is made once the build was right.       *)
LEMMA StepTyped == Typed /\ [Next]_vars => Typed'
<1> SUFFICES ASSUME Typed, [Next]_vars PROVE Typed'
  OBVIOUS
<1> USE DEF Typed, given, app, net, Goto, Stages, Running, Stopped, Failures
<1>1. CASE Build
  BY <1>1 DEF Build
<1>2. CASE Load
  BY <1>2 DEF Load
<1>3. CASE InstallRecorder
  BY <1>3 DEF InstallRecorder
<1>4. CASE ResolveLangs
  <2> DEFINE loaded == resolve_loaded_langs(cfg.langs)
  <2>1. /\ stage = "resolve" /\ stage' \in {"unknown_langs", "record"}
        /\ engine' = [l \in UNION loaded |-> load_terms(vendor)[l]]
        /\ UNCHANGED <<given, net, config, recorder, gauges, ready>>
    BY <1>4 DEF ResolveLangs
  <2>2. UNION loaded \subseteq ALLOWLIST
    BY ResolvedAreCompiled
  <2>3. \A l \in DOMAIN engine' : engine'[l] # {} /\ << >> \notin engine'[l]
    BY <2>1, <2>2, BuiltTerms
  <2> HIDE DEF loaded
  <2>4. QED
    BY <2>1, <2>2, <2>3
<1>5. CASE RecordStartup
  BY <1>5 DEF RecordStartup
<1>6. CASE SetReady
  BY <1>6 DEF SetReady
<1>7. CASE Bind
  BY <1>7 DEF Bind
<1>8. CASE Drained
  BY <1>8 DEF Drained
<1>9. CASE Interrupt
  BY <1>9 DEF Interrupt, ConnStates
<1>10. CASE Kill
  BY <1>10 DEF Kill, ConnStates
<1>11. ASSUME NEW p \in Probes, Connect(p) PROVE Typed'
  BY <1>11 DEF Connect, ConnStates
<1>12. ASSUME NEW p \in Probes, Accept(p) PROVE Typed'
  BY <1>12 DEF Accept, ConnStates
<1>13. ASSUME NEW p \in Probes, Respond(p) PROVE Typed'
  BY <1>13 DEF Respond, ConnStates
<1>14. ASSUME NEW p \in Probes, HangUp(p) PROVE Typed'
  BY <1>14 DEF HangUp, ConnStates
<1>15. CASE UNCHANGED vars
  BY <1>15 DEF vars
<1>16. QED
  BY <1>1, <1>2, <1>3, <1>4, <1>5, <1>6, <1>7, <1>8, <1>9, <1>10, <1>11, <1>12,
     <1>13, <1>14, <1>15 DEF Next, MainStep
-------------------------------------------------------------------------------
(* Nobody is connected at first.                                           *)
LEMMA InitAnnounced == Init => Announced
  BY DEF Init, Announced, At

(* The steps of main before it serves leave the clients alone, who are not *)
(* there yet.                                                              *)
LEMMA StepAnnounced == Typed /\ Announced /\ [Next]_vars => Announced'
<1> SUFFICES ASSUME Typed, Announced, [Next]_vars PROVE Announced'
  OBVIOUS
<1> USE DEF Announced, BeforeServing, At, given, app, net, Goto, GaugesIn, cfg
<1>1. CASE Build
  BY <1>1 DEF Build
<1>2. CASE Load
  BY <1>2 DEF Load
<1>3. CASE InstallRecorder
  BY <1>3 DEF InstallRecorder
<1>4. CASE ResolveLangs
  BY <1>4 DEF ResolveLangs
<1>5. CASE RecordStartup
  BY <1>5 DEF RecordStartup
<1>6. CASE SetReady
  BY <1>6 DEF SetReady
<1>7. CASE Bind
  BY <1>7 DEF Bind
<1>8. CASE Drained
  BY <1>8 DEF Drained
<1>9. CASE Interrupt
  BY <1>9 DEF Interrupt
<1>10. CASE Kill
  BY <1>10 DEF Kill
<1>11. ASSUME NEW p \in Probes, Connect(p) PROVE Announced'
  BY <1>11 DEF Connect, Listening, Typed
<1>12. ASSUME NEW p \in Probes, Accept(p) PROVE Announced'
  BY <1>12 DEF Accept, Listening, Typed
<1>13. ASSUME NEW p \in Probes, Respond(p) PROVE Announced'
  BY <1>13 DEF Respond, Typed
<1>14. ASSUME NEW p \in Probes, HangUp(p) PROVE Announced'
  BY <1>14 DEF HangUp, Typed
<1>15. CASE UNCHANGED vars
  BY <1>15 DEF vars
<1>16. QED
  BY <1>1, <1>2, <1>3, <1>4, <1>5, <1>6, <1>7, <1>8, <1>9, <1>10, <1>11, <1>12,
     <1>13, <1>14, <1>15 DEF Next, MainStep
-------------------------------------------------------------------------------
(* So both invariants hold at every moment.                                *)
LEMMA Invariants == Spec => [](Typed /\ Announced)
<1>1. Init => Typed /\ Announced
  BY InitTyped, InitAnnounced
<1>2. (Typed /\ Announced) /\ [Next]_vars => (Typed /\ Announced)'
  BY StepTyped, StepAnnounced
<1>3. QED
  BY <1>1, <1>2, PTL DEF Spec

(* The state has its type, and no automaton is built of no term or of an   *)
(* empty one, whatever the vendored files hold and VV_LANGS lists.         *)
THEOREM TypeCorrect == Spec => []TypeOK
<1>1. Typed => TypeOK
  BY DEF Typed, TypeOK, Stages, ConnStates
<1>2. QED
  BY <1>1, Invariants, PTL

(* Every answer says ready, and every scrape has the startup gauges, at    *)
(* whatever step a signal ends main or a client comes and goes.            *)
THEOREM AnswersComeReady == Spec => []AnsweredOnlyWhenReady
<1>1. Announced => AnsweredOnlyWhenReady
  BY DEF Announced, AnsweredOnlyWhenReady, GaugesIn
<1>2. QED
  BY <1>1, Invariants, PTL

(* An interrupt costs no open request its answer. *)
THEOREM NoRequestIsLost == Spec => InterruptLosesNoRequest
<1> DEFINE Fair(p) == (conn[p] = "open" /\ conn'[p] = "lost")
                         => stage' \in {stage, "killed"}
<1>1. ASSUME Typed, [Next]_vars, NEW p \in Probes PROVE Fair(p)
  <2>1. CASE Interrupt
    BY <2>1 DEF Interrupt
  <2>2. CASE Kill
    BY <2>2 DEF Kill
  <2>3. CASE MainStep
    BY <2>3 DEF MainStep, Build, Load, InstallRecorder, ResolveLangs, RecordStartup,
                SetReady, Bind, Drained, Goto, net
  <2>4. ASSUME NEW q \in Probes, Connect(q) \/ Accept(q) \/ Respond(q) \/ HangUp(q)
        PROVE  Fair(p)
    BY <2>4 DEF Connect, Accept, Respond, HangUp
  <2>5. CASE UNCHANGED vars
    BY <2>5 DEF vars
  <2>6. QED
    BY <1>1, <2>1, <2>2, <2>3, <2>4, <2>5 DEF Next
<1>2. Typed /\ [Next]_vars => [\A p \in Probes : Fair(p)]_vars
  BY <1>1
<1>3. QED
  BY <1>2, Invariants, PTL DEF Spec, InterruptLosesNoRequest

-------------------------------------------------------------------------------
(* What a key is compared with: whether any of the keys is the token.      *)
LEMMA MatchedIs ==
  ASSUME NEW keys \in Seq(Entries), NEW token
  PROVE  matched(keys, token) <=> token \in ToSet(keys)
<1> DEFINE n == Len(keys)
           D == 1 .. n
           R(g) == g = [s \in SUBSET D |->
                          IF s = {} THEN FALSE
                          ELSE LET x == Max(s) IN g[s \ {x}] \/ keys[x] = token]
           h == CHOOSE g : R(g)
<1>1. n \in Nat /\ DOMAIN keys = D
  OBVIOUS
<1> DEFINE found == [s \in SUBSET D |-> \E i \in s : keys[i] = token]
<1>2. R(found)
  <2>1. ASSUME NEW s \in SUBSET D
        PROVE  found[s] = IF s = {} THEN FALSE
                          ELSE LET x == Max(s) IN found[s \ {x}] \/ keys[x] = token
    <3>1. CASE s = {}
      BY <3>1
    <3>2. CASE s # {}
      <4>1. PICK x \in s : x = Max(s)
        <5>1. Max(s) \in s
          BY <1>1, <3>2, MaxIs
        <5>2. QED
          BY <5>1
      <4>2. found[s] <=> (found[s \ {x}] \/ keys[x] = token)
        OBVIOUS
      <4>3. found[s] \in BOOLEAN
        OBVIOUS
      <4> HIDE DEF found
      <4>4. QED
        BY <3>2, <4>1, <4>2, <4>3
    <3>3. QED
      BY <3>1, <3>2
  <2>2. found = [s \in SUBSET D |-> found[s]]
    OBVIOUS
  <2> HIDE DEF found
  <2>3. QED
    BY <2>1, <2>2
<1>3. R(h)
  <2> HIDE DEF R
  <2>1. QED
    BY <1>2
<1>4. matched(keys, token) = h[D]
  BY <1>1 DEF matched, FoldLeft, MapThenFoldSet
<1> HIDE DEF h, found
<1>5. h[{}] = FALSE
  BY <1>3
<1> DEFINE P == {k \in Nat : k <= n => (h[1 .. k] <=> \E i \in 1 .. k : keys[i] = token)}
<1>6. 0 \in P
  <2>1. 1 .. 0 = {}
    OBVIOUS
  <2>2. h[1 .. 0] <=> \E i \in 1 .. 0 : keys[i] = token
    BY <1>5, <2>1, Zenon
  <2>3. QED
    BY <2>2
<1>7. ASSUME NEW j \in Nat, j \in P PROVE j + 1 \in P
  <2>1. SUFFICES ASSUME NEW k \in 1 .. n, k = j + 1
                 PROVE  h[1 .. k] <=> \E i \in 1 .. k : keys[i] = token
    BY <1>1
  <2>2. PICK s \in SUBSET D, p \in SUBSET D : /\ s = 1 .. k /\ s # {} /\ Max(s) = k
                                 /\ p = s \ {k} /\ p = 1 .. (k - 1)
    <3>1. /\ 1 .. k \in SUBSET (1 .. n) /\ 1 .. k # {} /\ Max(1 .. k) = k
          /\ (1 .. k) \ {k} = 1 .. (k - 1)
      BY <1>1, FirstPlaces
    <3>2. QED
      BY <3>1
  <2>3. h[s] = LET x == Max(s) IN h[s \ {x}] \/ keys[x] = token
    BY <1>3, <2>2
  <2>4. h[s] = (h[p] \/ keys[k] = token)
    BY <2>2, <2>3, Zenon
  <2>5. p = 1 .. j /\ j <= n
    BY <1>1, <2>1, <2>2
  <2>6. h[p] <=> \E i \in p : keys[i] = token
    BY <1>7, <2>5
  <2>7. (\E i \in s : keys[i] = token) <=> ((\E i \in p : keys[i] = token) \/ keys[k] = token)
    BY <2>1, <2>2, <2>5
  <2>8. QED
    BY <2>2, <2>4, <2>6, <2>7, Zenon
<1>8. n \in P
  <2> HIDE DEF P
  <2>1. QED
    BY <1>1, <1>6, <1>7, Induction
<1>9. matched(keys, token) <=> \E i \in D : keys[i] = token
  BY <1>1, <1>4, <1>8
<1>10. QED
  BY <1>1, <1>9 DEF ToSet

(* Taking the first of each entry loses none. *)
LEMMA DedupedIs ==
  ASSUME NEW S, NEW s \in Seq(S)
  PROVE  Deduped(s) \in Seq(S) /\ ToSet(Deduped(s)) = ToSet(s)
<1> DEFINE n == Len(s)
           D == 1 .. n
           V == Seq(S)
           R(g) == g = [t \in SUBSET D |->
                          IF t = {} THEN << >>
                          ELSE LET x == Max(t)
                               IN  IF s[x] \in ToSet(g[t \ {x}]) THEN g[t \ {x}]
                                   ELSE Append(g[t \ {x}], s[x])]
           h == CHOOSE g : R(g)
           step == [k \in D |-> [v \in V |-> IF s[k] \in ToSet(v) THEN v
                                             ELSE Append(v, s[k])]]
<1>1. n \in Nat /\ DOMAIN s = D /\ \A k \in D : s[k] \in S
  OBVIOUS
<1>2. step \in [1 .. n -> [V -> V]] /\ << >> \in V
  BY <1>1
<1>3. PICK g : FoldTo(n, V, << >>, step, g)
  <2> HIDE DEF step, V, n
  <2>1. QED
    BY <1>1, <1>2, FoldExists
<1>4. /\ g \in [SUBSET D -> V]
      /\ \A t \in SUBSET D : g[t] = IF t = {} THEN << >> ELSE step[Max(t)][g[t \ {Max(t)}]]
  BY <1>3, Zenon DEF FoldTo
<1>5. R(g)
  <2>1. ASSUME NEW t \in SUBSET D
        PROVE  g[t] = IF t = {} THEN << >>
                      ELSE LET x == Max(t)
                           IN  IF s[x] \in ToSet(g[t \ {x}]) THEN g[t \ {x}]
                               ELSE Append(g[t \ {x}], s[x])
    <3>1. CASE t = {}
      BY <1>4, <3>1
    <3>2. CASE t # {}
      <4>1. PICK x \in D : x = Max(t)
        <5>1. Max(t) \in t
          BY <1>1, <3>2, MaxIs
        <5>2. QED
          BY <5>1
      <4>2. g[t \ {x}] \in V
        BY <1>4
      <4>3. g[t] = step[x][g[t \ {x}]]
        BY <1>4, <3>2, <4>1
      <4>4. step[x][g[t \ {x}]] = IF s[x] \in ToSet(g[t \ {x}]) THEN g[t \ {x}]
                                  ELSE Append(g[t \ {x}], s[x])
        <5> HIDE DEF V
        <5>1. QED
          BY <4>2
      <4> HIDE DEF step, V
      <4>5. QED
        BY <3>2, <4>1, <4>3, <4>4
    <3>3. QED
      BY <3>1, <3>2
  <2>2. g = [t \in SUBSET D |-> g[t]]
    BY <1>4
  <2>3. QED
    BY <2>1, <2>2
<1> HIDE DEF step
<1>6. R(h)
  <2> HIDE DEF R
  <2>1. QED
    BY <1>5
<1>7. Deduped(s) = h[D]
  BY <1>1 DEF Deduped, FoldLeft, MapThenFoldSet
<1> HIDE DEF h
<1>8. h[{}] = << >>
  BY <1>6
<1> DEFINE P == {k \in Nat : k <= n => /\ h[1 .. k] \in V
                                       /\ ToSet(h[1 .. k]) = {s[i] : i \in 1 .. k}}
<1>9. 0 \in P
  <2>1. 1 .. 0 = {}
    OBVIOUS
  <2>2. << >> \in V /\ ToSet(<< >>) = {s[i] : i \in {}}
    BY DEF ToSet
  <2>3. h[1 .. 0] \in V /\ ToSet(h[1 .. 0]) = {s[i] : i \in 1 .. 0}
    BY <1>8, <2>1, <2>2, Zenon
  <2>4. QED
    BY <2>3
<1>10. ASSUME NEW j \in Nat, j \in P PROVE j + 1 \in P
  <2>1. SUFFICES ASSUME NEW k \in 1 .. n, k = j + 1
                 PROVE  /\ h[1 .. k] \in V
                        /\ ToSet(h[1 .. k]) = {s[i] : i \in 1 .. k}
    BY <1>1
  <2>2. PICK t \in SUBSET D, p \in SUBSET D : /\ t = 1 .. k /\ t # {} /\ Max(t) = k
                                 /\ p = t \ {k} /\ p = 1 .. (k - 1)
    <3>1. /\ 1 .. k \in SUBSET (1 .. n) /\ 1 .. k # {} /\ Max(1 .. k) = k
          /\ (1 .. k) \ {k} = 1 .. (k - 1)
      BY <1>1, FirstPlaces
    <3>2. QED
      BY <3>1
  <2>3. h[t] = LET x == Max(t)
               IN  IF s[x] \in ToSet(h[t \ {x}]) THEN h[t \ {x}]
                   ELSE Append(h[t \ {x}], s[x])
    BY <1>6, <2>2
  <2>4. h[t] = IF s[k] \in ToSet(h[p]) THEN h[p] ELSE Append(h[p], s[k])
    BY <2>2, <2>3, Zenon
  <2>5. p = 1 .. j /\ j <= n
    BY <1>1, <2>1, <2>2
  <2>6. h[p] \in V /\ ToSet(h[p]) = {s[i] : i \in p}
    BY <1>10, <2>5
  <2>7. s[k] \in S /\ {s[i] : i \in t} = {s[i] : i \in p} \cup {s[k]}
    BY <1>1, <2>1, <2>2, <2>5
  <2>8. ASSUME NEW v \in Seq(S) PROVE ToSet(Append(v, s[k])) = ToSet(v) \cup {s[k]}
    <3>1. /\ Append(v, s[k]) \in Seq(S) /\ Len(Append(v, s[k])) = Len(v) + 1
          /\ DOMAIN Append(v, s[k]) = 1 .. Len(v) + 1 /\ DOMAIN v = 1 .. Len(v)
          /\ Append(v, s[k])[Len(v) + 1] = s[k]
          /\ \A i \in 1 .. Len(v) : Append(v, s[k])[i] = v[i]
      BY <2>7
    <3>2. QED
      BY <3>1 DEF ToSet
  <2>9. h[t] \in V /\ ToSet(h[t]) = {s[i] : i \in t}
    <3>1. CASE s[k] \in ToSet(h[p])
      BY <2>4, <2>6, <2>7, <3>1
    <3>2. CASE s[k] \notin ToSet(h[p])
      <4>1. h[t] = Append(h[p], s[k])
        BY <2>4, <3>2
      <4>2. Append(h[p], s[k]) \in Seq(S)
        BY <2>6, <2>7
      <4>3. QED
        BY <2>6, <2>7, <2>8, <4>1, <4>2, Zenon
    <3>3. QED
      BY <3>1, <3>2
  <2>10. QED
    BY <2>2, <2>9, Zenon
<1>11. n \in P
  <2> HIDE DEF P
  <2>1. QED
    BY <1>1, <1>9, <1>10, Induction
<1>12. h[D] \in V /\ ToSet(h[D]) = {s[i] : i \in D}
  BY <1>1, <1>11
<1>13. QED
  BY <1>1, <1>7, <1>12, Zenon DEF ToSet

-------------------------------------------------------------------------------
(* What the process was given does not change, and the TOML file is one.   *)
Given == /\ env \in Environments
         /\ \A t \in toml : t \in TomlFiles
         /\ \A s, t \in toml : s = t

(* What figment makes of a variable is one of its values.                  *)
LEMMA EnvValue == ASSUME NEW e \in Entries PROVE env_value(e) \in Value
<1>1. CASE e \in DOMAIN Literals
  BY <1>1, LiteralsAssumption DEF env_value
<1>2. CASE e \notin DOMAIN Literals
  <2>1. PICK s \in Entries : env_value(e) = [form |-> "string", of |-> s]
    <3>1. Trimmed[e] \in Entries
      BY ConfigAssumption
    <3>2. QED
      BY <1>2, <3>1 DEF env_value
  <2>2. QED
    BY <2>1 DEF Value, Scalar
<1>3. QED
  BY <1>1, <1>2

(* A value has a list of strings in it.                                    *)
LEMMA IntoVec == ASSUME NEW v \in Value PROVE into_vec(v) \in Seq(Entries)
<1>1. CASE v \in Scalar
  <2>1. v.form # "list" /\ v.of \in Entries
    BY <1>1 DEF Scalar
  <2>2. QED
    BY <2>1, ConfigAssumption DEF into_vec
<1>2. CASE v \in [form : {"list"}, items : Seq(Scalar)]
  <2>1. v.form = "list" /\ v.items \in Seq(Scalar)
    BY <1>2
  <2>2. \A x \in Scalar : x.of \in Entries
    BY DEF Scalar
  <2>3. DOMAIN v.items = 1 .. Len(v.items) /\ \A i \in DOMAIN v.items : v.items[i] \in Scalar
    BY <2>1
  <2>4. QED
    BY <2>1, <2>2, <2>3 DEF into_vec
<1>3. QED
  BY <1>1, <1>2 DEF Value

(* A field as it is parsed is as it was written, at most one value.        *)
LEMMA RawField ==
  ASSUME Given, NEW f \in Fields
  PROVE  /\ Raw[f] = Written(f)
         /\ \A v \in Raw[f] : v \in Value
         /\ \A v, w \in Raw[f] : v = w
<1>1. /\ env[f] \subseteq Entries /\ \A s, t \in env[f] : s = t
      /\ \A t \in toml : t[f] \subseteq Value /\ \A v, w \in t[f] : v = w
  <2>1. env \in [Fields -> SUBSET Entries] /\ \A t \in toml : t \in [Fields -> SUBSET Value]
    BY StartupAssumption DEF Given
  <2>2. QED
    BY <2>1, StartupAssumption DEF Given
<1>2. Raw[f] = IF env[f] # {} THEN {env_value(e) : e \in env[f]}
               ELSE IF toml = {} THEN {} ELSE (CHOOSE t \in toml : TRUE)[f]
  BY DEF Raw, merge, NoField
<1>3. CASE env[f] # {}
  <2>1. Raw[f] = {env_value(e) : e \in env[f]} /\ Written(f) = {env_value(e) : e \in env[f]}
    BY <1>2, <1>3 DEF Written
  <2>2. QED
    BY <1>1, <2>1, EnvValue
<1>4. CASE env[f] = {}
  <2>1. Raw[f] = UNION {t[f] : t \in toml}
    <3>1. CASE toml = {}
      BY <1>2, <1>4, <3>1
    <3>2. ASSUME NEW t \in toml PROVE Raw[f] = UNION {x[f] : x \in toml}
      <4>1. toml = {t}
        BY DEF Given
      <4>2. (CHOOSE x \in toml : TRUE) = t /\ UNION {x[f] : x \in toml} = t[f]
        BY <4>1
      <4>3. QED
        BY <1>2, <1>4, <4>1, <4>2
    <3>3. QED
      BY <3>1, <3>2
  <2>2. \A v \in UNION {t[f] : t \in toml} : \E t \in toml : v \in t[f]
    OBVIOUS
  <2>3. \A v, w \in Raw[f] : v \in Value /\ v = w
    BY <1>1, <2>1, <2>2 DEF Given
  <2>4. QED
    BY <1>4, <2>1, <2>3 DEF Written
<1>5. QED
  BY <1>3, <1>4

(* The items the operator wrote are those the parsers read.                *)
LEMMA ItemsAre ==
  ASSUME Given, NEW f \in Fields
  PROVE  Items(f) = {into_vec(v) : v \in Raw[f]}
  BY RawField DEF Items, into_vec

(* What is kept of a list: all of it, once each, if it has an entry and no *)
(* blank one.                                                              *)
LEMMA KeptIs ==
  ASSUME NEW s \in Seq(Entries)
  PROVE  /\ Kept(s) = {} <=> s = << >> \/ Blank \in ToSet(s)
         /\ \A k \in Kept(s) : k \in Seq(Entries) /\ ToSet(k) = ToSet(s) /\ Blank \notin ToSet(s)
         /\ \A j, k \in Kept(s) : j = k
  BY DedupedIs DEF Kept

(* Trimming an item changes neither the number of the items nor their      *)
(* order.                                                                  *)
LEMMA TrimmedIs ==
  ASSUME NEW v \in Value
  PROVE  /\ TrimmedVec(v) \in Seq(Entries)
         /\ DOMAIN TrimmedVec(v) = DOMAIN into_vec(v)
         /\ \A i \in DOMAIN into_vec(v) : TrimmedVec(v)[i] = Trimmed[into_vec(v)[i]]
         /\ ToSet(TrimmedVec(v)) = Clean(into_vec(v))
         /\ TrimmedVec(v) = << >> <=> into_vec(v) = << >>
<1> DEFINE s == into_vec(v)
<1>1. s \in Seq(Entries)
  BY IntoVec
<1>2. TrimmedVec(v) = [i \in DOMAIN s |-> Trimmed[s[i]]]
  BY DEF TrimmedVec
<1> HIDE DEF s
<1>3. DOMAIN s = 1 .. Len(s) /\ \A i \in DOMAIN s : s[i] \in Entries
  BY <1>1
<1>4. \A i \in DOMAIN s : Trimmed[s[i]] \in Entries
  BY <1>3, ConfigAssumption
<1>5. TrimmedVec(v) \in Seq(Entries)
  BY <1>1, <1>2, <1>3, <1>4
<1>6. ToSet(TrimmedVec(v)) = Clean(s)
  BY <1>2 DEF ToSet, Clean
<1>7. TrimmedVec(v) = << >> <=> s = << >>
  BY <1>1, <1>2, <1>3
<1>8. QED
  BY <1>2, <1>5, <1>6, <1>7 DEF s

(* A list of keys is refused for having no item or a blank one, and gives  *)
(* all of its items.                                                       *)
LEMMA KeysAre ==
  ASSUME NEW v \in Value
  PROVE  /\ parse_api_keys(v) = {} <=> into_vec(v) = << >> \/ Blank \in Clean(into_vec(v))
         /\ \A k \in parse_api_keys(v) :
              /\ k \in Seq(Entries) /\ ToSet(k) = Clean(into_vec(v))
              /\ Blank \notin Clean(into_vec(v))
  BY TrimmedIs, KeptIs DEF parse_api_keys

(* A list of codes likewise, in lower case.                                *)
LEMMA LangsAre ==
  ASSUME NEW v \in Value
  PROVE  /\ parse_langs(v) = {} <=> into_vec(v) = << >> \/ Blank \in Clean(into_vec(v))
         /\ \A l \in parse_langs(v) : ToSet(l) = CleanCodes(into_vec(v))
<1> DEFINE t == TrimmedVec(v)
           low == [i \in DOMAIN t |-> Lowered[t[i]]]
<1>1. /\ t \in Seq(Entries) /\ ToSet(t) = Clean(into_vec(v))
      /\ t = << >> <=> into_vec(v) = << >>
  BY TrimmedIs
<1>2. parse_langs(v) = Kept(low)
  BY DEF parse_langs
<1> HIDE DEF t
<1>3. DOMAIN t = 1 .. Len(t) /\ \A i \in DOMAIN t : t[i] \in Entries
  BY <1>1
<1>4. \A i \in DOMAIN t : /\ Lowered[t[i]] \in Entries
                          /\ Lowered[t[i]] = Blank <=> t[i] = Blank
  BY <1>3, ConfigAssumption
<1>5. low \in Seq(Entries) /\ (low = << >> <=> t = << >>)
  BY <1>1, <1>3, <1>4
<1>6. Blank \in ToSet(low) <=> Blank \in ToSet(t)
  BY <1>4 DEF ToSet
<1>7. ToSet(low) = CleanCodes(into_vec(v))
  <2>1. ToSet(low) = {Lowered[e] : e \in ToSet(t)}
    BY DEF ToSet
  <2>2. QED
    BY <1>1, <2>1 DEF CleanCodes
<1> HIDE DEF low
<1>8. QED
  BY <1>1, <1>2, <1>5, <1>6, <1>7, KeptIs

(* Buckets are refused just when two of them, next to each other or not,   *)
(* do not ascend, or one is no number.                                     *)
LEMMA BucketsAre ==
  ASSUME NEW v \in Value
  PROVE  /\ parse_histogram_buckets(v) = {}
              <=> into_vec(v) = << >> \/ BadBuckets(into_vec(v))
         /\ Blank \in Clean(into_vec(v)) => BadBuckets(into_vec(v))
         /\ \A b \in parse_histogram_buckets(v) : \A i, j \in DOMAIN b : i < j => b[i] < b[j]
<1> DEFINE t == TrimmedVec(v)
           s == into_vec(v)
           ascends == \A i \in 2 .. Len(t) : Seconds[t[i - 1]] < Seconds[t[i]]
           numbers == ToSet(t) \subseteq DOMAIN Seconds
<1>1. t \in Seq(Entries) /\ ToSet(t) = Clean(s) /\ (t = << >> <=> s = << >>)
      /\ DOMAIN t = DOMAIN s /\ \A i \in DOMAIN s : t[i] = Trimmed[s[i]]
  BY TrimmedIs
<1>2. BadBuckets(s) <=> \/ \E i \in DOMAIN t : t[i] \notin DOMAIN Seconds
                        \/ \E i, j \in DOMAIN t : i < j /\ Seconds[t[i]] >= Seconds[t[j]]
  BY <1>1 DEF BadBuckets
<1>3. parse_histogram_buckets(v) = IF t # << >> /\ numbers /\ ascends
                                   THEN {[i \in DOMAIN t |-> Seconds[t[i]]]} ELSE {}
  BY DEF parse_histogram_buckets
<1> HIDE DEF t, s
<1>4. DOMAIN t = 1 .. Len(t) /\ Len(t) \in Nat
  BY <1>1
<1>5. numbers <=> \A i \in DOMAIN t : t[i] \in DOMAIN Seconds
  BY DEF ToSet
<1>6. numbers => \A i \in DOMAIN t : Seconds[t[i]] \in Int
  BY <1>5, ConfigAssumption
<1>7. ASSUME numbers, ascends
      PROVE  \A i, j \in DOMAIN t : i < j => Seconds[t[i]] < Seconds[t[j]]
  <2> DEFINE P == {j \in Nat : \A i \in 1 .. Len(t) :
                      i < j /\ j <= Len(t) => Seconds[t[i]] < Seconds[t[j]]}
  <2>1. 0 \in P
    OBVIOUS
  <2>2. ASSUME NEW k \in Nat, k \in P PROVE k + 1 \in P
    <3>1. SUFFICES ASSUME NEW i \in 1 .. Len(t), i < k + 1, k + 1 <= Len(t)
                   PROVE  Seconds[t[i]] < Seconds[t[k + 1]]
      OBVIOUS
    <3>2. k \in 1 .. Len(t) /\ k + 1 \in 2 .. Len(t) /\ (k + 1) - 1 = k
      BY <1>4, <3>1
    <3>3. Seconds[t[k]] < Seconds[t[k + 1]]
      BY <1>7, <3>2
    <3>4. i = k \/ Seconds[t[i]] < Seconds[t[k]]
      BY <2>2, <3>1, <3>2
    <3>5. Seconds[t[i]] \in Int /\ Seconds[t[k]] \in Int /\ Seconds[t[k + 1]] \in Int
      BY <1>4, <1>6, <1>7, <3>2
    <3>6. QED
      BY <3>3, <3>4, <3>5
  <2>3. Nat \subseteq P
    <3> HIDE DEF P
    <3>1. QED
      BY <2>1, <2>2, Induction
  <2>4. \A j \in DOMAIN t : j \in P /\ j <= Len(t)
    BY <1>4, <2>3
  <2>5. QED
    BY <1>4, <2>4
<1>8. ASSUME numbers, ~ascends
      PROVE  \E i, j \in DOMAIN t : i < j /\ Seconds[t[i]] >= Seconds[t[j]]
  <2>1. PICK j \in 2 .. Len(t) : ~(Seconds[t[j - 1]] < Seconds[t[j]])
    BY <1>8
  <2>2. j \in DOMAIN t /\ j - 1 \in DOMAIN t /\ j - 1 < j
    BY <1>4
  <2>3. Seconds[t[j - 1]] >= Seconds[t[j]]
    BY <1>6, <1>8, <2>1, <2>2
  <2>4. QED
    BY <2>2, <2>3
<1>9. ASSUME numbers, ascends, NEW i \in DOMAIN t, NEW j \in DOMAIN t, i < j
      PROVE  ~(Seconds[t[i]] >= Seconds[t[j]])
  <2>1. Seconds[t[i]] < Seconds[t[j]] /\ Seconds[t[i]] \in Int /\ Seconds[t[j]] \in Int
    BY <1>6, <1>7, <1>9
  <2>2. QED
    BY <2>1
<1>10. BadBuckets(s) <=> ~(numbers /\ ascends)
  <2> HIDE DEF ascends, numbers
  <2>1. QED
    BY <1>2, <1>5, <1>8, <1>9
<1>11. Blank \in Clean(s) => ~numbers
  BY <1>1, ConfigAssumption
<1>12. ASSUME NEW b \in parse_histogram_buckets(v), NEW i \in DOMAIN b, NEW j \in DOMAIN b,
              i < j
       PROVE  b[i] < b[j]
  <2>1. numbers /\ ascends /\ b = [k \in DOMAIN t |-> Seconds[t[k]]]
    BY <1>3
  <2> HIDE DEF ascends, numbers
  <2>2. QED
    BY <1>7, <1>12, <2>1
<1>13. parse_histogram_buckets(v) = {} <=> s = << >> \/ BadBuckets(s)
  <2> HIDE DEF ascends, numbers
  <2>1. QED
    BY <1>1, <1>3, <1>10
<1>14. Blank \in Clean(s) => BadBuckets(s)
  <2> HIDE DEF ascends, numbers
  <2>1. QED
    BY <1>10, <1>11
<1>15. QED
  BY <1>12, <1>13, <1>14 DEF s

-------------------------------------------------------------------------------
(* The types are right just when no value is of the wrong form.            *)
LEMMA ExtractsIs == ASSUME Given PROVE extracts(Raw) <=> ~\E f \in Fields : WrongForm(f)
<1> DEFINE Fits(f, v) == IF f \in ListFields THEN StringOrList(v)
                         ELSE IF f = "listen_addr" THEN v.form \in {"string", "char"}
                         ELSE v.form = "number" /\ v.of \in DOMAIN Usize
<1>1. /\ Fields = ListFields \cup {"listen_addr", "max_inflight"}
      /\ "listen_addr" \notin ListFields /\ "max_inflight" \notin ListFields
  BY DEF Fields, ListFields
<1>2. extracts(Raw) <=> \A f \in Fields : \A v \in Raw[f] : Fits(f, v)
  BY <1>1 DEF extracts
<1>3. ASSUME NEW v \in Value
      PROVE  /\ v.form \in {"string", "char", "number", "other", "list"}
             /\ v.form = "list" => \A i \in DOMAIN v.items :
                                     v.items[i].form \in {"string", "char", "number", "other"}
  <2>1. CASE v \in Scalar
    BY <2>1 DEF Scalar
  <2>2. CASE v \in [form : {"list"}, items : Seq(Scalar)]
    <3>1. \A x \in Scalar : x.form \in {"string", "char", "number", "other"}
      BY DEF Scalar
    <3>2. v.form = "list" /\ \A i \in DOMAIN v.items : v.items[i] \in Scalar
      BY <2>2
    <3>3. QED
      BY <3>1, <3>2
  <2>3. QED
    BY <2>1, <2>2 DEF Value
<1>4. ASSUME NEW f \in Fields, NEW v \in Value
      PROVE  ~Fits(f, v)
               <=> \/ f \in ListFields /\ NotText(v)
                   \/ /\ f \in ListFields /\ v.form = "list"
                      /\ \E i \in DOMAIN v.items : NotText(v.items[i])
                   \/ f = "listen_addr" /\ v.form \in {"number", "other", "list"}
                   \/ f = "max_inflight" /\ ~(v.form = "number" /\ v.of \in DOMAIN Usize)
  <2>1. CASE f \in ListFields
    BY <1>1, <1>3, <2>1 DEF StringOrList, NotText
  <2>2. CASE f = "listen_addr"
    BY <1>1, <1>3, <2>2
  <2>3. CASE f = "max_inflight"
    BY <1>1, <2>3
  <2>4. QED
    BY <1>1, <2>1, <2>2, <2>3
<1> HIDE DEF Fits
<1>5. ASSUME NEW f \in Fields
      PROVE  WrongForm(f) <=> \E v \in Raw[f] : ~Fits(f, v)
  <2>1. Raw[f] = Written(f) /\ \A v \in Raw[f] : v \in Value
    BY RawField
  <2>2. QED
    BY <1>4, <2>1 DEF WrongForm
<1>6. QED
  BY <1>2, <1>5

(* Of the one value a list field has, what its parser makes.               *)
Parsed(f, v) == CASE f = "api_keys" -> parse_api_keys(v)
                  [] f = "langs" -> parse_langs(v)
                  [] f = "histogram_buckets" -> parse_histogram_buckets(v)

Wrong(f, s) == s = << >> \/ Blank \in Clean(s) \/ (f = "histogram_buckets" /\ BadBuckets(s))

(* A list field parses to something just when it is there and nothing is   *)
(* wrong with it.                                                          *)
LEMMA ParsedIs ==
  ASSUME Given, NEW f \in ListFields
  PROVE  /\ UNION {Parsed(f, v) : v \in Raw[f]} = {}
              <=> Written(f) = {} \/ \E s \in Items(f) : Wrong(f, s)
         /\ \A x \in UNION {Parsed(f, v) : v \in Raw[f]} :
              \E v \in Raw[f] : v \in Value /\ x \in Parsed(f, v)
<1>1. f \in Fields
  BY DEF Fields
<1>2. ASSUME NEW v \in Value PROVE Parsed(f, v) = {} <=> Wrong(f, into_vec(v))
  <2>1. CASE f = "api_keys"
    BY <2>1, KeysAre DEF Parsed, Wrong
  <2>2. CASE f = "langs"
    BY <2>2, LangsAre DEF Parsed, Wrong
  <2>3. CASE f = "histogram_buckets"
    BY <2>3, BucketsAre DEF Parsed, Wrong
  <2>4. QED
    BY <2>1, <2>2, <2>3 DEF ListFields
<1>3. CASE Raw[f] = {}
  <2>1. Written(f) = {}
    BY <1>1, <1>3, RawField
  <2>2. UNION {Parsed(f, v) : v \in Raw[f]} = {}
    BY <1>3
  <2>3. QED
    BY <1>3, <2>1, <2>2
<1>4. ASSUME NEW v \in Raw[f]
      PROVE  UNION {Parsed(f, w) : w \in Raw[f]} = {}
               <=> Written(f) = {} \/ \E s \in Items(f) : Wrong(f, s)
  <2>1. v \in Value /\ Written(f) # {} /\ \A w \in Raw[f] : w = v
    BY <1>1, <1>4, RawField
  <2>2. Raw[f] = {v}
    BY <2>1
  <2>3. UNION {Parsed(f, w) : w \in Raw[f]} = Parsed(f, v)
    BY <2>2
  <2>4. \A s \in Items(f) : s = into_vec(v)
    BY <1>1, <2>1, ItemsAre
  <2>5. into_vec(v) \in Items(f)
    BY <1>1, ItemsAre
  <2>6. QED
    BY <1>2, <2>1, <2>3, <2>4, <2>5
<1>5. \A v \in Raw[f] : v \in Value
  BY <1>1, RawField
<1>6. QED
  BY <1>3, <1>4, <1>5

(* Nothing is loaded just when something is wrong ...                      *)
LEMMA LoadFails == ASSUME Given PROVE load = {} <=> WrongConfig
<1> DEFINE Of(f) == UNION {Parsed(f, v) : v \in Raw[f]}
<1>1. /\ Of("api_keys") = UNION {parse_api_keys(v) : v \in Raw.api_keys}
      /\ Of("langs") = UNION {parse_langs(v) : v \in Raw.langs}
      /\ Of("histogram_buckets")
           = UNION {parse_histogram_buckets(v) : v \in Raw.histogram_buckets}
  BY DEF Parsed
<1> HIDE DEF Of
<1>2. assemble(Raw) = {} <=> ~ /\ Of("api_keys") # {}
                               /\ ParsedIfGiven(Raw.langs, Of("langs"))
                               /\ ParsedIfGiven(Raw.histogram_buckets, Of("histogram_buckets"))
  BY <1>1 DEF assemble
<1>3. ASSUME NEW f \in ListFields
      PROVE  Of(f) = {} <=> Written(f) = {} \/ \E s \in Items(f) : Wrong(f, s)
  BY ParsedIs DEF Of
<1>4. ASSUME NEW f \in ListFields
      PROVE  Written(f) = Raw[f] /\ (Written(f) = {} => Items(f) = {})
  <2>1. f \in Fields
    BY DEF Fields
  <2>2. Written(f) = Raw[f]
    BY <2>1, RawField
  <2>3. QED
    BY <2>1, <2>2, ItemsAre
<1>5. ListFields = {"api_keys", "langs", "histogram_buckets"}
  BY DEF ListFields
<1>6. assemble(Raw) = {}
        <=> Written("api_keys") = {} \/ \E f \in ListFields : \E s \in Items(f) : Wrong(f, s)
  <2>1. /\ Of("api_keys") = {} <=> Written("api_keys") = {}
                                   \/ \E s \in Items("api_keys") : Wrong("api_keys", s)
        /\ ParsedIfGiven(Raw.langs, Of("langs"))
             <=> ~ \E s \in Items("langs") : Wrong("langs", s)
        /\ ParsedIfGiven(Raw.histogram_buckets, Of("histogram_buckets"))
             <=> ~ \E s \in Items("histogram_buckets") : Wrong("histogram_buckets", s)
    BY <1>3, <1>4, <1>5 DEF ParsedIfGiven
  <2>2. QED
    BY <1>2, <1>5, <2>1
<1>7. (\E f \in ListFields : \E s \in Items(f) : Wrong(f, s))
        <=> \/ \E f \in ListFields : \E s \in Items(f) : s = << >> \/ Blank \in Clean(s)
            \/ \E s \in Items("histogram_buckets") : BadBuckets(s)
  BY <1>5 DEF Wrong
<1>8. load = {} <=> (explicit /\ toml = {}) \/ ~extracts(Raw) \/ assemble(Raw) = {}
  BY DEF load
<1>9. QED
  BY <1>6, <1>7, <1>8, ExtractsIs DEF WrongConfig

(* ... and what is loaded is what the operator wrote.                      *)
AsWritten(c) ==
  /\ c.listen_addr \in IF Written("listen_addr") = {} THEN {DEFAULT_LISTEN_ADDR}
                       ELSE TextOf("listen_addr")
  /\ c.max_inflight \in IF Written("max_inflight") = {} THEN {DEFAULT_MAX_INFLIGHT}
                        ELSE {Usize[e] : e \in TextOf("max_inflight") \cap DOMAIN Usize}
  /\ \A k \in c.api_keys : /\ k \in Seq(Entries) /\ Blank \notin ToSet(k)
                           /\ \A s \in Items("api_keys") : ToSet(k) = Clean(s)
                           /\ Items("api_keys") # {}
  /\ c.langs = {} <=> Written("langs") = {}
  /\ \A l \in c.langs : \A s \in Items("langs") : ToSet(l) = CleanCodes(s)
  /\ \A j, l \in c.langs : ToSet(j) = ToSet(l)
  /\ Items("langs") # {} <=> Written("langs") # {}
  /\ \A b \in c.histogram_buckets : \A i, j \in DOMAIN b : i < j => b[i] < b[j]

(* What is loaded is as it was written, and it is one.                     *)
LEMMA LoadIs ==
  ASSUME Given
  PROVE  /\ \A c, d \in load : c = d
         /\ \A c \in load : AsWritten(c)
<1>1. \A c, d \in load : c = d
  BY DEF load, assemble
<1>2. ASSUME NEW c \in load PROVE AsWritten(c)
  <2>1. c \in assemble(Raw)
    BY DEF load
  <2>2. /\ c.listen_addr = IF Raw["listen_addr"] = {} THEN DEFAULT_LISTEN_ADDR
                           ELSE (CHOOSE v \in Raw["listen_addr"] : TRUE).of
        /\ c.max_inflight = IF Raw["max_inflight"] = {} THEN DEFAULT_MAX_INFLIGHT
                            ELSE Usize[(CHOOSE v \in Raw["max_inflight"] : TRUE).of]
        /\ c.api_keys = UNION {parse_api_keys(v) : v \in Raw["api_keys"]}
        /\ c.langs = UNION {parse_langs(v) : v \in Raw["langs"]}
        /\ c.histogram_buckets
             = UNION {parse_histogram_buckets(v) : v \in Raw["histogram_buckets"]}
        /\ Raw["langs"] # {} => c.langs # {}
    BY <2>1 DEF assemble, ParsedIfGiven
  <2>3. {"listen_addr", "max_inflight", "api_keys", "langs", "histogram_buckets"}
          \subseteq Fields
    BY DEF Fields, ListFields
  <2>4. ASSUME NEW f \in Fields
        PROVE  /\ Written(f) = Raw[f]
               /\ Items(f) # {} <=> Written(f) # {}
               /\ \A v \in Raw[f] : v \in Value /\ \A s \in Items(f) : s = into_vec(v)
    BY RawField, ItemsAre
  <2>5. c.listen_addr \in IF Written("listen_addr") = {} THEN {DEFAULT_LISTEN_ADDR}
                          ELSE TextOf("listen_addr")
    <3>1. \A v \in Raw["listen_addr"] : v.form # "list"
      BY DEF load, extracts
    <3>2. QED
      BY <2>2, <2>3, <2>4, <3>1 DEF TextOf
  <2>6. c.max_inflight \in IF Written("max_inflight") = {} THEN {DEFAULT_MAX_INFLIGHT}
                           ELSE {Usize[e] : e \in TextOf("max_inflight") \cap DOMAIN Usize}
    <3>1. \A v \in Raw["max_inflight"] : v.form # "list" /\ v.of \in DOMAIN Usize
      BY DEF load, extracts
    <3>2. QED
      BY <2>2, <2>3, <2>4, <3>1 DEF TextOf
  <2>7. ASSUME NEW k \in c.api_keys
        PROVE  /\ k \in Seq(Entries) /\ Blank \notin ToSet(k)
               /\ \A s \in Items("api_keys") : ToSet(k) = Clean(s)
               /\ Items("api_keys") # {}
    <3>1. PICK v \in Raw["api_keys"] : k \in parse_api_keys(v)
      BY <2>2
    <3>2. QED
      BY <2>3, <2>4, <3>1, KeysAre
  <2>8. ASSUME NEW l \in c.langs
        PROVE  \E v \in Raw["langs"] : ToSet(l) = CleanCodes(into_vec(v))
    <3>1. PICK v \in Raw["langs"] : l \in parse_langs(v)
      BY <2>2
    <3>2. QED
      BY <2>3, <2>4, <3>1, LangsAre
  <2>9. \A v, w \in Raw["langs"] : v = w
    BY <2>3, RawField
  <2>10. c.langs = {} <=> Written("langs") = {}
    BY <2>2, <2>3, <2>4
  <2>11. \A l \in c.langs : \A s \in Items("langs") : ToSet(l) = CleanCodes(s)
    BY <2>3, <2>4, <2>8
  <2>12. \A j, l \in c.langs : ToSet(j) = ToSet(l)
    BY <2>8, <2>9
  <2>13. ASSUME NEW b \in c.histogram_buckets, NEW i \in DOMAIN b, NEW j \in DOMAIN b, i < j
         PROVE  b[i] < b[j]
    <3>1. PICK v \in Raw["histogram_buckets"] : b \in parse_histogram_buckets(v)
      BY <2>2
    <3>2. v \in Value
      BY <2>3, <2>4
    <3>3. QED
      BY <2>13, <3>1, <3>2, BucketsAre
  <2>14. Items("langs") # {} <=> Written("langs") # {}
    BY <2>3, <2>4
  <2>15. QED
    BY <2>5, <2>6, <2>7, <2>10, <2>11, <2>12, <2>13, <2>14 DEF AsWritten
<1>3. QED
  BY <1>1, <1>2

-------------------------------------------------------------------------------
Loaded   == {"install", "resolve", "unknown_langs", "record", "ready", "bind",
             "not_bound", "serving", "draining", "exited"}
Resolved == Loaded \ {"install", "resolve", "unknown_langs"}

(* What main has decided so far is what it was given decides. *)
Decided ==
  /\ stage = "bad_config" => load = {}
  /\ stage \in Loaded => config = load /\ load # {}
  /\ stage = "unknown_langs" => resolve_loaded_langs(cfg.langs) = {}
  /\ stage \in Resolved =>
       /\ resolve_loaded_langs(cfg.langs) # {}
       /\ engine = [l \in UNION resolve_loaded_langs(cfg.langs) |-> load_terms(vendor)[l]]

(* Nothing is decided yet.                                                 *)
LEMMA InitDecided == Init => Given /\ Decided
<1> SUFFICES ASSUME Init PROVE Given /\ Decided
  OBVIOUS
<1>1. stage = "build" /\ Given
  BY DEF Init, Given
<1>2. QED
  BY <1>1 DEF Decided, Loaded, Resolved

(* What was given stays, so what is decided of it does.                    *)
LEMMA StepDecided == Given /\ Decided /\ [Next]_vars => (Given /\ Decided)'
<1> SUFFICES ASSUME Given, Decided, [Next]_vars PROVE (Given /\ Decided)'
  OBVIOUS
<1>1. given' = given
  BY DEF Next, MainStep, Build, Load, InstallRecorder, ResolveLangs, RecordStartup,
         SetReady, Bind, Drained, Interrupt, Kill, Connect, Accept, Respond, HangUp,
         Goto, vars
<1>2. Given' /\ load' = load /\ vendor' = vendor
  BY <1>1 DEF given, Given, load, Raw
<1> HIDE DEF load
<1> USE <1>2 DEF Decided, Loaded, Resolved, cfg
<1>3. CASE Load
  BY <1>3 DEF Load, Goto
<1>4. CASE ResolveLangs
  <2> DEFINE loaded == resolve_loaded_langs(cfg.langs)
  <2>1. /\ stage = "resolve" /\ stage' = IF loaded = {} THEN "unknown_langs" ELSE "record"
        /\ engine' = [l \in UNION loaded |-> load_terms(vendor)[l]]
        /\ config' = config
    BY <1>4 DEF ResolveLangs, Goto
  <2>2. loaded' = loaded
    BY <2>1
  <2>3. QED
    BY <2>1, <2>2
<1>5. CASE Build \/ InstallRecorder \/ RecordStartup \/ SetReady \/ Bind \/ Drained
           \/ Interrupt \/ Kill
  BY <1>5 DEF Build, InstallRecorder, RecordStartup, SetReady, Bind, Drained, Interrupt,
              Kill, Goto, app
<1>6. ASSUME NEW p \in Probes, Connect(p) \/ Accept(p) \/ Respond(p) \/ HangUp(p)
      PROVE  Decided'
  BY <1>6 DEF Connect, Accept, Respond, HangUp, app
<1>7. CASE UNCHANGED vars
  BY <1>7 DEF vars, app
<1>8. QED
  BY <1>3, <1>4, <1>5, <1>6, <1>7 DEF Next, MainStep

(* So the invariant holds at every moment.                                 *)
LEMMA DecidedAlways == Spec => [](Given /\ Decided)
<1>1. QED
  BY InitDecided, StepDecided, PTL DEF Spec

(* The configuration of a process that has one.                            *)
LEMMA CfgIs ==
  ASSUME Given, Decided, stage \in Loaded
  PROVE  /\ cfg \in load /\ config = {cfg} /\ AsWritten(cfg)
         /\ ~WrongConfig
<1>1. config = load /\ load # {}
  BY DEF Decided
<1>2. cfg \in load /\ \A c \in load : c = cfg
  BY <1>1, LoadIs DEF cfg
<1>3. QED
  BY <1>1, <1>2, LoadIs, LoadFails

(* The languages resolved are the ones listed, of which none is unknown,   *)
(* or all of them.                                                         *)
LEMMA ResolvedIs ==
  ASSUME Given, Decided, stage \in Loaded
  PROVE  /\ resolve_loaded_langs(cfg.langs) = {} <=> UnknownLangs
         /\ resolve_loaded_langs(cfg.langs) # {} =>
              UNION resolve_loaded_langs(cfg.langs)
                = IF Written("langs") = {} THEN ALLOWLIST
                  ELSE UNION {CleanCodes(s) : s \in Items("langs")}
<1> DEFINE langs == cfg.langs
           codes == UNION {CleanCodes(s) : s \in Items("langs")}
<1>1. /\ langs = {} <=> Written("langs") = {}
      /\ \A l \in langs : \A s \in Items("langs") : ToSet(l) = CleanCodes(s)
      /\ Items("langs") # {} <=> Written("langs") # {}
  BY CfgIs DEF AsWritten
<1> HIDE DEF langs
<1>2. CASE langs = {}
  <2>1. resolve_loaded_langs(langs) = {ALLOWLIST}
    BY <1>2 DEF resolve_loaded_langs
  <2>2. UNION {ALLOWLIST} = ALLOWLIST
    OBVIOUS
  <2>3. Items("langs") = {}
    BY <1>1, <1>2
  <2>4. QED
    BY <1>1, <1>2, <2>1, <2>2, <2>3 DEF UnknownLangs, langs
<1>3. ASSUME NEW l \in langs
      PROVE  /\ resolve_loaded_langs(langs) = {} <=> UnknownLangs
             /\ resolve_loaded_langs(langs) # {} => UNION resolve_loaded_langs(langs) = codes
  <2>1. PICK s \in Items("langs") : TRUE
    BY <1>1
  <2>2. \A j \in langs : ToSet(j) = ToSet(l)
    BY <1>1, <2>1
  <2>3. \A t \in Items("langs") : CleanCodes(t) = ToSet(l)
    BY <1>1
  <2>4. {ToSet(j) : j \in langs} = {ToSet(l)}
    BY <2>2
  <2>5. codes = ToSet(l)
    <3> DEFINE C == ToSet(l)
    <3>1. \A t \in Items("langs") : CleanCodes(t) = C
      BY <2>3
    <3> HIDE DEF C
    <3>2. codes = C
      BY <2>1, <3>1
    <3>3. QED
      BY <3>2 DEF C
  <2>6. resolve_loaded_langs(langs) = {c \in {ToSet(l)} : c \subseteq ALLOWLIST}
    BY <2>4 DEF resolve_loaded_langs
  <2>7. UnknownLangs <=> ~(ToSet(l) \subseteq ALLOWLIST)
    BY <2>1, <2>3 DEF UnknownLangs
  <2> HIDE DEF codes
  <2>8. CASE ToSet(l) \subseteq ALLOWLIST
    <3>1. resolve_loaded_langs(langs) = {ToSet(l)}
      BY <2>6, <2>8
    <3>2. UNION {ToSet(l)} = ToSet(l)
      OBVIOUS
    <3>3. QED
      BY <2>5, <2>7, <2>8, <3>1, <3>2
  <2>9. CASE ~(ToSet(l) \subseteq ALLOWLIST)
    BY <2>6, <2>7, <2>9
  <2>10. QED
    BY <2>8, <2>9
<1>4. QED
  BY <1>1, <1>2, <1>3 DEF langs

(* A process refuses to start exactly for the documented reasons, or for a *)
(* value of another form than its field, whatever texts the environment    *)
(* holds, whichever of them figment reads as literals, and whatever values *)
(* the TOML file holds.                                                    *)
THEOREM RefusedForAReason == Spec => []RefusedExactlyWhenWrong
<1>1. Given /\ Decided => RefusedExactlyWhenWrong
  <2> SUFFICES ASSUME Given, Decided PROVE RefusedExactlyWhenWrong
    OBVIOUS
  <2>1. stage = "bad_config" => WrongConfig
    BY LoadFails DEF Decided
  <2>2. stage = "unknown_langs" => UnknownLangs
    BY ResolvedIs DEF Decided, Loaded
  <2>3. ASSUME stage \in {"serving", "draining", "exited"}
        PROVE  ~WrongConfig /\ ~UnknownLangs
    <3>1. stage \in Loaded /\ stage \in Resolved
      BY <2>3 DEF Loaded, Resolved
    <3>2. QED
      BY <3>1, CfgIs, ResolvedIs DEF Decided
  <2>4. QED
    BY <2>1, <2>2, <2>3 DEF RefusedExactlyWhenWrong
<1>2. QED
  BY <1>1, DecidedAlways, PTL

(* What serves is what was written: the environment before the file, and a *)
(* default for what is in neither; every language listed, with every term  *)
(* of its file; buckets that ascend.                                       *)
THEOREM WrittenIsServed == Spec => []ServesTheConfiguration
<1>1. Given /\ Decided => ServesTheConfiguration
  <2> SUFFICES ASSUME Given, Decided, Up PROVE ServesTheConfiguration
    BY DEF ServesTheConfiguration
  <2>1. stage \in Loaded /\ stage \in Resolved
    BY DEF Up, Loaded, Resolved
  <2>2. config = {cfg} /\ AsWritten(cfg)
    BY <2>1, CfgIs
  <2>3. /\ resolve_loaded_langs(cfg.langs) # {}
        /\ engine = [l \in UNION resolve_loaded_langs(cfg.langs) |-> load_terms(vendor)[l]]
    BY <2>1 DEF Decided
  <2>4. DOMAIN engine = IF Written("langs") = {} THEN ALLOWLIST
                        ELSE UNION {CleanCodes(s) : s \in Items("langs")}
    BY <2>1, <2>3, ResolvedIs
  <2>5. ASSUME NEW l \in DOMAIN engine, NEW line \in ToSet(vendor[l])
        PROVE  Trim(line) = << >> \/ Trim(line) \in engine[l]
    <3>1. l \in ALLOWLIST /\ engine[l] = load_terms(vendor)[l]
      BY <2>3, ResolvedAreCompiled
    <3>2. engine[l] = Terms(vendor[l])
      BY <3>1 DEF load_terms
    <3>3. QED
      BY <3>2 DEF Terms, ToSet
  <2>6. QED
    BY <2>2, <2>4, <2>5 DEF AsWritten, ServesTheConfiguration
<1>2. QED
  BY <1>1, DecidedAlways, PTL

(* A bearer token is admitted exactly if it is one of the listed keys,     *)
(* however many are listed and wherever in the list it stands.             *)
THEOREM TheKeysAreAdmitted == Spec => []AdmitsExactlyTheKeys
<1>1. Given /\ Decided => AdmitsExactlyTheKeys
  <2> SUFFICES ASSUME Given, Decided, Up, NEW keys \in cfg.api_keys, NEW header \in Headers
               PROVE  /\ header = {} <=> check(keys, header) = "missing"
                      /\ check(keys, header) = "good" <=>
                           \E h \in header :
                             /\ h.scheme \in {"Bearer ", "bearer "}
                             /\ h.token \notin NonAscii \cup {Blank}
                             /\ \E s \in Items("api_keys") : h.token \in Clean(s)
    BY DEF AdmitsExactlyTheKeys
  <2>1. stage \in Loaded
    BY DEF Up, Loaded
  <2>2. /\ keys \in Seq(Entries) /\ Blank \notin ToSet(keys)
        /\ \A s \in Items("api_keys") : ToSet(keys) = Clean(s)
        /\ Items("api_keys") # {}
    BY <2>1, CfgIs DEF AsWritten
  <2>3. \A token : matched(keys, token)
                     <=> /\ token # Blank
                         /\ \E s \in Items("api_keys") : token \in Clean(s)
    BY <2>2, MatchedIs
  <2>4. QED
    BY <2>3 DEF check
<1>2. QED
  BY <1>1, DecidedAlways, PTL
=============================================================================
